---------------------------- MODULE ParallelStartup ------------------------------
(***************************************************************************)
(* install_parallel_startup (parallel_startup.py): the main thread builds  *)
(* the actor and restores it, one thread builds the standalone rollout     *)
(* servers, another the teacher, on resource pools that exist only halfway *)
(* through the main thread's work.  veRL's own set-up is external.         *)
(*                                                                         *)
(* A replica carries what separates it from the others: its rank, memory   *)
(* budget and compile cache (verl_optimizations.py).                       *)
(***************************************************************************)
EXTENDS Integers, FiniteSets

CONSTANTS Gpus  \* trainer.n_gpus_per_node

ASSUME GpusAssumption == Gpus \in Nat \ {0}

VARIABLES
  startup,    \* the configuration that matters here
  main,       \* the main thread
  standalone, \* future of the standalone thread
  teacher,    \* future of the teacher thread
  builds,     \* teachers constructed, by thread or by veRL
  flag,       \* trainer.use_teacher_policy
  patched,    \* methods replaced on the trainer and its pool manager
  error,      \* an exception is on its way up the main thread
  hybrid,     \* replicas of the hybrid manager
  restored    \* the actor has loaded its checkpoint

startupVars == <<startup, main, standalone, teacher, builds, flag, patched, error, hybrid, restored>>

Startups == [validated : BOOLEAN, teacher : BOOLEAN, budget : BOOLEAN, caches : BOOLEAN]

\* _replica_compile_cache_dir; without the plug-in the cache is switched off.
Replica(rank, budget) ==
  [rank |-> rank, budget |-> budget, cache |-> IF startup.caches THEN rank ELSE "off"]

HybridReplicas(n) == {Replica(r, "hybrid") : r \in 0 .. (n - 1)}

\* start_rank, known before the hybrid replicas are.
StartRank == Gpus

\* Fault: the standalone manager numbers its replicas from the start.
NumberedFromZero == {Replica(0, IF startup.budget THEN "standalone" ELSE "hybrid")}

\* The standalone manager gets its own memory budget.
StandaloneReplicas ==
  {Replica(StartRank, IF startup.budget THEN "standalone" ELSE "hybrid")}

-------------------------------------------------------------------------------
(* The main thread.  An operator marked "Fault:" is a plausible bug in the
   definition that follows it; no specification here uses it. *)

\* setup: anything but one validated topology keeps upstream's start-up.
SetUp ==
  /\ main = "begin"
  /\ main' = "pools"
  /\ standalone' = IF startup.validated THEN "running" ELSE standalone
  /\ patched' = IF startup.validated /\ flag THEN {"trainer"} ELSE {}
  /\ UNCHANGED <<startup, teacher, builds, flag, error, hybrid, restored>>

\* init_pools.
InitPools ==
  /\ main = "pools"
  /\ main' = "create"
  /\ patched' = IF "trainer" \in patched THEN patched \cup {"pools"} ELSE patched
  /\ UNCHANGED <<startup, standalone, teacher, builds, flag, error, hybrid, restored>>

FlagDuringSetup == FALSE

\* create_and_start_teacher.
CreatePools ==
  /\ main = "create"
  /\ main' = "workers"
  /\ IF "pools" \in patched
       THEN /\ patched' = patched \ {"pools"}
            /\ teacher' = "running" /\ builds' = builds + 1
            /\ flag' = FlagDuringSetup
       ELSE UNCHANGED <<patched, teacher, builds, flag>>
  /\ UNCHANGED <<startup, standalone, error, hybrid, restored>>

\* veRL's workers; its own teacher if use_teacher_policy says so.  As many
\* hybrid replicas as GPUs, unless the configuration says otherwise.
BuildWorkers ==
  /\ main = "workers"
  /\ main' = "restore"
  /\ IF flag THEN teacher' = "built" /\ builds' = builds + 1 ELSE UNCHANGED <<teacher, builds>>
  /\ \E n \in Gpus .. (Gpus + 1) : hybrid' = HybridReplicas(n)
  /\ UNCHANGED <<startup, standalone, flag, patched, error, restored>>

RestoreActor ==
  /\ main = "restore"
  /\ main' = "leave" /\ restored' = TRUE
  /\ UNCHANGED <<startup, standalone, teacher, builds, flag, patched, error, hybrid>>

BaseSetupFails ==
  /\ main \in {"pools", "create", "workers", "restore"}
  /\ main' = "leave" /\ error' = TRUE
  /\ UNCHANGED <<startup, standalone, teacher, builds, flag, patched, hybrid, restored>>

\* The finally clause.
LeaveBaseSetup ==
  /\ main = "leave"
  /\ main' = "join_teacher"
  /\ flag' = IF "trainer" \in patched THEN TRUE ELSE flag
  /\ patched' = patched \ {"trainer"}
  /\ UNCHANGED <<startup, standalone, teacher, builds, error, hybrid, restored>>

\* The executor joins its thread whatever happened.
TeacherJoined == teacher # "running"

\* teacher.result(), or a RuntimeError when the pools were never created.
JoinTeacher ==
  /\ main = "join_teacher" /\ TeacherJoined
  /\ main' = IF startup.validated THEN "join" ELSE "sequential"
  /\ error' = (error \/ (flag /\ teacher # "built"))
  /\ UNCHANGED <<startup, standalone, teacher, builds, flag, patched, hybrid, restored>>

\* Upstream's own order: the standalone servers come after the base set-up.
Sequential ==
  /\ main = "sequential"
  /\ main' = "join"
  /\ standalone' \in IF error THEN {standalone} ELSE {"built", "failed"}
  /\ UNCHANGED <<startup, teacher, builds, flag, patched, error, hybrid, restored>>

\* standalone.result(), the rank check and upstream's wiring.
JoinStandalone ==
  /\ main = "join" /\ standalone # "running"
  /\ main' = IF error \/ standalone # "built" \/ (startup.validated /\ Cardinality(hybrid) # StartRank)
               THEN "failed" ELSE "ready"
  /\ UNCHANGED <<startup, standalone, teacher, builds, flag, patched, error, hybrid, restored>>

-------------------------------------------------------------------------------
(* The other threads. *)

TeacherThreadEnds ==
  /\ teacher = "running"
  /\ teacher' \in {"built", "failed"}
  /\ UNCHANGED <<startup, main, standalone, builds, flag, patched, error, hybrid, restored>>

StandaloneThreadEnds ==
  /\ standalone = "running"
  /\ standalone' \in {"built", "failed"}
  /\ UNCHANGED <<startup, main, teacher, builds, flag, patched, error, hybrid, restored>>

StartupStep ==
  \/ SetUp \/ InitPools \/ CreatePools \/ BuildWorkers \/ RestoreActor \/ BaseSetupFails
  \/ LeaveBaseSetup \/ JoinTeacher \/ Sequential \/ JoinStandalone
  \/ TeacherThreadEnds \/ StandaloneThreadEnds

\* A new process.
StartupReset ==
  /\ main' = "begin" /\ standalone' = "none" /\ teacher' = "none" /\ builds' = 0
  /\ flag' = startup.teacher /\ patched' = {} /\ error' = FALSE /\ hybrid' = {} /\ restored' = FALSE
  /\ UNCHANGED startup

StartupInit ==
  /\ startup \in Startups
  /\ main = "begin" /\ standalone = "none" /\ teacher = "none" /\ builds = 0
  /\ flag = startup.teacher /\ patched = {} /\ error = FALSE /\ hybrid = {} /\ restored = FALSE

-------------------------------------------------------------------------------
\* Whatever fails, and in whatever order the threads end, set-up leaves no
\* thread behind and the trainer as it was; it succeeds only with a restored
\* actor and every service built exactly once.  The ranks given out in parallel
\* do not meet, so no two replicas share a compile cache, and hybrid replicas
\* keep their memory budget (parallel_startup.py:22-116,
\* verl_optimizations.py:143-180,249-287).
StartupIsAllOrNothing ==
  /\ main \in {"ready", "failed"} =>
       /\ standalone # "running" /\ teacher # "running"
       /\ flag = startup.teacher /\ "trainer" \notin patched
  /\ main = "ready" =>
       /\ restored /\ standalone = "built"
       /\ builds = (IF startup.teacher THEN 1 ELSE 0) /\ (startup.teacher => teacher = "built")
       /\ \A r \in hybrid : r.budget = "hybrid"
       /\ startup.validated => \A r \in hybrid, s \in StandaloneReplicas :
            r.rank # s.rank /\ (startup.caches => r.cache # s.cache)
===============================================================================
