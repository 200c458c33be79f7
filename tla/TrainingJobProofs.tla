-------------------------- MODULE TrainingJobProofs -----------------------------
(*****************************************************************************)
(* Proofs about TrainingJob and its parts, for every size of world, number of *)
(* steps, configuration, failure and kill.  Each part is proved by itself,   *)
(* for any order of its own steps; the job is then shown to take only such   *)
(* steps, and the rest relates the parts to one another.                     *)
(*****************************************************************************)
EXTENDS TrainingJob, FunctionTheorems, FiniteSetTheorems, SequenceTheorems, TLAPS

-------------------------------------------------------------------------------
(* ParallelStartup, launch after launch. *)

StartupSpec == StartupInit /\ [][StartupStep \/ StartupReset]_startupVars

-------------------------------------------------------------------------------
Before == {"begin", "pools", "create"}
Middle == {"workers", "restore"}
After == {"join_teacher", "sequential", "join", "ready", "failed"}

StartupTypeOK ==
  /\ startup \in Startups
  /\ main \in Before \cup Middle \cup {"leave"} \cup After
  /\ standalone \in {"none", "running", "built", "failed"}
  /\ teacher \in {"none", "running", "built", "failed"}

\* The teacher gets a thread of its own.
Threaded == startup.validated /\ startup.teacher

\* What is patched, and the flag that keeps veRL from building a second teacher.
Patching ==
  /\ main = "begin" => patched = {}
  /\ main = "pools" => patched = IF Threaded THEN {"trainer"} ELSE {}
  /\ main = "create" => patched = IF Threaded THEN {"trainer", "pools"} ELSE {}
  /\ main \in Middle => patched = IF Threaded THEN {"trainer"} ELSE {}
  /\ main = "leave" => ("trainer" \in patched <=> Threaded)
  /\ main \in After => "trainer" \notin patched
  /\ ~ Threaded \/ main \in Before \cup After => flag = startup.teacher
  /\ main \in Middle /\ Threaded => ~ flag

\* Which threads may be running.
Threads ==
  /\ ~ startup.validated => standalone # "running"
  /\ ~ Threaded => teacher # "running"
  /\ main = "begin" => standalone = "none"
  /\ main = "sequential" => ~ startup.validated
  /\ main \in {"sequential", "join", "ready", "failed"} => teacher # "running"
  /\ main \in {"ready", "failed"} => standalone # "running"

\* Every service is built once, unless an exception is on its way.
Services ==
  /\ main \in Before \cup Middle => ~ error
  /\ main \in Before => builds = 0 /\ teacher = "none"
  /\ main = "workers" => builds = IF Threaded THEN 1 ELSE 0
  /\ main = "restore" \/ (main \in {"leave"} \cup After /\ ~ error) =>
       /\ builds = IF startup.teacher THEN 1 ELSE 0
       /\ startup.teacher /\ ~ Threaded => teacher = "built"
       /\ \E n \in Gpus .. (Gpus + 1) : hybrid = HybridReplicas(n)
  /\ main \in {"leave"} \cup After /\ ~ error => restored
  /\ main \in {"sequential", "join", "ready"} /\ ~ error /\ startup.teacher => teacher = "built"
  /\ main = "ready" => /\ ~ error /\ standalone = "built"
                       /\ startup.validated => Cardinality(hybrid) = StartRank

StartupInv == StartupTypeOK /\ Patching /\ Threads /\ Services


\* Replicas of a manager are as many as their ranks.
LEMMA HybridCount ==
  ASSUME NEW n \in Nat \ {0}
  PROVE  Cardinality(HybridReplicas(n)) = n
<1>. DEFINE f == [r \in 0 .. (n - 1) |-> Replica(r, "hybrid")]
<1>1. \A a, b \in 0 .. (n - 1) : f[a] = f[b] => a = b
  BY DEF Replica
<1>2. f \in [0 .. (n - 1) -> HybridReplicas(n)]
  BY DEF HybridReplicas
<1>3. \A t \in HybridReplicas(n) : \E s \in 0 .. (n - 1) : f[s] = t
  BY DEF HybridReplicas
<1>. HIDE DEF f
<1>4. f \in Bijection(0 .. (n - 1), HybridReplicas(n))
  BY <1>1, <1>2, <1>3, Fun_IsBij
<1>5. IsFiniteSet(0 .. (n - 1)) /\ Cardinality(0 .. (n - 1)) = n
  BY FS_Interval
<1>6. ExistsBijection(0 .. (n - 1), HybridReplicas(n))
  BY <1>4, Fun_ExistsBij
<1>. QED
  BY <1>5, <1>6, FS_Bijection

\* A new process begins with nothing patched and nothing running.
LEMMA StartupStarts == StartupInit => StartupInv
BY DEF StartupInit, StartupInv, StartupTypeOK, Patching, Threads, Services, Threaded, Before, Middle, After

\* So does a relaunch.
LEMMA StartupResetKeeps == StartupInv /\ StartupReset => StartupInv'
BY DEF StartupReset, StartupInv, StartupTypeOK, Patching, Threads, Services, Threaded, Before, Middle, After

\* The main thread on its way to the workers: the method it replaces comes back,
\* and the teacher's thread is started at most once (parallel_startup.py:32-72).
LEMMA BaseSetupKeeps ==
  StartupInv /\ (SetUp \/ InitPools \/ CreatePools \/ BuildWorkers \/ RestoreActor) => StartupInv'
<1>. USE DEF StartupInv, StartupTypeOK, Patching, Threads, Services, Threaded, Before, Middle, After
<1>1. StartupInv /\ SetUp => StartupInv'
  BY DEF SetUp
<1>2. StartupInv /\ InitPools => StartupInv'
  BY DEF InitPools
<1>3. StartupInv /\ CreatePools => StartupInv'
  BY DEF CreatePools, FlagDuringSetup
<1>4. StartupInv /\ BuildWorkers => StartupInv'
  BY DEF BuildWorkers, HybridReplicas, Replica
<1>5. StartupInv /\ RestoreActor => StartupInv'
  BY DEF RestoreActor, HybridReplicas, Replica
<1>. QED
  BY <1>1, <1>2, <1>3, <1>4, <1>5

\* Whatever fails, the trainer is put back and its threads are joined
\* (parallel_startup.py:22-29,73-84,110-121).
LEMMA JoiningKeeps ==
  StartupInv /\ (BaseSetupFails \/ LeaveBaseSetup \/ JoinTeacher \/ Sequential \/ JoinStandalone)
    => StartupInv'
<1>. USE DEF StartupInv, StartupTypeOK, Patching, Threads, Services, Threaded, Before, Middle, After
<1>1. StartupInv /\ BaseSetupFails => StartupInv'
  BY DEF BaseSetupFails
<1>2. StartupInv /\ LeaveBaseSetup => StartupInv'
  <2>. SUFFICES ASSUME StartupInv, LeaveBaseSetup PROVE StartupInv'
    OBVIOUS
  <2>1. startup.teacher \in BOOLEAN
    BY DEF Startups
  <2>2. flag' = startup.teacher
    BY <2>1 DEF LeaveBaseSetup
  <2>3. StartupTypeOK' /\ Patching' /\ Threads'
    BY <2>2 DEF LeaveBaseSetup
  <2>4. \A n : HybridReplicas(n)' = HybridReplicas(n)
    BY DEF LeaveBaseSetup, HybridReplicas, Replica
  <2>5. Services'
    BY <2>4 DEF LeaveBaseSetup
  <2>. QED
    BY <2>3, <2>5
<1>3. StartupInv /\ JoinTeacher => StartupInv'
  <2>. SUFFICES ASSUME StartupInv, JoinTeacher PROVE StartupInv'
    OBVIOUS
  <2>1. StartupTypeOK' /\ Patching' /\ Threads'
    BY DEF JoinTeacher, TeacherJoined
  <2>2. \A n : HybridReplicas(n)' = HybridReplicas(n)
    BY DEF JoinTeacher, HybridReplicas, Replica
  <2>3. ~ error' => ~ error /\ (startup.teacher => teacher = "built")
    BY DEF JoinTeacher
  <2>4. Services'
    BY <2>2, <2>3 DEF JoinTeacher
  <2>. QED
    BY <2>1, <2>4
<1>4. StartupInv /\ Sequential => StartupInv'
  BY DEF Sequential, HybridReplicas, Replica
<1>5. StartupInv /\ JoinStandalone => StartupInv'
  BY DEF JoinStandalone, HybridReplicas, Replica, StartRank
<1>. QED
  BY <1>1, <1>2, <1>3, <1>4, <1>5

\* The other threads end when they like.
LEMMA ThreadsKeep == StartupInv /\ (TeacherThreadEnds \/ StandaloneThreadEnds) => StartupInv'
BY DEF StartupInv, StartupTypeOK, Patching, Threads, Services, Threaded, Before, Middle, After,
       TeacherThreadEnds, StandaloneThreadEnds, HybridReplicas, Replica

-------------------------------------------------------------------------------

\* The invariant holds in every state of the start-up.
THEOREM StartupInvariance == StartupSpec => []StartupInv
<1>1. StartupInv /\ UNCHANGED startupVars => StartupInv'
  BY DEF startupVars, StartupInv, StartupTypeOK, Patching, Threads, Services, Threaded,
         Before, Middle, After, HybridReplicas, Replica
<1>2. StartupInv /\ [StartupStep \/ StartupReset]_startupVars => StartupInv'
  BY <1>1, StartupResetKeeps, BaseSetupKeeps, JoiningKeeps, ThreadsKeep DEF StartupStep
<1>. QED
  BY <1>2, StartupStarts, PTL DEF StartupSpec

\* Set-up leaves no thread behind and the trainer as it was; it succeeds only
\* with a restored actor and every service built once, and the ranks given out
\* before the hybrid replicas exist do not meet theirs
\* (parallel_startup.py:22-116, verl_optimizations.py:143-180,249-287).
THEOREM StartupIsSafe == StartupSpec => []StartupIsAllOrNothing
<1>1. StartupInv => StartupIsAllOrNothing
  <2>. SUFFICES ASSUME StartupInv PROVE StartupIsAllOrNothing
    OBVIOUS
  <2>. USE DEF StartupInv, Before, Middle, After
  <2>1. main \in {"ready", "failed"} =>
          /\ standalone # "running" /\ teacher # "running"
          /\ flag = startup.teacher /\ "trainer" \notin patched
    BY DEF Patching, Threads
  <2>2. ASSUME main = "ready"
        PROVE  /\ restored /\ standalone = "built"
               /\ builds = (IF startup.teacher THEN 1 ELSE 0) /\ (startup.teacher => teacher = "built")
    BY <2>2 DEF Services
  <2>3. ASSUME main = "ready"
        PROVE  /\ \A r \in hybrid : r.budget = "hybrid"
               /\ startup.validated => \A r \in hybrid, s \in StandaloneReplicas :
                    r.rank # s.rank /\ (startup.caches => r.cache # s.cache)
    <3>0. Gpus \in Nat \ {0}
      BY GpusAssumption
    <3>1. PICK n \in Gpus .. (Gpus + 1) : hybrid = HybridReplicas(n)
      BY <2>3 DEF Services
    <3>2. \A r \in hybrid : \E k \in 0 .. (n - 1) : r = Replica(k, "hybrid")
      BY <3>1 DEF HybridReplicas
    <3>3. startup.validated => n = Gpus
      BY <2>3, <3>0, <3>1, HybridCount DEF Services, StartRank
    <3>4. \A s \in StandaloneReplicas : s.rank = Gpus /\ (startup.caches => s.cache = Gpus)
      BY DEF StandaloneReplicas, Replica, StartRank
    <3>5. \A r \in hybrid : /\ r.budget = "hybrid" /\ r.rank \in 0 .. (n - 1)
                            /\ startup.caches => r.cache = r.rank
      BY <3>2 DEF Replica
    <3>. QED
      BY <3>0, <3>3, <3>4, <3>5
  <2>. QED
    BY <2>1, <2>2, <2>3 DEF StartupIsAllOrNothing
<1>. QED
  BY <1>1, StartupInvariance, PTL

-------------------------------------------------------------------------------
(* WeightTransfer, for any number of transfers and relaunches. *)

LinkStep ==
  \/ BeginTransfer \/ Connect \/ EndTransfer
  \/ \E v \in Nat : Transfer(v)
  \/ \E w \in Workers : Prepare(w) \/ Finalize(w)

LinkSpec == LinkInit /\ [][LinkStep \/ LinkReset]_linkVars

-------------------------------------------------------------------------------
(* The inductive invariant. *)

LinkTypeOK ==
  /\ transport \in Transports
  /\ link \in {"idle", "prepare", "connected", "finalize"}
  /\ due \subseteq Workers /\ buffers \subseteq Workers /\ flushed \subseteq Workers
  /\ allocs \in [Workers -> Nat]
  /\ rank \in [Workers -> Int \cup {NoRank}]

Unranked == \A w \in Workers : rank[w] = NoRank

\* Ranks as a topology gives them: actors send or have rank -1, rollouts follow.
Ranked ==
  /\ \A a \in Actors : rank[a] \in Int /\ rank[a] < NumSenders
  /\ \A w \in Rollouts : rank[w] \in Int /\ rank[w] >= NumSenders

\* A group that stays has ranks from its first transfer on; one that is rebuilt
\* has them during a transfer only.
Group ==
  /\ transport.rebuild_group =>
       /\ link \in {"idle", "prepare"} => Unranked
       /\ link = "finalize" => \A w \in Workers \ due : rank[w] = NoRank
  /\ ~ transport.rebuild_group =>
       /\ Unranked \/ Ranked
       /\ link \in {"connected", "finalize"} => Ranked

Sender(w) == w \in Actors /\ rank[w] # NoRank /\ rank[w] >= 0 /\ ~ transport.rebuild_group

\* Who has buffers, worker by worker.
Buffered ==
  /\ link = "idle" => \A w \in Workers : w \in buffers <=> Sender(w)
  /\ link = "prepare" => \A w \in Workers : w \in buffers <=> w \notin due \/ Sender(w)
  /\ link = "connected" => buffers = Workers
  /\ link = "finalize" => \A w \in Workers : w \in buffers <=> w \in due \/ Sender(w)

\* In a group that stays an actor keeps its cache, and allocates when it has no
\* rank yet.
Allocated ==
  ~ transport.rebuild_group =>
    /\ Actors \cap flushed = {}
    /\ Unranked => \A w \in Workers : allocs[w] = IF link = "prepare" /\ w \notin due THEN 1 ELSE 0
    /\ ~ Unranked => \A w \in Workers : Sender(w) => allocs[w] = 1

LinkInv == LinkTypeOK /\ Group /\ Buffered /\ Allocated

-------------------------------------------------------------------------------

\* Somebody sends, and the numbers of senders and workers are numbers.
LEMMA SendersType == NumSenders \in Nat /\ Cardinality(Workers) \in Nat /\ Cardinality(Rollouts) \in Nat
<1>1. Cardinality(Actors) \in Nat /\ Cardinality(Rollouts) \in Nat
  BY WorkersAssumption, FS_CardinalityType
<1>2. IsFiniteSet(Workers)
  BY WorkersAssumption, FS_Union DEF Workers
<1>. QED
  BY <1>1, <1>2, FS_CardinalityType DEF NumSenders

\* A topology ranks everybody, the actors below the number of senders.
LEMMA TopologyRanks ==
  ASSUME NEW r \in Topologies
  PROVE  /\ r \in [Workers -> Int]
         /\ \A a \in Actors : r[a] < NumSenders
         /\ \A w \in Rollouts : r[w] >= NumSenders
<1>1. r \in [Workers -> -1 .. (Cardinality(Workers) - 1)]
      /\ {r[a] : a \in Actors} \ {-1} = 0 .. (NumSenders - 1)
      /\ {r[w] : w \in Rollouts} = NumSenders .. (NumSenders + Cardinality(Rollouts) - 1)
  BY DEF Topologies
<1>2. r \in [Workers -> Int]
  BY <1>1, SendersType
<1>3. ASSUME NEW a \in Actors PROVE r[a] < NumSenders
  <2>1. r[a] = -1 \/ r[a] \in 0 .. (NumSenders - 1)
    BY <1>1
  <2>. QED
    BY <2>1, SendersType
<1>4. ASSUME NEW w \in Rollouts PROVE r[w] >= NumSenders
  <2>1. r[w] \in NumSenders .. (NumSenders + Cardinality(Rollouts) - 1)
    BY <1>1
  <2>. QED
    BY <2>1, SendersType
<1>. QED
  BY <1>2, <1>3, <1>4

\* There are no buffers and no ranks to begin with.
LEMMA LinkStarts == LinkInit => LinkInv
BY WorkersAssumption DEF LinkInit, LinkInv, LinkTypeOK, Group, Unranked, Buffered, Sender, Allocated

\* Nor after a relaunch.
LEMMA LinkResetKeeps == LinkInv /\ LinkReset => LinkInv'
BY WorkersAssumption
   DEF LinkReset, LinkInv, LinkTypeOK, Group, Unranked, Buffered, Sender, Allocated

\* A transfer begins with the senders' buffers there (verl_optimizations.py:183-210).
LEMMA BeginKeeps == LinkInv /\ (BeginTransfer \/ EndTransfer) => LinkInv'
<1>1. LinkInv /\ BeginTransfer => LinkInv'
  BY DEF BeginTransfer, LinkInv, LinkTypeOK, Group, Unranked, Ranked, NumSenders, Buffered, Sender, Allocated
<1>2. LinkInv /\ EndTransfer => LinkInv'
  BY DEF EndTransfer, LinkInv, LinkTypeOK, Group, Unranked, Ranked, NumSenders, Buffered, Sender, Allocated
<1>. QED
  BY <1>1, <1>2

\* prepare allocates for a worker that has no buffers
\* (verl_optimizations.py:212-219).
LEMMA PrepareKeeps == ASSUME NEW w \in Workers, LinkInv, Prepare(w) PROVE LinkInv'
<1>0. /\ link = "prepare" /\ w \in due /\ due' = due \ {w}
      /\ UNCHANGED <<transport, link, flushed, rank>>
  BY DEF Prepare
<1>1. buffers' = buffers \cup {w}
      /\ allocs' = IF w \in buffers THEN allocs ELSE [allocs EXCEPT ![w] = @ + 1]
  BY DEF Prepare, OriginalPrepare
<1>2. LinkTypeOK' /\ Group'
  BY <1>0, <1>1 DEF LinkInv, LinkTypeOK, Group, Unranked, Ranked, NumSenders
<1>3. \A v \in Workers : Sender(v)' <=> Sender(v)
  BY <1>0 DEF Sender
<1>4. Buffered'
  BY <1>0, <1>1, <1>3 DEF LinkInv, LinkTypeOK, Buffered
<1>5. Unranked' <=> Unranked
  BY <1>0 DEF Unranked
<1>6. ASSUME ~ transport.rebuild_group, Unranked, NEW v \in Workers
      PROVE  allocs'[v] = IF link' = "prepare" /\ v \notin due' THEN 1 ELSE 0
  <2>1. w \notin buffers
    BY <1>0, <1>6 DEF LinkInv, Buffered, Sender, Unranked
  <2>. QED
    BY <1>0, <1>1, <1>6, <2>1 DEF LinkInv, LinkTypeOK, Allocated
<1>7. ASSUME ~ transport.rebuild_group, ~ Unranked, NEW v \in Workers, Sender(v)
      PROVE  allocs'[v] = 1
  <2>1. v \in buffers
    BY <1>0, <1>7 DEF LinkInv, Buffered
  <2>. QED
    BY <1>1, <1>7, <2>1 DEF LinkInv, LinkTypeOK, Allocated
<1>8. Allocated'
  BY <1>0, <1>3, <1>5, <1>6, <1>7 DEF LinkInv, Allocated
<1>. QED
  BY <1>2, <1>4, <1>8 DEF LinkInv

\* When all are prepared the group is there, and the weights travel.
LEMMA ConnectKeeps == LinkInv /\ Connect => LinkInv'
<1>. SUFFICES ASSUME LinkInv, Connect PROVE LinkInv'
  OBVIOUS
<1>0. /\ link = "prepare" /\ due = {} /\ link' = "connected" /\ Workers # {}
      /\ UNCHANGED <<transport, due, buffers, allocs, flushed>>
  BY WorkersAssumption DEF Connect, Workers
<1>1. rank' \in Topologies \/ (~ Unranked /\ rank' = rank)
  BY DEF Connect, Unranked
<1>2. NumSenders' = NumSenders
  BY <1>0 DEF NumSenders
<1>3. LinkTypeOK'
  BY <1>0, <1>1, TopologyRanks DEF LinkInv, LinkTypeOK
<1>4. Group'
  BY <1>0, <1>1, <1>2, TopologyRanks DEF LinkInv, Group, Ranked, Workers
<1>5. Buffered'
  BY <1>0 DEF LinkInv, LinkTypeOK, Buffered
<1>6. ASSUME ~ transport.rebuild_group PROVE ~ Unranked'
  BY <1>0, <1>4, <1>6, WorkersAssumption DEF Group, Ranked, Unranked, Workers
<1>7. ASSUME ~ transport.rebuild_group, NEW w \in Workers, Sender(w)' PROVE allocs'[w] = 1
  <2>1. CASE Unranked
    BY <1>0, <1>7, <2>1 DEF LinkInv, Allocated
  <2>2. CASE ~ Unranked
    <3>1. rank' = rank
      BY <2>2 DEF Connect, Unranked
    <3>. QED
      BY <1>0, <1>7, <2>2, <3>1 DEF LinkInv, Allocated, Sender
  <2>. QED
    BY <2>1, <2>2
<1>8. Allocated'
  BY <1>0, <1>6, <1>7 DEF LinkInv, Allocated
<1>. QED
  BY <1>3, <1>4, <1>5, <1>8 DEF LinkInv

\* The transfer itself leaves groups and buffers alone.
LEMMA TransferKeeps == ASSUME NEW v, LinkInv, Transfer(v) PROVE LinkInv'
BY DEF Transfer, LinkInv, LinkTypeOK, Group, Unranked, Ranked, NumSenders, Buffered, Sender, Allocated

\* finalize frees what the role does not need (verl_optimizations.py:221-246).
LEMMA FinalizeKeeps == ASSUME NEW w \in Workers, LinkInv, Finalize(w) PROVE LinkInv'
<1>0. /\ link = "finalize" /\ w \in due /\ due' = due \ {w}
      /\ UNCHANGED <<transport, link, allocs>> /\ NumSenders' = NumSenders
  BY DEF Finalize, NumSenders
<1>1. CASE transport.rebuild_group
  <2>1. buffers' = buffers \ {w} /\ flushed' = flushed \cup {w} /\ rank' = [rank EXCEPT ![w] = NoRank]
    BY <1>1 DEF Finalize, IsActorOfKeptGroup, OriginalFinalize
  <2>2. LinkTypeOK'
    BY <1>0, <2>1 DEF LinkInv, LinkTypeOK
  <2>3. Group' /\ Buffered' /\ Allocated'
    BY <1>0, <1>1, <2>1 DEF LinkInv, LinkTypeOK, Group, Buffered, Sender, Allocated
  <2>. QED
    BY <2>2, <2>3 DEF LinkInv
<1>2. CASE ~ transport.rebuild_group
  <2>1. rank' = rank /\ Ranked /\ (w \in Actors \/ w \in Rollouts)
    BY <1>0, <1>2 DEF Finalize, OriginalFinalize, LinkInv, Group, Workers
  <2>4. Ranked' /\ (~ transport.rebuild_group => Group')
    BY <1>0, <2>1 DEF Group, Ranked
  <2>2. CASE w \in Actors
    <3>1. rank[w] \in Int /\ rank[w] < NumSenders /\ rank[w] # NoRank
      BY <2>1, <2>2, WorkersAssumption DEF Ranked
    <3>2. flushed' = flushed /\ buffers' = IF Sender(w) THEN buffers ELSE buffers \ {w}
      BY <1>2, <2>2, <3>1 DEF Finalize, IsActorOfKeptGroup, Sender
    <3>3. LinkTypeOK'
      BY <1>0, <2>1, <3>2 DEF LinkInv, LinkTypeOK, Workers
    <3>7. Group'
      BY <1>0, <1>2, <2>4
    <3>4. \A v \in Workers : Sender(v)' <=> Sender(v)
      BY <1>0, <2>1 DEF Sender
    <3>5. Buffered'
      BY <1>0, <3>2, <3>4 DEF LinkInv, LinkTypeOK, Buffered
    <3>6. Allocated'
      BY <1>0, <2>1, <3>2, <3>4 DEF LinkInv, Allocated, Unranked
    <3>. QED
      BY <3>3, <3>5, <3>6, <3>7 DEF LinkInv
  <2>3. CASE w \in Rollouts
    <3>1. rank[w] \in Int /\ rank[w] >= NumSenders /\ w \notin Actors
      BY <2>1, <2>3, WorkersAssumption DEF Ranked
    <3>2. flushed' = flushed \cup {w} /\ buffers' = buffers \ {w}
      BY <3>1, SendersType DEF Finalize, IsActorOfKeptGroup, OriginalFinalize
    <3>3. LinkTypeOK'
      BY <1>0, <2>1, <3>2 DEF LinkInv, LinkTypeOK, Workers
    <3>7. Group'
      BY <1>0, <1>2, <2>4
    <3>4. \A v \in Workers : Sender(v)' <=> Sender(v)
      BY <1>0, <2>1 DEF Sender
    <3>5. Buffered'
      BY <1>0, <3>1, <3>2, <3>4 DEF LinkInv, LinkTypeOK, Buffered, Sender
    <3>6. Allocated'
      BY <1>0, <2>1, <3>1, <3>2, <3>4 DEF LinkInv, Allocated, Unranked
    <3>. QED
      BY <3>3, <3>5, <3>6, <3>7 DEF LinkInv
  <2>. QED
    BY <2>1, <2>2, <2>3
<1>. QED
  BY <1>1, <1>2

-------------------------------------------------------------------------------

\* The invariant holds over any number of transfers and relaunches.
THEOREM LinkInvariance == LinkSpec => []LinkInv
<1>1. LinkInv /\ UNCHANGED linkVars => LinkInv'
  BY DEF linkVars, LinkInv, LinkTypeOK, Group, Unranked, Ranked, NumSenders, Buffered, Sender, Allocated
<1>2. LinkInv /\ [LinkStep \/ LinkReset]_linkVars => LinkInv'
  BY <1>1, LinkResetKeeps, BeginKeeps, PrepareKeeps, ConnectKeeps, TransferKeeps, FinalizeKeeps DEF LinkStep
<1>. QED
  BY <1>2, LinkStarts, PTL DEF LinkSpec

\* Everyone in the group has its buffers when the weights travel; between
\* updates exactly the senders of a group that stays keep theirs, which they
\* allocate once (verl_optimizations.py:183-246).
THEOREM BuffersAreOfSenders == LinkSpec => []BuffersFollowRoles
<1>1. LinkInv => BuffersFollowRoles
  <2>. SUFFICES ASSUME LinkInv PROVE BuffersFollowRoles
    OBVIOUS
  <2>1. link = "connected" => \A w \in Workers : rank[w] >= 0 => w \in buffers
    BY DEF LinkInv, Buffered
  <2>2. link = "idle" =>
          buffers = {a \in Actors : rank[a] # NoRank /\ rank[a] >= 0 /\ ~ transport.rebuild_group}
    BY DEF LinkInv, LinkTypeOK, Buffered, Sender, Workers
  <2>3. ASSUME ~ transport.rebuild_group
        PROVE  /\ Actors \cap flushed = {}
               /\ \A a \in Actors : rank[a] # NoRank /\ rank[a] >= 0 => allocs[a] = 1
    BY <2>3 DEF LinkInv, Allocated, Sender, Unranked, Workers
  <2>. QED
    BY <2>1, <2>2, <2>3 DEF BuffersFollowRoles
<1>. QED
  BY <1>1, LinkInvariance, PTL

-------------------------------------------------------------------------------
(* GradientSync: its steps, the optimizer's and relaunches, in any order. *)

GradientSpec == GradientInit /\ [][GradientStep \/ OptimizerStep \/ GradientReset]_gradVars

-------------------------------------------------------------------------------
(* The inductive invariant. *)

GradientTypeOK ==
  /\ engine \in Engines
  /\ micro \in 0 .. MicroBatches
  /\ ran \subseteq Modules /\ touched \subseteq Modules /\ syncing \subseteq Modules
  /\ gathered \subseteq Modules
  /\ owed \in [Modules -> SUBSET Nat] /\ reduced \in [Modules -> SUBSET Nat]
  /\ used \in [Modules -> SUBSET Nat]

\* Which modules synchronise: all of them outside the context; within it those
\* no hook has met, or none at all under FSDP1's no_sync().
Synchronising ==
  /\ ~ inside => syncing = Modules /\ touched = {} /\ ~ hooked
  /\ inside => /\ micro < MicroBatches /\ (hooked <=> Deferred)
               /\ touched = IF hooked THEN ran ELSE {}
               /\ syncing = IF NoSync THEN {} ELSE Modules \ touched
               /\ ran \subseteq gathered

\* A module's gradients are held or reduced or in the making, and nothing is
\* held once the last micro-batch is over.
Accounted ==
  /\ \A m \in Modules :
       used[m] = owed[m] \cup reduced[m] \cup (IF inside /\ m \in ran THEN {micro} ELSE {})
  /\ micro = MicroBatches => \A m \in Modules : owed[m] = {}

GradientInv == GradientTypeOK /\ Synchronising /\ Accounted /\ ~ broken

-------------------------------------------------------------------------------

\* A fresh engine synchronises everything and owes nothing.
LEMMA GradientStarts == GradientInit => GradientInv
<1>. SUFFICES ASSUME GradientInit PROVE GradientInv
  OBVIOUS
<1>1. MicroBatches \in Nat \ {0}
  BY GradientAssumption
<1>2. GradientTypeOK
  BY <1>1 DEF GradientInit, GradientTypeOK
<1>3. Synchronising /\ Accounted /\ ~ broken
  BY <1>1 DEF GradientInit, Synchronising, Accounted
<1>. QED
  BY <1>2, <1>3 DEF GradientInv

\* Entering the context decides how the micro-batch synchronises
\* (verl_optimizations.py:65-84).
LEMMA EnterKeeps == GradientInv /\ EnterContext => GradientInv'
<1>. SUFFICES ASSUME GradientInv, EnterContext PROVE GradientInv'
  OBVIOUS
<1>1. MicroBatches \in Nat \ {0}
  BY GradientAssumption
<1>2. GradientTypeOK'
  BY <1>1 DEF GradientInv, EnterContext, GradientTypeOK, Deferred
<1>3. Synchronising'
  BY <1>1 DEF GradientInv, EnterContext, GradientTypeOK, Synchronising, Deferred, NoSync, IsLast
<1>4. Accounted' /\ ~ broken'
  BY <1>1 DEF GradientInv, EnterContext, GradientTypeOK, Accounted
<1>. QED
  BY <1>2, <1>3, <1>4 DEF GradientInv

\* A forward pass unshards the module it runs, and its hook switches off no
\* other (verl_optimizations.py:30-37).
LEMMA ForwardKeeps == ASSUME NEW m \in Modules, GradientInv, Forward(m) PROVE GradientInv'
<1>1. MicroBatches \in Nat \ {0}
  BY GradientAssumption
<1>2. GradientTypeOK'
  BY <1>1 DEF GradientInv, Forward, GradientTypeOK, SwitchOff
<1>3. Synchronising'
  <2>1. inside /\ inside' /\ micro' = micro /\ engine' = engine /\ hooked' = hooked
    BY DEF Forward, GradientInv, GradientTypeOK
  <2>2. Deferred' = Deferred /\ NoSync' = NoSync
    BY <2>1 DEF Deferred, NoSync, IsLast
  <2>3. CASE hooked
    <3>1. ~ NoSync
      BY <2>1, <2>3 DEF GradientInv, Synchronising, Deferred, NoSync
    <3>. QED
      BY <2>1, <2>2, <2>3, <3>1 DEF GradientInv, Synchronising, Forward, SwitchOff
  <2>4. CASE ~ hooked
    BY <2>1, <2>2, <2>4 DEF GradientInv, Synchronising, Forward
  <2>. QED
    BY <2>3, <2>4
<1>4. Accounted'
  <2>1. inside /\ inside' /\ micro' = micro /\ owed' = owed /\ reduced' = reduced /\ ran' = ran \cup {m}
        /\ m \notin ran /\ micro < MicroBatches
    BY DEF Forward, GradientInv, Synchronising
  <2>2. ASSUME NEW k \in Modules
        PROVE  used'[k] = owed'[k] \cup reduced'[k] \cup (IF inside' /\ k \in ran' THEN {micro'} ELSE {})
    <3>1. used'[k] = IF k = m THEN used[k] \cup {micro} ELSE used[k]
      BY DEF Forward, GradientInv, GradientTypeOK
    <3>2. used[k] = owed[k] \cup reduced[k] \cup (IF k \in ran THEN {micro} ELSE {})
      BY <2>1 DEF GradientInv, Accounted
    <3>. QED
      BY <2>1, <3>1, <3>2
  <2>. QED
    BY <1>1, <2>1, <2>2 DEF Accounted, GradientInv, GradientTypeOK
<1>5. ~ broken'
  BY DEF GradientInv, Forward
<1>. QED
  BY <1>2, <1>3, <1>4, <1>5 DEF GradientInv

\* Backward finds every parameter it needs, reduces or holds what the
\* micro-batch made, and the last one holds nothing back
\* (verl_optimizations.py:18-48,65-84).
LEMMA BackwardKeeps == GradientInv /\ Backward => GradientInv'
<1>. SUFFICES ASSUME GradientInv, Backward PROVE GradientInv'
  OBVIOUS
<1>. DEFINE gradient(m) == owed[m] \cup (IF m \in ran THEN {micro} ELSE {})
<1>0. /\ MicroBatches \in Nat \ {0} /\ micro \in Nat /\ inside /\ micro < MicroBatches
      /\ engine \in Engines
  BY GradientAssumption DEF GradientInv, GradientTypeOK, Synchronising, Backward
<1>1. /\ reduced' = [m \in Modules |-> IF m \in syncing THEN reduced[m] \cup gradient(m) ELSE reduced[m]]
      /\ owed' = [m \in Modules |-> IF m \in syncing THEN {} ELSE gradient(m)]
      /\ syncing' = Restored /\ touched' = {} /\ ~ hooked' /\ ~ inside' /\ micro' = micro + 1
      /\ UNCHANGED <<engine, ran, gathered, used>>
  BY DEF Backward
<1>. HIDE DEF gradient
<1>2. syncing' = Modules
  BY <1>0, <1>1 DEF Restored, GradientInv, GradientTypeOK, Synchronising
<1>3. \A m \in Modules : gradient(m) \in SUBSET Nat
  BY <1>0 DEF gradient, GradientInv, GradientTypeOK
<1>4. ~ broken'
  <2>1. engine.fsdp = 2 => Modules \subseteq (syncing \cup gathered)
    BY <1>0 DEF GradientInv, Synchronising, NoSync
  <2>. QED
    BY <2>1 DEF Backward, GradientInv
<1>5. GradientTypeOK'
  <2>1. owed' \in [Modules -> SUBSET Nat] /\ reduced' \in [Modules -> SUBSET Nat]
    BY <1>1, <1>3 DEF GradientInv, GradientTypeOK
  <2>. QED
    BY <1>0, <1>1, <1>2, <1>4, <2>1 DEF GradientInv, GradientTypeOK
<1>6. Synchronising'
  BY <1>1, <1>2 DEF Synchronising
<1>7. Accounted'
  <2>1. ASSUME NEW m \in Modules PROVE used'[m] = owed'[m] \cup reduced'[m]
    BY <1>0, <1>1 DEF gradient, GradientInv, Accounted
  <2>2. ASSUME NEW m \in Modules, micro' = MicroBatches PROVE owed'[m] = {}
    <3>1. ~ Deferred /\ ~ NoSync
      BY <1>1, <2>2 DEF Deferred, NoSync, IsLast
    <3>2. syncing = Modules
      BY <1>0, <3>1 DEF GradientInv, Synchronising
    <3>. QED
      BY <1>1, <3>2
  <2>. QED
    BY <1>1, <2>1, <2>2 DEF Accounted
<1>. QED
  BY <1>4, <1>5, <1>6, <1>7 DEF GradientInv

\* The optimizer's step and a relaunch begin with nothing used and nothing owed.
LEMMA GradientResetKeeps == GradientInv /\ (OptimizerStep \/ GradientReset) => GradientInv'
<1>. SUFFICES ASSUME GradientInv, OptimizerStep \/ GradientReset PROVE GradientInv'
  OBVIOUS
<1>1. MicroBatches \in Nat \ {0}
  BY GradientAssumption
<1>2. CASE OptimizerStep
  <2>1. GradientTypeOK'
    BY <1>1, <1>2 DEF GradientInv, OptimizerStep, ZeroGradients, GradientTypeOK
  <2>2. Synchronising' /\ Accounted' /\ ~ broken'
    BY <1>1, <1>2 DEF GradientInv, OptimizerStep, AllReduced, ZeroGradients, Synchronising, Accounted
  <2>. QED
    BY <2>1, <2>2 DEF GradientInv
<1>3. CASE GradientReset
  <2>1. GradientTypeOK'
    BY <1>1, <1>3 DEF GradientInv, GradientReset, ZeroGradients, GradientTypeOK
  <2>2. Synchronising' /\ Accounted' /\ ~ broken'
    BY <1>1, <1>3 DEF GradientReset, ZeroGradients, Synchronising, Accounted
  <2>. QED
    BY <2>1, <2>2 DEF GradientInv
<1>. QED
  BY <1>2, <1>3

-------------------------------------------------------------------------------

\* The invariant holds in every state of the accumulation.
THEOREM GradientInvariance == GradientSpec => []GradientInv
<1>1. GradientInv /\ UNCHANGED gradVars => GradientInv'
  BY DEF GradientInv, gradVars, GradientTypeOK, Synchronising, Accounted, Deferred, NoSync, IsLast
<1>2. GradientInv /\ [GradientStep \/ OptimizerStep \/ GradientReset]_gradVars => GradientInv'
  BY <1>1, EnterKeeps, ForwardKeeps, BackwardKeeps, GradientResetKeeps DEF GradientStep
<1>. QED
  BY <1>2, GradientStarts, PTL DEF GradientSpec

\* The optimizer sees the gradients of every micro-batch, whichever modules the
\* micro-batches leave out, and backward never asks an unused module for a
\* parameter it does not have (verl_optimizations.py:18-48,65-84).
THEOREM NoGradientIsLost == GradientSpec => []GradientsAreReduced
<1>1. GradientInv => GradientsAreReduced
  BY DEF GradientInv, GradientsAreReduced, Accounted, AllReduced
<1>. QED
  BY <1>1, GradientInvariance, PTL

-------------------------------------------------------------------------------
(* CheckpointFiles under the saves of a job: the inductive invariant. *)

Stage == {"absent", "empty", "part", "full"}

\* What a save of step s leaves.
Expected(s) == IF s >= ExportFrom THEN Files ELSE Files \ {HFModel}

FilesTypeOK ==
  /\ files \in [1 .. TotalSteps -> [Files -> Stage]]
  /\ marker \in 0 .. Torn /\ saving \in 0 .. TotalSteps
  /\ pending \in [Writers -> Seq(Files \X Stage)]
  /\ kept \subseteq 1 .. TotalSteps

\* The writes q still close the file f.
Closes(q, f) == \E i \in 1 .. Len(q) : q[i] = <<f, "full">>

\* No file q opens stays open.
ClosesAll(q) ==
  \A i \in 1 .. Len(q) : q[i][2] = "full" \/ \E j \in (i + 1) .. Len(q) : q[j] = <<q[i][1], "full">>

\* The writes q are those of writer w for a step whose files are fs.
WritesOf(q, w, fs) == ClosesAll(q) /\ \A i \in 1 .. Len(q) : q[i][1] \in fs /\ q[i][1][1] = w

\* A save never touches the step of the marker, and ends with every file closed.
SaveUnderWay ==
  saving # 0 =>
    /\ saving # marker
    /\ \A w \in Writers : WritesOf(pending[w], w, Expected(saving))
    /\ \A f \in Expected(saving) : files[saving][f] = "full" \/ Closes(pending[f[1]], f)

\* Weights are exported by whole saves or not at all.
Unexported == \A s \in 1 .. TotalSteps : s < ExportFrom => files[s][HFModel] = "absent"

MarkedIsWhole == marker \in 1 .. TotalSteps => \A f \in Expected(marker) : files[marker][f] = "full"

\* Nothing this process saved is newer than the step of the marker or of the save.
KeptIsOlder == kept \subseteq 1 .. (IF saving # 0 THEN saving ELSE marker)

FilesInv == FilesTypeOK /\ SaveUnderWay /\ Unexported /\ MarkedIsWhole /\ KeptIsOlder

(* The job: which weights are where, phase by phase. *)

Phases == {"down", "startup", "refused", "failed", "sync", "gradients", "save", "done"}

Weights ==
  /\ phase \in Phases /\ version \in 0 .. TotalSteps
  /\ phase = "down" => version = 0 /\ ~ restored
  /\ phase = "startup" => marker <= TotalSteps /\ version = IF restored THEN marker ELSE 0
  /\ phase \in {"sync", "gradients"} => NewestDue(marker, version)
  /\ phase # "sync" => link = "idle"
  /\ phase = "sync" /\ link = "finalize" => served = version
  /\ phase = "gradients" => served = version /\ version < TotalSteps

Saves ==
  /\ marker \in 1 .. TotalSteps => SaveDue(marker)
  /\ phase # "save" => saving = 0
  /\ phase = "save" =>
       /\ version # 0 /\ SaveDue(version) /\ saving \in {0, version}
       /\ saving = 0 => marker = version \/ NewestDue(marker, version - 1)
       /\ saving # 0 => marker = Torn \/ NewestDue(marker, version - 1)

JobInv == FilesInv /\ Weights /\ Saves

-------------------------------------------------------------------------------

\* The first rank is one of the ranks.
LEMMA FirstRankIs == FirstRank \in Ranks /\ FirstRank # Trainer
BY FilesAssumption DEF FirstRank

\* The files there are.
LEMMA FilesAre ==
  /\ Data \in Files /\ FsdpConfig \in Files /\ HFModel \in Files /\ Shards \subseteq Files
  /\ HFModel # Data /\ HFModel # FsdpConfig /\ HFModel \notin Shards
  /\ \A f \in Files : f[1] \in Writers
BY FirstRankIs DEF Data, FsdpConfig, HFModel, Shards, Files, Kinds, Writers

\* The writes of a list of files open only these and close every one.
LEMMA WritesClose ==
  ASSUME NEW S, NEW fs \in Seq(S)
  PROVE  /\ Writes(fs) \in Seq(S \X Stage) /\ ClosesAll(Writes(fs))
         /\ \A i \in 1 .. Len(Writes(fs)) : \E k \in 1 .. Len(fs) : Writes(fs)[i][1] = fs[k]
         /\ \A k \in 1 .. Len(fs) : Closes(Writes(fs), fs[k])
<1>. DEFINE n == Len(fs)
<1>0. n \in Nat /\ \A k \in 1 .. n : fs[k] \in S
  OBVIOUS
<1>. HIDE DEF n
<1>1. ASSUME NEW i \in 1 .. (3 * n)
      PROVE  /\ (i + 2) \div 3 \in 1 .. n /\ ((i + 2) % 3) + 1 \in 1 .. 3
             /\ Writes(fs)[i] = <<fs[(i + 2) \div 3], Stages[((i + 2) % 3) + 1]>>
  BY <1>0 DEF Writes, n
<1>2. \A k \in 1 .. 3 : Stages[k] \in Stage /\ (k = 3 => Stages[k] = "full")
  BY DEF Stages, Stage
<1>3. Writes(fs) \in Seq(S \X Stage) /\ Len(Writes(fs)) = 3 * n
  <2>1. ASSUME NEW i \in 1 .. (3 * n) PROVE Writes(fs)[i] \in S \X Stage
    <3>. DEFINE a == (i + 2) \div 3
                b == ((i + 2) % 3) + 1
    <3>1. a \in 1 .. n /\ b \in 1 .. 3 /\ Writes(fs)[i] = <<fs[a], Stages[b]>>
      BY <1>1
    <3>. HIDE DEF a, b
    <3>2. fs[a] \in S /\ Stages[b] \in Stage
      BY <1>0, <1>2, <3>1
    <3>. QED
      BY <3>1, <3>2
  <2>2. 3 * n \in Nat /\ Writes(fs) = [i \in 1 .. (3 * n) |-> Writes(fs)[i]]
    BY <1>0 DEF Writes, n
  <2>. QED
    BY <2>1, <2>2
<1>4. ASSUME NEW k \in 1 .. n
      PROVE  3 * k \in 1 .. (3 * n) /\ Writes(fs)[3 * k] = <<fs[k], "full">>
  <2>1. 3 * k \in 1 .. (3 * n) /\ (3 * k + 2) \div 3 = k /\ ((3 * k + 2) % 3) + 1 = 3
    BY <1>0
  <2>. QED
    BY <1>1, <1>2, <2>1
<1>5. ASSUME NEW i \in 1 .. (3 * n)
      PROVE  Writes(fs)[i][2] = "full"
             \/ \E j \in (i + 1) .. (3 * n) : Writes(fs)[j] = <<Writes(fs)[i][1], "full">>
  <2>. DEFINE k == (i + 2) \div 3
  <2>1. k \in 1 .. n /\ Writes(fs)[i] = <<fs[k], Stages[((i + 2) % 3) + 1]>>
    BY <1>1
  <2>4. i \in Nat /\ i + 2 \in Nat /\ (i + 2) \div 3 \in Nat
    BY <1>0, <2>1
  <2>5. 3 * k <= i + 2 /\ i + 2 < 3 * k + 3
    BY <2>4
  <2>2. i = 3 * k \/ 3 * k \in (i + 1) .. (3 * n)
    <3>. HIDE DEF k
    <3>. QED
      BY <1>0, <2>1, <2>4, <2>5
  <2>3. Writes(fs)[3 * k] = <<fs[k], "full">> /\ Writes(fs)[i][1] = fs[k]
    BY <1>4, <2>1
  <2>. HIDE DEF k
  <2>. QED
    BY <2>2, <2>3
<1>6. ClosesAll(Writes(fs))
  BY <1>3, <1>5 DEF ClosesAll
<1>7. ASSUME NEW i \in 1 .. Len(Writes(fs)) PROVE \E k \in 1 .. n : Writes(fs)[i][1] = fs[k]
  <2>. DEFINE k == (i + 2) \div 3
              b == ((i + 2) % 3) + 1
  <2>1. k \in 1 .. n /\ Writes(fs)[i] = <<fs[k], Stages[b]>>
    BY <1>1, <1>3
  <2>. HIDE DEF k, b
  <2>. QED
    BY <2>1
<1>8. ASSUME NEW k \in 1 .. n PROVE Closes(Writes(fs), fs[k])
  BY <1>3, <1>4 DEF Closes
<1>. QED
  BY <1>3, <1>6, <1>7, <1>8 DEF n

\* A rank writes its own files, all a save of that kind asks of it.
LEMMA RankWritesItsFiles ==
  ASSUME NEW r \in Ranks, NEW hf \in BOOLEAN
  PROVE  /\ RankFiles(r, hf) \in Seq(Files)
         /\ \A k \in 1 .. Len(RankFiles(r, hf)) :
              RankFiles(r, hf)[k][1] = r /\ (hf \/ RankFiles(r, hf)[k] # HFModel)
         /\ \A f \in Files : f[1] = r /\ (hf \/ f # HFModel) =>
              \E k \in 1 .. Len(RankFiles(r, hf)) : RankFiles(r, hf)[k] = f
<1>. DEFINE own == [i \in 1 .. 3 |-> <<r, Kinds[i]>>]
            more == IF r = FirstRank THEN <<FsdpConfig>> \o (IF hf THEN <<HFModel>> ELSE <<>>) ELSE <<>>
<1>1. own \in Seq(Files) /\ Len(own) = 3 /\ \A i \in 1 .. 3 : own[i] = <<r, Kinds[i]>>
  BY DEF Files, Shards
<1>2. /\ more \in Seq(Files) /\ Len(more) = IF r = FirstRank THEN IF hf THEN 2 ELSE 1 ELSE 0
      /\ r = FirstRank => more[1] = FsdpConfig /\ (hf => more[2] = HFModel)
  BY FilesAre
<1>3. RankFiles(r, hf) = own \o more
  BY DEF RankFiles
<1>. HIDE DEF own, more
<1>7. /\ own \in Seq(Files) /\ more \in Seq(Files) /\ Len(own) = 3 /\ Len(more) \in Nat
  BY <1>1, <1>2
<1>8. /\ own \o more \in Seq(Files) /\ Len(own \o more) = 3 + Len(more)
      /\ \A k \in 1 .. (3 + Len(more)) : (own \o more)[k] = IF k <= 3 THEN own[k] ELSE more[k - 3]
  <2>1. own \in Seq(Files) /\ more \in Seq(Files)
    BY <1>7
  <2>2. own \o more \in Seq(Files) /\ Len(own \o more) = Len(own) + Len(more)
    BY <2>1, ConcatProperties
  <2>3. \A k \in 1 .. Len(own) + Len(more) :
          (own \o more)[k] = IF k <= Len(own) THEN own[k] ELSE more[k - Len(own)]
    BY <2>1, ConcatProperties
  <2>. QED
    BY <1>7, <2>2, <2>3
<1>4. /\ own \o more \in Seq(Files) /\ Len(own \o more) = 3 + Len(more)
      /\ \A k \in 1 .. 3 : (own \o more)[k] = own[k]
      /\ \A k \in 4 .. (3 + Len(more)) : (own \o more)[k] = more[k - 3]
  BY <1>7, <1>8
<1>5. ASSUME NEW k \in 1 .. Len(own \o more)
      PROVE  (own \o more)[k][1] = r /\ (hf \/ (own \o more)[k] # HFModel)
  <2>1. CASE k \in 1 .. 3
    BY <1>1, <1>4, <2>1 DEF HFModel, Kinds
  <2>2. CASE k = 4
    <3>1. r = FirstRank /\ (own \o more)[k] = FsdpConfig
      BY <1>2, <1>4, <2>2
    <3>. QED
      BY <3>1, FilesAre DEF FsdpConfig
  <2>3. CASE k = 5
    <3>1. r = FirstRank /\ hf /\ (own \o more)[k] = HFModel
      BY <1>2, <1>4, <2>3
    <3>. QED
      BY <3>1 DEF HFModel
  <2>. QED
    BY <1>2, <1>4, <2>1, <2>2, <2>3
<1>6. ASSUME NEW f \in Files, f[1] = r, hf \/ f # HFModel
      PROVE  \E k \in 1 .. Len(own \o more) : (own \o more)[k] = f
  <2>1. CASE f \in Shards
    <3>1. PICK i \in 1 .. 3 : f = <<r, Kinds[i]>>
      BY <1>6, <2>1 DEF Shards
    <3>. QED
      BY <1>1, <1>2, <1>4, <3>1
  <2>2. CASE f = FsdpConfig
    <3>1. r = FirstRank
      BY <1>6, <2>2 DEF FsdpConfig
    <3>2. 4 \in 1 .. Len(own \o more) /\ (own \o more)[4] = f
      BY <1>2, <1>4, <2>2, <3>1
    <3>. QED
      BY <3>2
  <2>3. CASE f = HFModel
    <3>1. r = FirstRank /\ hf
      BY <1>6, <2>3 DEF HFModel
    <3>2. 5 \in 1 .. Len(own \o more) /\ (own \o more)[5] = f
      BY <1>2, <1>4, <2>3, <3>1
    <3>. QED
      BY <3>2
  <2>4. f # Data
    BY <1>6, FilesAssumption DEF Data
  <2>. QED
    BY <1>6, <2>1, <2>2, <2>3, <2>4 DEF Files
<1>. QED
  BY <1>3, <1>4, <1>5, <1>6

\* What is left after the first of some writes.
LEMMA RestOfWrites ==
  ASSUME NEW S, NEW q \in Seq(S), q # <<>>, NEW w, NEW fs, WritesOf(q, w, fs)
  PROVE  /\ WritesOf(Tail(q), w, fs)
         /\ \A f : Closes(q, f) => Closes(Tail(q), f) \/ Head(q) = <<f, "full">>
         /\ Head(q)[1] \in fs /\ Head(q)[1][1] = w
         /\ Head(q)[2] = "full" \/ Closes(Tail(q), Head(q)[1])
<1>1. /\ Len(q) \in Nat \ {0} /\ Head(q) = q[1] /\ Len(Tail(q)) = Len(q) - 1
      /\ \A i \in 1 .. (Len(q) - 1) : Tail(q)[i] = q[i + 1]
  OBVIOUS
<1>. DEFINE t == Tail(q)
            n == Len(q)
<1>. HIDE DEF t, n
<1>2. \A j \in 2 .. n : j - 1 \in 1 .. (n - 1) /\ t[j - 1] = q[j]
  BY <1>1 DEF t, n
<1>3. ASSUME NEW i \in 1 .. (n - 1)
      PROVE  /\ t[i][1] \in fs /\ t[i][1][1] = w
             /\ t[i][2] = "full" \/ \E j \in (i + 1) .. (n - 1) : t[j] = <<t[i][1], "full">>
  <2>1. t[i] = q[i + 1] /\ i + 1 \in 1 .. n
    BY <1>1 DEF t, n
  <2>2. CASE q[i + 1][2] = "full"
    BY <2>1, <2>2 DEF WritesOf, n
  <2>3. CASE q[i + 1][2] # "full"
    <3>3. \E j \in ((i + 1) + 1) .. n : q[j] = <<q[i + 1][1], "full">>
      BY <2>1, <2>3 DEF WritesOf, ClosesAll, n
    <3>1. PICK j \in (i + 2) .. n : q[j] = <<q[i + 1][1], "full">>
      BY <3>3
    <3>2. t[j - 1] = q[j] /\ j - 1 \in (i + 1) .. (n - 1)
      BY <1>1, <1>2, <3>1 DEF n
    <3>. QED
      BY <2>1, <3>1, <3>2 DEF WritesOf, n
  <2>. QED
    BY <2>2, <2>3
<1>4. WritesOf(t, w, fs)
  BY <1>1, <1>3 DEF WritesOf, ClosesAll, t, n
<1>5. ASSUME NEW f, Closes(q, f) PROVE Closes(t, f) \/ Head(q) = <<f, "full">>
  <2>1. PICK j \in 1 .. n : q[j] = <<f, "full">>
    BY <1>5 DEF Closes, n
  <2>2. j = 1 \/ (j - 1 \in 1 .. (n - 1) /\ t[j - 1] = q[j])
    BY <1>1, <1>2 DEF n
  <2>. QED
    BY <1>1, <2>1, <2>2 DEF Closes, t, n
<1>6. Head(q)[1] \in fs /\ Head(q)[1][1] = w
  BY <1>1 DEF WritesOf
<1>7. ASSUME Head(q)[2] # "full" PROVE Closes(t, Head(q)[1])
  <2>3. 1 \in 1 .. n /\ q[1][2] # "full"
    BY <1>1, <1>7 DEF n
  <2>4. \E j \in (1 + 1) .. n : q[j] = <<q[1][1], "full">>
    BY <2>3 DEF WritesOf, ClosesAll, n
  <2>1. PICK j \in 2 .. n : q[j] = <<q[1][1], "full">>
    BY <2>4
  <2>2. t[j - 1] = <<Head(q)[1], "full">> /\ j - 1 \in 1 .. (n - 1)
    BY <1>1, <1>2, <2>1
  <2>. QED
    BY <1>1, <2>2 DEF Closes, t, n
<1>. QED
  BY <1>4, <1>5, <1>6, <1>7 DEF t

-------------------------------------------------------------------------------

\* An empty directory and no writer.
LEMMA FilesStart == FilesInit => FilesInv
<1>. SUFFICES ASSUME FilesInit PROVE FilesInv
  OBVIOUS
<1>1. FilesTypeOK
  BY FilesAssumption DEF FilesInit, FilesTypeOK, Nothing, Torn, Stage
<1>2. SaveUnderWay /\ Unexported /\ MarkedIsWhole /\ KeptIsOlder
  BY FilesAre, FilesAssumption DEF FilesInit, SaveUnderWay, Unexported, Nothing, MarkedIsWhole, KeptIsOlder
<1>. QED
  BY <1>1, <1>2 DEF FilesInv

\* A dead writer leaves the directory as it is.
LEMMA DyingKeeps == FilesInv /\ WriterDies => FilesInv'
<1>. SUFFICES ASSUME FilesInv, WriterDies PROVE FilesInv'
  OBVIOUS
<1>1. FilesTypeOK'
  BY FilesAssumption DEF FilesInv, WriterDies, FilesTypeOK
<1>2. SaveUnderWay' /\ Unexported' /\ MarkedIsWhole' /\ KeptIsOlder'
  BY DEF FilesInv, WriterDies, SaveUnderWay, Unexported, MarkedIsWhole, KeptIsOlder
<1>. QED
  BY <1>1, <1>2 DEF FilesInv

\* A save of a step newer than the marker's removes old checkpoints, but not
\* the one the marker names, and sets out to write every file
\* (run_r2e_opd_smoke.sh:435).
LEMMA BeginSaveKeeps ==
  ASSUME NEW step \in 1 .. TotalSteps, FilesInv, saving = 0, marker < step,
         BeginSave(step, step >= ExportFrom)
  PROVE  FilesInv'
<1>. DEFINE hf == step >= ExportFrom
<1>0. /\ TotalSteps \in Nat \ {0} /\ ExportFrom \in Nat /\ marker \in 0 .. (TotalSteps - 1)
      /\ hf \in BOOLEAN /\ step \in Nat /\ FilesTypeOK
  BY FilesAssumption, JobAssumption DEF FilesInv, FilesTypeOK, Torn
<1>1. /\ saving' = step /\ kept' = Surviving \cup {step} /\ marker' = marker
      /\ files' = [s \in 1 .. TotalSteps |-> IF s \in kept \ Surviving THEN Nothing ELSE files[s]]
      /\ pending' = [w \in Writers |-> IF w = Trainer THEN Writes(<<Data>>) ELSE Writes(RankFiles(w, hf))]
  BY DEF BeginSave
<1>2. Expected(step) = {f \in Files : hf \/ f # HFModel}
  BY <1>0 DEF Expected
<1>. HIDE DEF hf
<1>3. ASSUME NEW w \in Writers
      PROVE  /\ pending'[w] \in Seq(Files \X Stage) /\ WritesOf(pending'[w], w, Expected(step))
             /\ \A f \in Expected(step) : f[1] = w => Closes(pending'[w], f)
  <2>1. CASE w = Trainer
    <3>1. pending'[w] = Writes(<<Data>>) /\ <<Data>> \in Seq(Files) /\ Len(<<Data>>) = 1
      BY <1>1, <2>1, FilesAre
    <3>2. Data \in Expected(step) /\ Data[1] = w
      BY <1>2, <2>1, FilesAre DEF Data
    <3>3. \A f \in Expected(step) : f[1] = w => f = Data
      BY <1>2, <2>1, FilesAssumption, FirstRankIs DEF Files, Shards, FsdpConfig, HFModel, Data
    <3>4. \A k \in 1 .. 1 : <<Data>>[k] = Data
      OBVIOUS
    <3>5. /\ Writes(<<Data>>) \in Seq(Files \X Stage) /\ ClosesAll(Writes(<<Data>>))
          /\ \A i \in 1 .. Len(Writes(<<Data>>)) : Writes(<<Data>>)[i][1] = Data
          /\ Closes(Writes(<<Data>>), Data)
      <4>1. 1 \in 1 .. Len(<<Data>>) /\ <<Data>>[1] = Data
        OBVIOUS
      <4>2. Closes(Writes(<<Data>>), <<Data>>[1])
        BY <3>1, <4>1, WritesClose
      <4>3. \A i \in 1 .. Len(Writes(<<Data>>)) : \E k \in 1 .. 1 : Writes(<<Data>>)[i][1] = <<Data>>[k]
        BY <3>1, WritesClose
      <4>4. \A i \in 1 .. Len(Writes(<<Data>>)) : Writes(<<Data>>)[i][1] = Data
        BY <3>4, <4>3
      <4>. QED
        BY <3>1, <4>1, <4>2, <4>4, WritesClose
    <3>. QED
      BY <3>1, <3>2, <3>3, <3>5 DEF WritesOf
  <2>2. CASE w # Trainer
    <3>0. w \in Ranks
      BY <2>2 DEF Writers
    <3>. DEFINE own == RankFiles(w, hf)
    <3>1. pending'[w] = Writes(own)
      BY <1>1, <2>2
    <3>2. /\ own \in Seq(Files)
          /\ \A k \in 1 .. Len(own) : own[k] \in Expected(step) /\ own[k][1] = w
          /\ \A f \in Expected(step) : f[1] = w => \E k \in 1 .. Len(own) : own[k] = f
      BY <1>0, <1>2, <3>0, RankWritesItsFiles
    <3>. HIDE DEF own
    <3>3. /\ Writes(own) \in Seq(Files \X Stage) /\ ClosesAll(Writes(own))
          /\ \A i \in 1 .. Len(Writes(own)) : \E k \in 1 .. Len(own) : Writes(own)[i][1] = own[k]
          /\ \A k \in 1 .. Len(own) : Closes(Writes(own), own[k])
      BY <3>2, WritesClose
    <3>4. WritesOf(Writes(own), w, Expected(step))
      BY <3>2, <3>3 DEF WritesOf
    <3>5. ASSUME NEW f \in Expected(step), f[1] = w PROVE Closes(Writes(own), f)
      BY <3>2, <3>3, <3>5
    <3>. QED
      BY <3>1, <3>3, <3>4, <3>5
  <2>. QED
    BY <2>1, <2>2
<1>4. Surviving \subseteq kept /\ (marker \in kept => marker \in Surviving)
  <2>1. kept \subseteq 1 .. marker
    BY DEF FilesInv, KeptIsOlder
  <2>4. \A t \in kept : ~ (t > marker)
    BY <1>0, <2>1
  <2>2. {t \in kept : t > marker} = {}
    BY <2>4
  <2>3. Cardinality({t \in kept : t > marker}) = 0
    BY <2>2, FS_EmptySet
  <2>. QED
    BY <2>3, FilesAssumption DEF Surviving
<1>5. FilesTypeOK'
  <2>1. Nothing \in [Files -> Stage]
    BY DEF Nothing, Stage
  <2>2. files' \in [1 .. TotalSteps -> [Files -> Stage]]
    BY <1>0, <1>1, <2>1 DEF FilesTypeOK
  <2>3. pending' \in [Writers -> Seq(Files \X Stage)]
    BY <1>1, <1>3
  <2>. QED
    BY <1>0, <1>1, <1>4, <2>2, <2>3 DEF FilesTypeOK
<1>6. SaveUnderWay'
  <2>1. saving' # marker'
    BY <1>0, <1>1
  <2>2. \A f \in Expected(step) : Closes(pending'[f[1]], f)
    BY <1>2, <1>3, FilesAre
  <2>3. \A w \in Writers : WritesOf(pending'[w], w, Expected(step))
    BY <1>3
  <2>. QED
    BY <1>1, <2>1, <2>2, <2>3 DEF SaveUnderWay
<1>7. Unexported'
  <2>1. ASSUME NEW s \in 1 .. TotalSteps, s < ExportFrom PROVE files'[s][HFModel] = "absent"
    BY <1>1, <2>1, FilesAre DEF FilesInv, Unexported, Nothing
  <2>. QED
    BY <2>1 DEF Unexported
<1>8. MarkedIsWhole'
  <2>1. marker' = marker /\ (marker \in 1 .. TotalSteps => files'[marker] = files[marker])
    BY <1>1, <1>4
  <2>. QED
    BY <2>1 DEF FilesInv, MarkedIsWhole
<1>9. KeptIsOlder'
  BY <1>0, <1>1, <1>4 DEF FilesInv, KeptIsOlder
<1>. QED
  BY <1>5, <1>6, <1>7, <1>8, <1>9 DEF FilesInv

\* One write moves its file on, and the file is closed now or later.
LEMMA WriteKeeps == ASSUME NEW w \in Writers, FilesInv, Write(w) PROVE FilesInv'
<1>. DEFINE q == pending[w]
            g == Head(q)[1]
            c == Head(q)[2]
<1>0. /\ saving # 0 /\ q # <<>> /\ saving \in 1 .. TotalSteps /\ FilesTypeOK
      /\ UNCHANGED <<marker, saving, kept>>
      /\ files' = [files EXCEPT ![saving][g] = c] /\ pending' = [pending EXCEPT ![w] = Tail(q)]
  BY FilesAssumption DEF Write, FilesInv, FilesTypeOK
<1>1. q \in Seq(Files \X Stage) /\ WritesOf(q, w, Expected(saving)) /\ saving # marker
  BY <1>0 DEF FilesInv, FilesTypeOK, SaveUnderWay
<1>2. g \in Files /\ c \in Stage /\ Tail(q) \in Seq(Files \X Stage)
  BY <1>0, <1>1
<1>3. /\ WritesOf(Tail(q), w, Expected(saving))
      /\ \A f : Closes(q, f) => Closes(Tail(q), f) \/ Head(q) = <<f, "full">>
      /\ g \in Expected(saving) /\ g[1] = w
      /\ c = "full" \/ Closes(Tail(q), g)
  BY <1>0, <1>1, RestOfWrites
<1>4. /\ \A s \in 1 .. TotalSteps : s # saving => files'[s] = files[s]
      /\ \A f \in Files : files'[saving][f] = IF f = g THEN c ELSE files[saving][f]
      /\ \A v \in Writers : pending'[v] = IF v = w THEN Tail(q) ELSE pending[v]
  BY <1>0 DEF FilesTypeOK
<1>. HIDE DEF q
<1>5. FilesTypeOK'
  <2>1. files' \in [1 .. TotalSteps -> [Files -> Stage]]
    BY <1>0, <1>2 DEF FilesTypeOK
  <2>2. pending' \in [Writers -> Seq(Files \X Stage)]
    BY <1>0, <1>2 DEF FilesTypeOK
  <2>. QED
    BY <1>0, <2>1, <2>2 DEF FilesTypeOK
<1>6. SaveUnderWay'
  <2>1. ASSUME NEW f \in Expected(saving)
        PROVE  files'[saving][f] = "full" \/ Closes(pending'[f[1]], f)
    <3>0. f \in Files /\ f[1] \in Writers
      BY FilesAre DEF Expected
    <3>1. files[saving][f] = "full" \/ Closes(pending[f[1]], f)
      BY <1>0 DEF FilesInv, SaveUnderWay
    <3>2. CASE f = g
      BY <1>3, <1>4, <3>0, <3>2
    <3>3. CASE f # g
      <4>1. files'[saving][f] = files[saving][f] /\ Head(q) # <<f, "full">>
        BY <1>4, <3>0, <3>3
      <4>2. Closes(pending[f[1]], f) => Closes(pending'[f[1]], f)
        BY <1>3, <1>4, <3>0, <4>1 DEF q
      <4>. QED
        BY <3>1, <4>1, <4>2
    <3>. QED
      BY <3>2, <3>3
  <2>2. \A v \in Writers : WritesOf(pending'[v], v, Expected(saving))
    BY <1>0, <1>3, <1>4 DEF FilesInv, SaveUnderWay
  <2>. QED
    BY <1>0, <1>1, <2>1, <2>2 DEF SaveUnderWay
<1>7. Unexported'
  <2>1. ASSUME NEW s \in 1 .. TotalSteps, s < ExportFrom PROVE files'[s][HFModel] = "absent"
    <3>1. files[s][HFModel] = "absent"
      BY <2>1 DEF FilesInv, Unexported
    <3>2. s = saving => g # HFModel
      BY <1>3, <2>1, JobAssumption DEF Expected
    <3>. QED
      BY <1>4, <3>1, <3>2, FilesAre
  <2>. QED
    BY <2>1 DEF Unexported
<1>8. MarkedIsWhole'
  BY <1>0, <1>1, <1>4 DEF FilesInv, MarkedIsWhole
<1>9. KeptIsOlder'
  BY <1>0 DEF FilesInv, KeptIsOlder
<1>. QED
  BY <1>5, <1>6, <1>7, <1>8, <1>9 DEF FilesInv

\* The marker names a step when every file of it is closed.
LEMMA MarkKeeps == FilesInv /\ Mark => FilesInv'
<1>. SUFFICES ASSUME FilesInv, Mark PROVE FilesInv'
  OBVIOUS
<1>0. /\ FilesTypeOK /\ TotalSteps \in Nat \ {0} /\ saving \in 1 .. TotalSteps
      /\ \A w \in Writers : pending[w] = <<>>
      /\ UNCHANGED <<files, pending, kept>>
      /\ \/ marker' = Torn /\ saving' = saving
         \/ marker' = saving /\ saving' = 0
  BY FilesAssumption DEF Mark, FilesInv, FilesTypeOK
<1>1. \A f \in Expected(saving) : files[saving][f] = "full"
  <2>1. ASSUME NEW f \in Expected(saving) PROVE ~ Closes(pending[f[1]], f)
    <3>1. pending[f[1]] = <<>>
      BY <1>0, FilesAre DEF Expected
    <3>. QED
      BY <3>1 DEF Closes
  <2>. QED
    BY <1>0, <2>1 DEF FilesInv, SaveUnderWay
<1>2. FilesTypeOK'
  BY <1>0 DEF FilesTypeOK, Torn
<1>3. SaveUnderWay'
  BY <1>0 DEF FilesInv, SaveUnderWay, Torn
<1>4. Unexported' /\ MarkedIsWhole' /\ KeptIsOlder'
  BY <1>0, <1>1 DEF FilesInv, Unexported, MarkedIsWhole, KeptIsOlder, Torn
<1>. QED
  BY <1>2, <1>3, <1>4 DEF FilesInv

\* Nothing happens to the directory.
LEMMA FilesRest == FilesInv /\ UNCHANGED fileVars => FilesInv'
BY DEF fileVars, FilesInv, FilesTypeOK, SaveUnderWay, Unexported, MarkedIsWhole, KeptIsOlder

\* The validator, which looks at sizes, accepts only whole checkpoints, and
\* accepts the one of a whole marker (checkpoints.py:29-39,57-73).
LEMMA WholeIsAccepted == FilesInv => AcceptedIsWhole
<1>. SUFFICES ASSUME FilesInv PROVE AcceptedIsWhole
  OBVIOUS
<1>1. ASSUME NEW hf \in BOOLEAN, Validated(hf)
      PROVE  /\ LatestCheckpoint = marker /\ marker \in 1 .. TotalSteps
             /\ \A f \in Files \ {HFModel} : files[LatestCheckpoint][f] = "full"
  <2>1. LatestCheckpoint = marker /\ marker \in 1 .. TotalSteps
    BY <1>1 DEF Validated, LatestCheckpoint
  <2>. QED
    BY <2>1 DEF FilesInv, MarkedIsWhole, Expected
<1>2. ASSUME Validated(TRUE) PROVE files[LatestCheckpoint][HFModel] = "full"
  <2>1. LatestCheckpoint = marker /\ marker \in 1 .. TotalSteps
    BY <1>1, <1>2
  <2>2. files[marker][HFModel] # "absent"
    BY <1>2, <2>1 DEF Validated
  <2>3. marker >= ExportFrom
    BY <2>1, <2>2, FilesAssumption, JobAssumption DEF FilesInv, Unexported
  <2>. QED
    BY <2>1, <2>3, FilesAre DEF FilesInv, MarkedIsWhole, Expected
<1>3. ASSUME marker \in 1 .. TotalSteps PROVE Validated(FALSE)
  <2>1. \A f \in Files \ {HFModel} : files[marker][f] = "full"
    BY <1>3 DEF FilesInv, MarkedIsWhole, Expected
  <2>2. files[marker] # Nothing
    BY <2>1, FilesAre DEF Nothing
  <2>3. LatestCheckpoint = marker /\ marker # 0
    BY <1>3, <2>2 DEF LatestCheckpoint
  <2>. QED
    BY <2>1, <2>3, FilesAre DEF Validated
<1>. QED
  BY <1>1, <1>2, <1>3 DEF AcceptedIsWhole

-------------------------------------------------------------------------------
(* The job: every step is a step of each part, and the phases keep the parts  *)
(* in order.                                                                  *)

\* A job begins with an empty directory, down.
LEMMA JobStarts == Init => JobInv
<1>. SUFFICES ASSUME Init PROVE JobInv
  OBVIOUS
<1>1. FilesInv
  BY FilesStart DEF Init
<1>2. Weights
  BY FilesAssumption DEF Init, FilesInit, StartupInit, LinkInit, Weights, Phases
<1>3. Saves
  BY DEF Init, FilesInit, Saves
<1>. QED
  BY <1>1, <1>2, <1>3 DEF JobInv

\* Only a checkpoint the validator accepts, or none, starts a run, and the actor
\* leaves start-up with its weights (parallel_startup.py:22-29,110-121).
LEMMA LaunchKeeps == JobInv /\ StartupInv /\ (Launch \/ Startup \/ StartupEnds) => JobInv'
<1>. SUFFICES ASSUME JobInv, StartupInv, Launch \/ Startup \/ StartupEnds PROVE JobInv'
  OBVIOUS
<1>1. FilesInv' /\ UNCHANGED <<fileVars, linkVars>>
  BY FilesRest DEF JobInv, Launch, Startup, StartupEnds
<1>2. marker \in 0 .. Torn /\ TotalSteps \in Nat \ {0} /\ Torn = TotalSteps + 1
  BY FilesAssumption DEF JobInv, FilesInv, FilesTypeOK, Torn
<1>3. CASE Launch
  <2>1. marker = 0 \/ Validated(FALSE) => marker <= TotalSteps
    BY <1>2 DEF Validated, LatestCheckpoint
  <2>4. /\ phase = "down" /\ version' = version /\ UNCHANGED startupVars
        /\ phase' = IF marker = 0 \/ Validated(FALSE) THEN "startup" ELSE "refused"
    BY <1>3 DEF Launch
  <2>5. phase' \in {"startup", "refused"} /\ (phase' = "startup" => marker <= TotalSteps)
    BY <2>1, <2>4, Zenon
  <2>2. Weights'
    BY <1>1, <1>2, <2>4, <2>5 DEF JobInv, Weights, Phases, fileVars, linkVars, startupVars
  <2>3. Saves'
    BY <1>1, <1>3 DEF Launch, JobInv, Saves, fileVars
  <2>. QED
    BY <1>1, <2>2, <2>3 DEF JobInv
<1>4. CASE Startup
  <2>1. phase = "startup" /\ phase' = phase /\ version' = IF restored' THEN marker ELSE 0
    BY <1>4 DEF Startup
  <2>2. Weights'
    BY <1>1, <1>2, <2>1 DEF JobInv, Weights, Phases, fileVars, linkVars
  <2>3. Saves'
    BY <1>1, <2>1 DEF JobInv, Saves, fileVars
  <2>. QED
    BY <1>1, <2>2, <2>3 DEF JobInv
<1>5. CASE StartupEnds
  <2>1. /\ phase = "startup" /\ phase' = (IF main = "ready" THEN "sync" ELSE "failed")
        /\ UNCHANGED <<startupVars, version>>
    BY <1>5 DEF StartupEnds
  <2>2. main = "ready" => restored
    BY DEF StartupInv, Services, After
  <2>5. marker <= TotalSteps /\ version = IF restored THEN marker ELSE 0
    BY <2>1 DEF JobInv, Weights
  <2>6. main = "ready" => NewestDue(marker, version)
    BY <1>2, <2>2, <2>5 DEF JobInv, Saves, NewestDue
  <2>3. Weights'
    BY <1>1, <1>2, <2>1, <2>2, <2>6 DEF JobInv, Weights, Phases, fileVars, linkVars, startupVars, NewestDue
  <2>4. Saves'
    BY <1>1, <2>1 DEF JobInv, Saves, fileVars
  <2>. QED
    BY <1>1, <2>3, <2>4 DEF JobInv
<1>. QED
  BY <1>3, <1>4, <1>5

\* A synchronisation that ends has served the version it began with
\* (verl_optimizations.py:183-246).
LEMMA SynchroniseKeeps == JobInv /\ (Synchronise \/ Synchronised) => JobInv'
<1>. SUFFICES ASSUME JobInv, Synchronise \/ Synchronised PROVE JobInv'
  OBVIOUS
<1>1. FilesInv' /\ UNCHANGED <<fileVars, startupVars, version>> /\ phase = "sync"
  BY FilesRest DEF JobInv, Synchronise, Synchronised
<1>2. version \in 0 .. TotalSteps /\ TotalSteps \in Nat \ {0}
  BY FilesAssumption DEF JobInv, Weights
<1>3. CASE Synchronise
  <2>1. phase' = phase
    BY <1>3 DEF Synchronise
  <2>2. link' = "finalize" => served' = version
    BY <1>1, <1>3 DEF Synchronise, BeginTransfer, Connect, Transfer, Prepare, Finalize, JobInv, Weights
  <2>3. Weights'
    BY <1>1, <1>2, <2>1, <2>2 DEF JobInv, Weights, Phases, fileVars, startupVars
  <2>4. Saves'
    BY <1>1, <2>1 DEF JobInv, Saves, fileVars
  <2>. QED
    BY <1>1, <2>3, <2>4 DEF JobInv
<1>4. CASE Synchronised
  <2>1. /\ link = "finalize" /\ link' = "idle" /\ served' = served
        /\ phase' = IF version = TotalSteps THEN "done" ELSE "gradients"
    BY <1>4 DEF Synchronised, EndTransfer
  <2>2. Weights'
    BY <1>1, <1>2, <2>1 DEF JobInv, Weights, Phases, fileVars, startupVars
  <2>3. Saves'
    BY <1>1, <2>1 DEF JobInv, Saves, fileVars
  <2>. QED
    BY <1>1, <2>2, <2>3 DEF JobInv
<1>. QED
  BY <1>3, <1>4

\* The optimizer's step is saved if it is due; if not, the marker stays the
\* newest there should be (async_prefetch.py:32-43).
LEMMA UpdateKeeps == JobInv /\ UpdateActor => JobInv'
<1>. SUFFICES ASSUME JobInv, UpdateActor PROVE JobInv'
  OBVIOUS
<1>1. FilesInv' /\ UNCHANGED <<fileVars, startupVars, linkVars>> /\ phase = "gradients"
  BY FilesRest DEF JobInv, UpdateActor
<1>2. version \in 0 .. TotalSteps /\ TotalSteps \in Nat \ {0} /\ version < TotalSteps
      /\ NewestDue(marker, version) /\ saving = 0 /\ version = (version + 1) - 1
  BY <1>1, FilesAssumption DEF JobInv, Weights, Saves
<1>3. \/ phase' = phase /\ version' = version
      \/ phase' = "save" /\ version' = version + 1 /\ SaveDue(version + 1)
      \/ phase' = "sync" /\ version' = version + 1 /\ ~ SaveDue(version + 1)
  BY DEF UpdateActor, AfterStep
<1>6. ~ SaveDue(version + 1) => NewestDue(marker, version + 1)
  BY <1>2 DEF NewestDue
<1>7. marker' = marker /\ saving' = saving /\ link' = link /\ served' = served /\ restored' = restored
  BY <1>1 DEF fileVars, linkVars, startupVars
<1>4. Weights'
  BY <1>1, <1>2, <1>3, <1>6, <1>7 DEF JobInv, Weights, Phases
<1>5. Saves'
  BY <1>1, <1>2, <1>3, <1>7 DEF JobInv, Saves
<1>. QED
  BY <1>1, <1>4, <1>5 DEF JobInv

\* The save of a step ends with the marker naming it.
LEMMA SaveKeeps == JobInv /\ (StartSave \/ WriteFiles \/ Saved) => JobInv'
<1>. SUFFICES ASSUME JobInv, StartSave \/ WriteFiles \/ Saved PROVE JobInv'
  OBVIOUS
<1>1. /\ phase = "save" /\ version' = version /\ version \in 1 .. TotalSteps /\ TotalSteps \in Nat \ {0}
      /\ UNCHANGED <<startupVars, linkVars>> /\ link = "idle" /\ Torn = TotalSteps + 1
      /\ marker \in 0 .. Torn
      /\ FilesInv /\ Weights /\ Saves
  BY FilesAssumption
     DEF StartSave, WriteFiles, Saved, JobInv, Weights, Saves, Torn, FilesInv, FilesTypeOK
<1>2. CASE StartSave
  <2>1. /\ phase' = phase /\ saving = 0 /\ marker # version /\ saving' = version /\ marker' = marker
        /\ BeginSave(version, version >= ExportFrom) /\ NewestDue(marker, version - 1)
    BY <1>1, <1>2 DEF StartSave, BeginSave, Saves
  <2>5. marker < version
    BY <1>1, <2>1 DEF NewestDue
  <2>2. FilesInv'
    BY <1>1, <2>1, <2>5, BeginSaveKeeps
  <2>3. Weights'
    BY <1>1, <2>1 DEF Weights, Phases, startupVars, linkVars
  <2>4. Saves'
    BY <1>1, <2>1 DEF Saves
  <2>. QED
    BY <2>2, <2>3, <2>4 DEF JobInv
<1>3. CASE WriteFiles
  <2>1. phase' = phase
    BY <1>3 DEF WriteFiles
  <2>2. CASE Mark
    <3>1. FilesInv'
      BY <1>1, <2>2, MarkKeeps
    <3>2. /\ saving = version
          /\ \/ marker' = Torn /\ saving' = saving
             \/ marker' = version /\ saving' = 0
      BY <1>1, <2>2 DEF Mark, Saves
    <3>3. Weights'
      BY <1>1, <2>1 DEF Weights, Phases, startupVars, linkVars
    <3>4. Saves'
      BY <1>1, <2>1, <3>2 DEF Saves, Torn
    <3>. QED
      BY <3>1, <3>3, <3>4 DEF JobInv
  <2>3. CASE \E w \in Writers : Write(w)
    <3>1. FilesInv'
      BY <1>1, <2>3, WriteKeeps
    <3>2. UNCHANGED <<marker, saving>>
      BY <2>3 DEF Write
    <3>3. Weights'
      BY <1>1, <2>1 DEF Weights, Phases, startupVars, linkVars
    <3>4. Saves'
      BY <1>1, <2>1, <3>2 DEF Saves, Torn
    <3>. QED
      BY <3>1, <3>3, <3>4 DEF JobInv
  <2>. QED
    BY <1>3, <2>2, <2>3 DEF WriteFiles
<1>4. CASE Saved
  <2>1. phase' = "sync" /\ marker = version /\ UNCHANGED fileVars
    BY <1>4 DEF Saved
  <2>2. saving = 0
    <3>1. marker # Torn /\ ~ NewestDue(marker, version - 1)
      BY <1>1, <2>1 DEF NewestDue
    <3>. QED
      BY <1>1, <2>1, <3>1 DEF Saves
  <2>3. FilesInv'
    BY <1>1, <2>1, FilesRest
  <2>7. SaveDue(version)
    BY <1>1 DEF Saves
  <2>6. NewestDue(marker, version)
    <3>1. \A s \in (version + 1) .. version : FALSE
      BY <1>1
    <3>. QED
      BY <1>1, <2>1, <2>7, <3>1 DEF NewestDue
  <2>4. Weights'
    BY <1>1, <2>1, <2>6 DEF Weights, Phases, startupVars, linkVars, fileVars
  <2>5. Saves'
    BY <1>1, <2>1, <2>2 DEF Saves, fileVars
  <2>. QED
    BY <2>3, <2>4, <2>5 DEF JobInv
<1>. QED
  BY <1>2, <1>3, <1>4

\* A kill forgets everything but the directory.
LEMMA KilledKeeps == JobInv /\ Killed => JobInv'
<1>. SUFFICES ASSUME JobInv, Killed PROVE JobInv'
  OBVIOUS
<1>1. FilesInv'
  BY DyingKeeps DEF JobInv, Killed
<1>2. Weights'
  BY FilesAssumption DEF Killed, StartupReset, LinkReset, WriterDies, Weights, Phases
<1>3. Saves'
  BY DEF JobInv, Killed, WriterDies, Saves
<1>. QED
  BY <1>1, <1>2, <1>3 DEF JobInv

\* What no step touches stays.
LEMMA JobRests == JobInv /\ UNCHANGED vars => JobInv'
<1>. SUFFICES ASSUME JobInv, UNCHANGED vars PROVE JobInv'
  OBVIOUS
<1>1. FilesInv'
  BY FilesRest DEF JobInv, vars
<1>2. Weights' /\ Saves'
  BY DEF vars, fileVars, startupVars, linkVars, JobInv, Weights, Saves, Torn
<1>. QED
  BY <1>1, <1>2 DEF JobInv

-------------------------------------------------------------------------------

\* A job takes only steps of start-up and relaunches: whatever is proved of
\* start-up alone holds in the job.
THEOREM JobStartup == Spec => StartupSpec
<1>1. Init => StartupInit
  BY DEF Init
<1>2. [Next]_vars => [StartupStep \/ StartupReset]_startupVars
  BY DEF vars, Next, Launch, Startup, StartupEnds, Synchronise, Synchronised, UpdateActor,
         StartSave, WriteFiles, Saved, Killed
<1>. QED
  BY <1>1, <1>2, PTL DEF Spec, StartupSpec

\* The same for gradient accumulation: the optimizer steps when it may, and a
\* kill forgets the gradients.
THEOREM JobGradients == Spec => GradientSpec
<1>1. Init => GradientInit
  BY DEF Init
<1>2. [Next]_vars => [GradientStep \/ OptimizerStep \/ GradientReset]_gradVars
  BY DEF vars, Next, Launch, Startup, StartupEnds, Synchronise, Synchronised, UpdateActor,
         StartSave, WriteFiles, Saved, Killed
<1>. QED
  BY <1>1, <1>2, PTL DEF Spec, GradientSpec

\* In every phase of a job, through any number of kills, the directory, the
\* actor's weights and the rollouts' weights are what the phase says.
THEOREM JobInvariance == Spec => []JobInv
<1>1. JobInv /\ StartupInv /\ [Next]_vars => JobInv'
  BY LaunchKeeps, SynchroniseKeeps, UpdateKeeps, SaveKeeps, KilledKeeps, JobRests DEF Next
<1>. QED
  BY <1>1, JobStarts, JobStartup, StartupInvariance, PTL DEF Spec

\* The job transfers numbered versions only.
THEOREM JobTransfers == Spec => LinkSpec
<1>1. Init => LinkInit
  BY DEF Init
<1>2. ASSUME JobInv, [Next]_vars PROVE [LinkStep \/ LinkReset]_linkVars
  <2>1. version \in Nat
    BY <1>2, FilesAssumption DEF JobInv, Weights
  <2>2. CASE Synchronise
    BY <2>1, <2>2 DEF Synchronise, LinkStep
  <2>3. CASE Synchronised
    BY <2>3 DEF Synchronised, LinkStep
  <2>4. CASE Killed
    BY <2>4 DEF Killed
  <2>5. CASE ~ (Synchronise \/ Synchronised \/ Killed)
    BY <1>2, <2>5 DEF vars, Next, Launch, Startup, StartupEnds, UpdateActor, StartSave, WriteFiles, Saved
  <2>. QED
    BY <2>2, <2>3, <2>4, <2>5
<1>. QED
  BY <1>1, <1>2, JobInvariance, PTL DEF Spec, LinkSpec

\* Whenever a kill comes, what the validator accepts is whole, although it looks
\* only at sizes, and what the last finished save left is accepted until another
\* finishes: pruning never takes the checkpoint the marker names
\* (checkpoints.py:29-39,57-73; run_r2e_opd_smoke.sh:435).
THEOREM CheckpointsAreWhole == Spec => []AcceptedIsWhole
<1>1. JobInv => AcceptedIsWhole
  BY WholeIsAccepted DEF JobInv
<1>. QED
  BY <1>1, JobInvariance, PTL

\* While a step is trained the rollouts generate with the actor's weights, on
\* the first step of a resumed job too, and the checkpoint a kill would resume
\* from is the newest that was due, for every save_freq and
\* first_checkpoint_step and over any number of kills (async_prefetch.py:32-43).
THEOREM RolloutsAreCurrent == Spec => []RolloutsFollowActor
<1>1. JobInv => RolloutsFollowActor
  BY DEF JobInv, Weights, RolloutsFollowActor
<1>. QED
  BY <1>1, JobInvariance, PTL

\* The theorems of the parts, of the job's own specification.
THEOREM PartsAreSafe == Spec => [](StartupIsAllOrNothing /\ BuffersFollowRoles /\ GradientsAreReduced)
BY JobStartup, StartupIsSafe, JobTransfers, BuffersAreOfSenders, JobGradients, NoGradientIsLost, PTL
===============================================================================
