------------------------------ MODULE CodexEval -------------------------------
(***************************************************************************)
(* The offline Codex evaluator (src/src/coding_opd/codex_eval_entrypoint.py):
   a run evaluates every benchmark task once, keeps one record file per
   finished task and one result.json, can be killed at any moment, restarted
   in its own directory, or continued by a run in another directory with
   other resources.

   A directory stands for one --result-path with its records directory.  A
   run identity stands for its fingerprint (SHA-256 of the identity).  Files
   are replaced by os.replace, so a reader sees the old or the new content.  *)
(***************************************************************************)
EXTENDS Integers, FiniteSets

CONSTANTS
  Tasks,            \* task ids of the benchmark split
  Dirs,             \* result directories
  Replicas,         \* model server replicas (--model-socket)
  TasksPerReplica,
  Concurrency,
  Identities,       \* run identities: [code, config, semantics, resources]
  Scores,           \* verifier rewards
  MaxLaunches,      \* bound: how often the operator starts the program
  None

ASSUME EvalAssumption ==
  /\ \A i \in Identities : DOMAIN i = {"code", "config", "semantics", "resources"}
  /\ IsFiniteSet(Tasks) /\ IsFiniteSet(Replicas)
  /\ TasksPerReplica \in Nat \ {0}
  /\ Concurrency \in Nat \ {0}
  /\ MaxLaunches \in Nat

\* main() refuses more concurrency than there are replica task slots.
ASSUME ConcurrencyFits == Concurrency <= Cardinality(Replicas) * TasksPerReplica

\* "No process" is told from every process there could be.
ASSUME NoneIsNoRun == None \notin [dir : Dirs, identity : Identities, source : Dirs \cup {None}]

VARIABLES
  files,      \* [Dirs -> task -> record]: the record files on disk
  result,     \* [Dirs -> result.json or None]
  run,        \* the live process: None or [dir, identity, source]
  provenance, \* fingerprints of the records the live process inherited
  records,    \* its in-memory records: task -> record
  stage,      \* its coroutines: [Tasks -> stage]
  backend,    \* the replica a coroutine holds
  free,       \* backend_queue: [Replicas -> free slots]
  launches

vars == <<files, result, run, provenance, records, stage, backend, free, launches>>

NoRecords == [t \in {} |-> None]

InStage(s) == {t \in Tasks : stage[t] \in s}

\* {**others, **own}, with operators the provers can expand.
Merged(own, others) ==
  [t \in DOMAIN own \cup DOMAIN others |-> IF t \in DOMAIN own THEN own[t] ELSE others[t]]

With(t, rec, others) == Merged([u \in {t} |-> rec], others)

-------------------------------------------------------------------------------
(* What a run reads and writes.  An operator marked "Fault" is a plausible bug
   in the definition that follows it; no specification here uses it. *)

\* Fault: one task is forgotten.
CompleteOneEarly(recs) == Cardinality(DOMAIN recs) >= Cardinality(Tasks) - 1

Complete(recs) == DOMAIN recs = Tasks

\* _result_payload: the records it knows, in a file of its own.
Payload(id, prov, recs) ==
  [fingerprint |-> id, inherited |-> prov, tasks |-> recs,
   complete |-> Complete(recs)]

Fingerprints(recs) == {recs[t].fingerprint : t \in DOMAIN recs}

\* _load_records: every record file must come from this very configuration.
Loadable(dir, id) == Fingerprints(files[dir]) \subseteq {id}

\* Fault: no check.
AnyResume(old, new, approved, reviewed) == TRUE

\* May a run with identity new continue one with identity old?  Only the
\* resource allocation is free; code and task config need a reviewed hash.
Resumable(old, new, approved, reviewed) ==
  /\ old.code # new.code => approved = old.code
  /\ reviewed # None => reviewed = old.config
  /\ reviewed = None => old.config = new.config
  /\ old.semantics = new.semantics

\* Fault: result.json alone is believed.
InheritedFromResult(source) == result[source].tasks

\* _resume_records: record files are authoritative - a task may have finished
\* just before result.json was updated - and inherited records are kept.
Inherited(source) == Merged(files[source], result[source].tasks)

\* The checks _resume_records makes on the source before it believes it.
SourceIsValid(source) ==
  LET old == result[source] IN
  /\ Loadable(source, old.fingerprint)
  /\ Fingerprints(old.tasks) \subseteq {old.fingerprint} \cup old.inherited
  /\ \A t \in DOMAIN old.tasks \cap DOMAIN files[source] : files[source][t] = old.tasks[t]

\* Fault: the provenance names the direct source only.
DirectSource(source, inherited) ==
  IF source = None THEN {} ELSE {result[source].fingerprint}

\* resume_provenance.inherited_fingerprints, kept for the next continuation.
InheritedFingerprints(source, inherited) == Fingerprints(inherited)

\* "completed inherited tasks were rerun in this phase"
NoOverlap(dir, inherited) == DOMAIN files[dir] \cap DOMAIN inherited = {}

-------------------------------------------------------------------------------
(* Process life cycle. *)

Pending(recs) == Tasks \ DOMAIN recs

Start(dir, id, source, inherited) ==
  /\ run' = [dir |-> dir, identity |-> id, source |-> source]
  /\ provenance' = InheritedFingerprints(source, inherited)
  /\ records' = Merged(files[dir], inherited)
  /\ result' = [result EXCEPT ![dir] = Payload(id, provenance', records')]
  /\ stage' = [t \in Tasks |-> IF t \in Pending(records') THEN "created" ELSE "none"]
  /\ backend' = [t \in Tasks |-> None]
  /\ free' = [r \in Replicas |-> TasksPerReplica]
  /\ launches' = launches + 1
  /\ UNCHANGED files

\* A start, or a restart, without --resume-from-result.
LaunchFresh(dir, id) ==
  /\ run = None /\ launches < MaxLaunches
  /\ Loadable(dir, id)
  /\ Start(dir, id, None, NoRecords)

\* A start, or a restart, that continues a stopped run of another directory.
LaunchResumed(dir, id, source, approved, reviewed) ==
  /\ run = None /\ launches < MaxLaunches
  /\ source # dir /\ result[source] # None
  /\ Loadable(dir, id)
  /\ Resumable(result[source].fingerprint, id, approved, reviewed)
  /\ SourceIsValid(source)
  /\ NoOverlap(dir, Inherited(source))
  /\ Start(dir, id, source, Inherited(source))

\* The process is killed, or an I/O error of a write ends it: only files stay.
Stop ==
  /\ run # None
  /\ run' = None
  /\ provenance' = {}
  /\ records' = NoRecords
  /\ stage' = [t \in Tasks |-> "none"]
  /\ backend' = [t \in Tasks |-> None]
  /\ UNCHANGED <<files, result, free, launches>>

AllCollected == \A t \in Tasks : stage[t] = "none"

\* The loop over as_completed is through: write the final result and exit.
FinishRun ==
  /\ run # None /\ AllCollected
  /\ result' = [result EXCEPT ![run.dir] = Payload(run.identity, provenance, records)]
  /\ run' = None
  /\ provenance' = {}
  /\ records' = NoRecords
  /\ UNCHANGED <<files, stage, backend, free, launches>>

-------------------------------------------------------------------------------
(* _run_one. *)

SemaphoreIsOpen == Cardinality(InStage({"entered", "running"})) < Concurrency

EnterSemaphore(t) ==
  /\ stage[t] = "created"
  /\ SemaphoreIsOpen
  /\ stage' = [stage EXCEPT ![t] = "entered"]
  /\ UNCHANGED <<files, result, run, provenance, records, backend, free, launches>>

TakeBackend(t, r) ==
  /\ free' = [free EXCEPT ![r] = @ - 1]
  /\ backend' = [backend EXCEPT ![t] = r]

GetBackend(t, r) ==
  /\ stage[t] = "entered"
  /\ free[r] > 0
  /\ TakeBackend(t, r)
  /\ stage' = [stage EXCEPT ![t] = "running"]
  /\ UNCHANGED <<files, result, run, provenance, records, launches>>

\* Fault: the slot is lost with the coroutine.
BackendKept(t) == UNCHANGED <<free, backend>>

\* The finally clause of _run_one.
ReturnBackend(t) ==
  /\ free' = [free EXCEPT ![backend[t]] = @ + 1]
  /\ backend' = [backend EXCEPT ![t] = None]

\* From the end of the task to the return no coroutine switch happens: the
\* record is written and the slot is returned in one step.
Record(t, status, score) ==
  /\ stage[t] = "running"
  /\ files' = [files EXCEPT ![run.dir] =
                 With(t, [score |-> score, status |-> status, fingerprint |-> run.identity], @)]
  /\ ReturnBackend(t)
  /\ stage' = [stage EXCEPT ![t] = "recorded"]
  /\ UNCHANGED <<result, run, provenance, records, launches>>

TaskSucceeds(t) == \E score \in Scores : Record(t, "success", score)

\* "Infrastructure failures are benchmark zeros."
TaskFails(t) == Record(t, "error", 0)

\* One turn of the as_completed loop.
Collect(t) ==
  /\ stage[t] = "recorded"
  /\ records' = With(t, files[run.dir][t], records)
  /\ result' = [result EXCEPT ![run.dir] = Payload(run.identity, provenance, records')]
  /\ stage' = [stage EXCEPT ![t] = "none"]
  /\ UNCHANGED <<files, run, provenance, backend, free, launches>>

-------------------------------------------------------------------------------
Init ==
  /\ files = [d \in Dirs |-> NoRecords]
  /\ result = [d \in Dirs |-> None]
  /\ run = None
  /\ provenance = {}
  /\ records = NoRecords
  /\ stage = [t \in Tasks |-> "none"]
  /\ backend = [t \in Tasks |-> None]
  /\ free = [r \in Replicas |-> TasksPerReplica]
  /\ launches = 0

Codes == {i.code : i \in Identities} \cup {None}
Configs == {i.config : i \in Identities} \cup {None}

Operator ==
  \/ \E d \in Dirs, id \in Identities : LaunchFresh(d, id)
  \/ \E d, s \in Dirs, id \in Identities, a \in Codes, c \in Configs :
       LaunchResumed(d, id, s, a, c)

Coroutine(t) ==
  \/ EnterSemaphore(t)
  \/ \E r \in Replicas : GetBackend(t, r)
  \/ TaskSucceeds(t) \/ TaskFails(t)
  \/ Collect(t)

Next == Operator \/ Stop \/ FinishRun \/ (\E t \in Tasks : Coroutine(t))

Spec == Init /\ [][Next]_vars

-------------------------------------------------------------------------------
(* Properties. *)

\* Every result.json on disk only reports records that exist as files, and its
\* "complete" flag means that every task has one.
ResultIsBacked ==
  \A d \in Dirs : result[d] # None =>
    /\ \A t \in DOMAIN result[d].tasks :
         \E e \in Dirs : t \in DOMAIN files[e] /\ files[e][t] = result[d].tasks[t]
    /\ result[d].complete => \A t \in Tasks : \E e \in Dirs : t \in DOMAIN files[e]

\* Whatever the moment a run was stopped at, its directory passes every check
\* _resume_records makes: no run can end in a state that cannot be continued.
EveryResultIsResumable == \A d \in Dirs : result[d] # None => SourceIsValid(d)

\* One result.json never mixes scores of different evaluation semantics, over
\* any chain of continuations; only resources and reviewed hashes may differ.
SemanticsNeverMixed ==
  \A d \in Dirs : result[d] # None =>
    \A i \in Fingerprints(result[d].tasks) : i.semantics = result[d].fingerprint.semantics

\* A continuing run does no work the source has finished, also when the source
\* died between writing a record and updating its result.json.
FinishedWorkIsNotRepeated ==
  run # None /\ run.source # None =>
    \A t \in DOMAIN files[run.source] \cup DOMAIN result[run.source].tasks :
      t \notin InStage({"created", "entered", "running"}) /\ t \notin DOMAIN files[run.dir]

\* A coroutine inside the semaphore never waits for a slot, and a replica never
\* serves more than its share.
SlotsSuffice ==
  run # None =>
    /\ \A r \in Replicas :
         free[r] + Cardinality({t \in InStage({"running"}) : backend[t] = r}) = TasksPerReplica
    /\ InStage({"entered"}) # {} => \E r \in Replicas : free[r] > 0

===============================================================================
