--------------------------- MODULE CodexEvalProofs ----------------------------
(***************************************************************************)
(* Proofs about CodexEval, for every set of tasks, directories, replicas,  *)
(* identities and scores, and any number of launches.                      *)
(***************************************************************************)
EXTENDS CodexEval, FunctionTheorems, FiniteSetTheorems, TLAPS

-------------------------------------------------------------------------------
(* The inductive invariant. *)

TaskRecord == [score : Scores \cup {0}, status : {"success", "error"}, fingerprint : Identities]

\* A records directory, or the records in memory or in a result.
RecordFiles == UNION {[S -> TaskRecord] : S \in SUBSET Tasks}

Results ==
  [fingerprint : Identities, inherited : SUBSET Identities, tasks : RecordFiles, complete : BOOLEAN]

Runs == [dir : Dirs, identity : Identities, source : Dirs \cup {None}]

Working == {"created", "entered", "running"}

EvalTypeOK ==
  /\ files \in [Dirs -> RecordFiles]
  /\ result \in [Dirs -> Results \cup {None}]
  /\ run \in Runs \cup {None}
  /\ provenance \subseteq Identities
  /\ records \in RecordFiles
  /\ stage \in [Tasks -> Working \cup {"none", "recorded"}]
  /\ backend \in [Tasks -> Replicas \cup {None}]
  /\ free \in [Replicas -> Nat]

\* Some records directory holds this record.
OnDisk(fs, t, rec) == \E e \in Dirs : t \in DOMAIN fs[e] /\ fs[e][t] = rec

\* What a run, or a result, of directory d may tell of the tasks when the
\* record files are fs.
Believable(fs, d, id, prov, recs) ==
  /\ \A t \in DOMAIN fs[d] : fs[d][t].fingerprint = id
  /\ \A t \in DOMAIN recs :
       /\ recs[t].fingerprint \in {id} \cup prov
       /\ t \in DOMAIN fs[d] => fs[d][t] = recs[t]
       /\ recs[t].fingerprint.semantics = id.semantics
       /\ OnDisk(fs, t, recs[t])

Sound(fs, d, res) ==
  /\ Believable(fs, d, res.fingerprint, res.inherited, res.tasks)
  /\ res.complete <=> Complete(res.tasks)

Disk == \A d \in Dirs : result[d] # None => Sound(files, d, result[d])

\* The live run's result is what the run knows.
Memory ==
  run # None =>
    /\ Believable(files, run.dir, run.identity, provenance, records)
    /\ result[run.dir] = Payload(run.identity, provenance, records)

\* A task that is not finished is known nowhere, one that waits to be
\* collected has its file.
Stage(t) ==
  run # None =>
    /\ stage[t] \in Working => t \notin DOMAIN records /\ t \notin DOMAIN files[run.dir]
    /\ stage[t] = "recorded" => t \notin DOMAIN records /\ t \in DOMAIN files[run.dir]
    /\ stage[t] = "running" => backend[t] \in Replicas

\* A process that has ended has no coroutines.
Dead == run = None => \A t \in Tasks : stage[t] = "none"

\* What the source had finished is known from the start and never done again.
SourceWork == DOMAIN files[run.source] \cup DOMAIN result[run.source].tasks
Continued ==
  run # None /\ run.source # None =>
    /\ run.source # run.dir
    /\ SourceWork \subseteq DOMAIN records
    /\ SourceWork \cap DOMAIN files[run.dir] = {}

Serving(r) == {t \in Tasks : stage[t] = "running" /\ backend[t] = r}

\* A slot is free or serves a coroutine, and the semaphore is kept.
Slots ==
  run # None =>
    /\ \A r \in Replicas : free[r] + Cardinality(Serving(r)) = TasksPerReplica
    /\ Cardinality(InStage({"entered", "running"})) <= Concurrency

IInv ==
  EvalTypeOK /\ Disk /\ Memory /\ (\A t \in Tasks : Stage(t)) /\ Dead /\ Continued /\ Slots

-------------------------------------------------------------------------------
(* Records. *)

\* A merge of records keeps the left one where both have one.
LEMMA MergeType ==
  ASSUME NEW f \in RecordFiles, NEW g \in RecordFiles
  PROVE  /\ Merged(f, g) \in RecordFiles
         /\ DOMAIN Merged(f, g) = DOMAIN f \cup DOMAIN g
         /\ \A t \in DOMAIN f : Merged(f, g)[t] = f[t]
         /\ \A t \in DOMAIN g \ DOMAIN f : Merged(f, g)[t] = g[t]
<1>1. PICK S \in SUBSET Tasks : f \in [S -> TaskRecord]
  BY DEF RecordFiles
<1>2. PICK T \in SUBSET Tasks : g \in [T -> TaskRecord]
  BY DEF RecordFiles
<1>3. Merged(f, g) = [t \in S \cup T |-> IF t \in S THEN f[t] ELSE g[t]]
  BY <1>1, <1>2 DEF Merged
<1>4. Merged(f, g) \in [S \cup T -> TaskRecord]
  BY <1>1, <1>2, <1>3
<1>5. S \cup T \in SUBSET Tasks
  OBVIOUS
<1>. QED
  BY <1>1, <1>2, <1>3, <1>4, <1>5 DEF RecordFiles

\* A new record is added to the others, or replaces its like.
LEMMA WithType ==
  ASSUME NEW t \in Tasks, NEW rec \in TaskRecord, NEW g \in RecordFiles
  PROVE  /\ With(t, rec, g) \in RecordFiles
         /\ DOMAIN With(t, rec, g) = DOMAIN g \cup {t}
         /\ With(t, rec, g)[t] = rec
         /\ \A u \in DOMAIN g \ {t} : With(t, rec, g)[u] = g[u]
<1>. DEFINE f == [u \in {t} |-> rec]
<1>1. f \in [{t} -> TaskRecord] /\ {t} \in SUBSET Tasks
  OBVIOUS
<1>2. f \in RecordFiles /\ DOMAIN f = {t} /\ f[t] = rec
  BY <1>1 DEF RecordFiles
<1>. HIDE DEF f
<1>3. With(t, rec, g) = Merged(f, g)
  BY DEF With, f
<1>4. /\ Merged(f, g) \in RecordFiles
      /\ DOMAIN Merged(f, g) = DOMAIN f \cup DOMAIN g
      /\ \A u \in DOMAIN f : Merged(f, g)[u] = f[u]
      /\ \A u \in DOMAIN g \ DOMAIN f : Merged(f, g)[u] = g[u]
  BY <1>2, MergeType
<1>. QED
  BY <1>2, <1>3, <1>4

\* No record is a file of no task.
LEMMA Empty == NoRecords \in RecordFiles /\ DOMAIN NoRecords = {}
<1>1. NoRecords \in [{} -> TaskRecord] /\ {} \in SUBSET Tasks
  BY DEF NoRecords
<1>. QED
  BY <1>1 DEF RecordFiles, NoRecords

\* What a record file is.
LEMMA FileType ==
  ASSUME NEW f \in RecordFiles
  PROVE  /\ DOMAIN f \subseteq Tasks
         /\ \A t \in DOMAIN f : f[t] \in TaskRecord
BY DEF RecordFiles

-------------------------------------------------------------------------------
(* Slots. *)

\* The sets of coroutines are finite.
LEMMA FiniteStages ==
  /\ IsFiniteSet(Tasks) /\ IsFiniteSet(Replicas)
  /\ \A r : IsFiniteSet(Serving(r)) /\ Cardinality(Serving(r)) \in Nat
  /\ \A S : IsFiniteSet(InStage(S)) /\ Cardinality(InStage(S)) \in Nat
<1>1. IsFiniteSet(Tasks) /\ IsFiniteSet(Replicas)
  BY EvalAssumption
<1>2. \A r : Serving(r) \subseteq Tasks
  BY DEF Serving
<1>3. \A S : InStage(S) \subseteq Tasks
  BY DEF InStage
<1>. QED
  BY <1>1, <1>2, <1>3, FS_Subset, FS_CardinalityType

\* When no replica has a slot left, as many coroutines run as there are slots:
\* the slots can be numbered, and every one serves a coroutine of its own.
LEMMA AllSlotsServe ==
  ASSUME EvalTypeOK, \A r \in Replicas : Cardinality(Serving(r)) = TasksPerReplica
  PROVE  Cardinality(Replicas) * TasksPerReplica <= Cardinality(InStage({"running"}))
<1>0. TasksPerReplica \in Nat
  BY EvalAssumption
<1>. DEFINE N == 1 .. TasksPerReplica
            Pairs == Replicas \X N
            Running == InStage({"running"})
<1>1. IsFiniteSet(N) /\ Cardinality(N) = TasksPerReplica
  BY <1>0, FS_Interval
<1>2. IsFiniteSet(Pairs) /\ Cardinality(Pairs) = Cardinality(Replicas) * TasksPerReplica
  BY <1>1, FiniteStages, FS_Product
<1>3. \A r \in Replicas : ExistsBijection(N, Serving(r))
  BY FiniteStages, FS_CardinalityType
<1>. DEFINE b == [r \in Replicas |-> CHOOSE f : f \in Bijection(N, Serving(r))]
<1>4. \A r \in Replicas : b[r] \in Bijection(N, Serving(r))
  BY <1>3 DEF ExistsBijection
<1>. HIDE DEF b
<1>5. \A r \in Replicas :
        /\ \A i \in N : b[r][i] \in Serving(r)
        /\ \A i, j \in N : b[r][i] = b[r][j] => i = j
  BY <1>4 DEF Bijection, Injection, Surjection, IsInjective
<1>. DEFINE h == [p \in Pairs |-> b[p[1]][p[2]]]
<1>6. \A p \in Pairs : h[p] \in Serving(p[1]) /\ h[p] = b[p[1]][p[2]] /\ p[1] \in Replicas /\ p[2] \in N
  BY <1>5
<1>7. h \in [Pairs -> Running]
  BY <1>6 DEF Serving, InStage
<1>8. \A p, q \in Pairs : h[p] = h[q] => p = q
  <2>1. SUFFICES ASSUME NEW p \in Pairs, NEW q \in Pairs, h[p] = h[q] PROVE p = q
    OBVIOUS
  <2>2. p[1] = q[1]
    BY <2>1, <1>6 DEF Serving
  <2>3. p[2] = q[2]
    BY <2>1, <2>2, <1>5, <1>6
  <2>. QED
    BY <2>2, <2>3
<1>. HIDE DEF h, Pairs, Running
<1>9. h \in Injection(Pairs, Running)
  BY <1>7, <1>8 DEF Injection, IsInjective
<1>10. Cardinality(Pairs) <= Cardinality(Running)
  BY <1>2, <1>9, FiniteStages, FS_Injection DEF ExistsInjection, Running
<1>. QED
  BY <1>2, <1>10 DEF Running

-------------------------------------------------------------------------------
(* Launches. *)

\* Nothing has been evaluated yet.
LEMMA InitHolds == Init => IInv
<1>. SUFFICES ASSUME Init PROVE IInv
  OBVIOUS
<1>1. EvalTypeOK
  BY Empty, EvalAssumption DEF Init, EvalTypeOK
<1>2. Disk /\ Memory /\ (\A t \in Tasks : Stage(t)) /\ Dead /\ Continued /\ Slots
  BY DEF Init, Disk, Memory, Stage, Dead, Continued, Slots
<1>. QED
  BY <1>1, <1>2 DEF IInv

\* A result that repeats what the run may believe is sound.
LEMMA PayloadType ==
  ASSUME NEW id \in Identities, NEW prov \in SUBSET Identities, NEW recs \in RecordFiles
  PROVE  /\ Payload(id, prov, recs) \in Results
         /\ \A fs, d : Believable(fs, d, id, prov, recs) => Sound(fs, d, Payload(id, prov, recs))
<1>1. Complete(recs) \in BOOLEAN
  BY DEF Complete
<1>. QED
  BY <1>1 DEF Payload, Results, Sound

\* A start believes the records of its directory and what it inherits, and
\* sets out to do exactly what is in neither (codex_eval_entrypoint.py:371-392).
LEMMA StartKeeps ==
  ASSUME IInv, NEW dir \in Dirs, NEW id \in Identities, NEW source \in Dirs \cup {None},
         NEW inherited \in RecordFiles,
         Loadable(dir, id),
         \A t \in DOMAIN inherited :
           inherited[t].fingerprint.semantics = id.semantics /\ OnDisk(files, t, inherited[t]),
         NoOverlap(dir, inherited),
         source # None =>
           source # dir /\ DOMAIN files[source] \cup DOMAIN result[source].tasks \subseteq DOMAIN inherited,
         Start(dir, id, source, inherited)
  PROVE  IInv'
<1>. DEFINE recs == Merged(files[dir], inherited)
            prov == Fingerprints(inherited)
            new == [dir |-> dir, identity |-> id, source |-> source]
<1>1. /\ files[dir] \in RecordFiles /\ recs \in RecordFiles
      /\ DOMAIN recs = DOMAIN files[dir] \cup DOMAIN inherited
      /\ \A t \in DOMAIN files[dir] : recs[t] = files[dir][t]
      /\ \A t \in DOMAIN inherited : t \notin DOMAIN files[dir] /\ recs[t] = inherited[t]
  <2>1. files[dir] \in RecordFiles
    BY DEF IInv, EvalTypeOK
  <2>2. /\ Merged(files[dir], inherited) \in RecordFiles
        /\ DOMAIN Merged(files[dir], inherited) = DOMAIN files[dir] \cup DOMAIN inherited
        /\ \A t \in DOMAIN files[dir] : Merged(files[dir], inherited)[t] = files[dir][t]
        /\ \A t \in DOMAIN inherited \ DOMAIN files[dir] : Merged(files[dir], inherited)[t] = inherited[t]
    BY <2>1, MergeType
  <2>. QED
    BY <2>1, <2>2 DEF NoOverlap
<1>2. prov \in SUBSET Identities
  BY FileType DEF Fingerprints, TaskRecord
<1>3. Believable(files, dir, id, prov, recs)
  <2>1. \A t \in DOMAIN files[dir] : files[dir][t].fingerprint = id
    BY DEF Loadable, Fingerprints
  <2>2. \A t \in DOMAIN files[dir] : OnDisk(files, t, files[dir][t])
    BY DEF OnDisk
  <2>3. \A t \in DOMAIN inherited : inherited[t].fingerprint \in prov
    BY DEF Fingerprints
  <2>. QED
    BY <1>1, <2>1, <2>2, <2>3 DEF Believable
<1>. HIDE DEF recs, prov, new
<1>4. /\ files' = files /\ run' = new /\ provenance' = prov /\ records' = recs
      /\ result' = [result EXCEPT ![dir] = Payload(id, prov, recs)]
      /\ stage' = [t \in Tasks |-> IF t \in Pending(recs) THEN "created" ELSE "none"]
      /\ backend' = [t \in Tasks |-> None]
      /\ free' = [q \in Replicas |-> TasksPerReplica]
  BY DEF Start, InheritedFingerprints, recs, prov, new
<1>5. new \in Runs /\ new.dir = dir /\ new.identity = id /\ new.source = source
  BY DEF new, Runs
<1>6. Payload(id, prov, recs) \in Results /\ Sound(files, dir, Payload(id, prov, recs))
  BY <1>1, <1>2, <1>3, PayloadType
<1>7. EvalTypeOK'
  BY <1>1, <1>2, <1>4, <1>5, <1>6, EvalAssumption DEF IInv, EvalTypeOK, Working
<1>8. Disk'
  BY <1>4, <1>6 DEF IInv, EvalTypeOK, Disk
<1>9. Memory'
  BY <1>3, <1>4, <1>5 DEF IInv, EvalTypeOK, Memory
<1>10. \A t \in Tasks : Stage(t)'
  BY <1>1, <1>4, <1>5 DEF Stage, Pending, Working
<1>11. Continued'
  BY <1>1, <1>4, <1>5 DEF Continued, SourceWork, IInv, EvalTypeOK
<1>12. Slots'
  <2>1. \A q : Serving(q)' = {}
    BY <1>4 DEF Serving
  <2>2. InStage({"entered", "running"})' = {}
    BY <1>4 DEF InStage
  <2>. QED
    <3>1. Cardinality({}) = 0 /\ TasksPerReplica \in Nat /\ 0 <= Concurrency
      BY FS_EmptySet, EvalAssumption
    <3>2. \A q \in Replicas : free'[q] + Cardinality(Serving(q)') = TasksPerReplica
      BY <1>4, <2>1, <3>1
    <3>3. Cardinality(InStage({"entered", "running"})') <= Concurrency
      BY <2>2, <3>1
    <3>. QED
      BY <3>2, <3>3 DEF Slots
<1>13. Dead'
  BY <1>4, <1>5, NoneIsNoRun DEF Dead, Runs
<1>. QED
  BY <1>7, <1>8, <1>9, <1>10, <1>11, <1>12, <1>13 DEF IInv

\* A start without a source inherits nothing.
LEMMA FreshKeeps ==
  ASSUME IInv, NEW dir \in Dirs, NEW id \in Identities, LaunchFresh(dir, id)
  PROVE  IInv'
<1>1. NoOverlap(dir, NoRecords)
  BY Empty DEF NoOverlap
<1>2. Loadable(dir, id) /\ Start(dir, id, None, NoRecords)
  BY DEF LaunchFresh
<1>. QED
  BY <1>1, <1>2, Empty, StartKeeps

\* A continuation inherits the record files of its source and what the source
\* had inherited: all of the same semantics, and all of it on disk
\* (codex_eval_entrypoint.py:144-203).
LEMMA ResumedKeeps ==
  ASSUME IInv, NEW dir \in Dirs, NEW id \in Identities, NEW source \in Dirs,
         NEW approved, NEW reviewed, LaunchResumed(dir, id, source, approved, reviewed)
  PROVE  IInv'
<1>. DEFINE old == result[source]
            inherited == Inherited(source)
<1>1. /\ source # dir /\ old # None /\ Loadable(dir, id)
      /\ old.fingerprint.semantics = id.semantics
      /\ NoOverlap(dir, inherited) /\ Start(dir, id, source, inherited)
  BY DEF LaunchResumed, Resumable
<1>2. old \in Results /\ old.tasks \in RecordFiles /\ files[source] \in RecordFiles
  BY <1>1 DEF IInv, EvalTypeOK, Results
<1>3. /\ inherited \in RecordFiles
      /\ DOMAIN inherited = DOMAIN files[source] \cup DOMAIN old.tasks
      /\ \A t \in DOMAIN files[source] : inherited[t] = files[source][t]
      /\ \A t \in DOMAIN old.tasks \ DOMAIN files[source] : inherited[t] = old.tasks[t]
  BY <1>2, MergeType DEF Inherited
<1>4. Believable(files, source, old.fingerprint, old.inherited, old.tasks)
  BY <1>1 DEF IInv, Disk, Sound
<1>. HIDE DEF inherited, old
<1>5. \A t \in DOMAIN files[source] :
        files[source][t].fingerprint.semantics = id.semantics /\ OnDisk(files, t, files[source][t])
  BY <1>1, <1>4 DEF Believable, OnDisk
<1>6. \A t \in DOMAIN old.tasks :
        old.tasks[t].fingerprint.semantics = id.semantics /\ OnDisk(files, t, old.tasks[t])
  BY <1>1, <1>4 DEF Believable
<1>7. \A t \in DOMAIN inherited :
        inherited[t].fingerprint.semantics = id.semantics /\ OnDisk(files, t, inherited[t])
  BY <1>3, <1>5, <1>6
<1>8. DOMAIN files[source] \cup DOMAIN result[source].tasks \subseteq DOMAIN inherited
  BY <1>3 DEF old
<1>. QED
  BY <1>1, <1>3, <1>7, <1>8, StartKeeps

\* A run that ends, or is killed, leaves its files; the last result is what it
\* knows (codex_eval_entrypoint.py:513-522).
LEMMA EndKeeps ==
  ASSUME IInv, Stop \/ FinishRun
  PROVE  IInv'
<1>1. files' = files /\ run' = None /\ provenance' = {} /\ records' = NoRecords /\ free' = free
  BY DEF Stop, FinishRun
<1>2. stage' \in [Tasks -> Working \cup {"none", "recorded"}] /\ backend' \in [Tasks -> Replicas \cup {None}]
  BY DEF Stop, FinishRun, IInv, EvalTypeOK
<1>3. result' \in [Dirs -> Results \cup {None}] /\ Disk'
  <2>1. CASE result' = result
    BY <2>1, <1>1 DEF IInv, EvalTypeOK, Disk
  <2>2. CASE FinishRun
    <3>. DEFINE new == Payload(run.identity, provenance, records)
    <3>1. run.dir \in Dirs /\ run.identity \in Identities /\ Believable(files, run.dir, run.identity, provenance, records)
      BY <2>2 DEF FinishRun, IInv, EvalTypeOK, Memory, Runs
    <3>2. new \in Results /\ Sound(files, run.dir, new)
      BY <3>1, PayloadType DEF IInv, EvalTypeOK
    <3>3. result' = [result EXCEPT ![run.dir] = new]
      BY <2>2 DEF FinishRun
    <3>. HIDE DEF new
    <3>. QED
      BY <3>1, <3>2, <3>3, <1>1 DEF IInv, EvalTypeOK, Disk
  <2>. QED
    BY <2>1, <2>2 DEF Stop
<1>4. EvalTypeOK'
  BY <1>1, <1>2, <1>3, Empty DEF IInv, EvalTypeOK
<1>5. Memory' /\ (\A t \in Tasks : Stage(t)') /\ Continued' /\ Slots'
  BY <1>1 DEF Memory, Stage, Continued, Slots
<1>6. Dead'
  BY <1>1 DEF Stop, FinishRun, AllCollected, Dead
<1>. QED
  BY <1>3, <1>4, <1>5, <1>6 DEF IInv

-------------------------------------------------------------------------------
(* The coroutine of a task. *)

\* A coroutine moves only while its process lives.
LEMMA CoroutineIsAlive ==
  ASSUME IInv, NEW t \in Tasks, stage[t] # "none"
  PROVE  run # None
BY DEF IInv, Dead

\* What a step that only moves a coroutine leaves alone.
LEMMA FilesStay ==
  ASSUME IInv, UNCHANGED <<files, result, run, provenance, records>>
  PROVE  Disk' /\ Memory' /\ Continued'
BY DEF IInv, Disk, Memory, Continued, SourceWork

\* The semaphore is entered below its limit, and no slot is touched.
LEMMA EnterKeeps ==
  ASSUME IInv, NEW t \in Tasks, EnterSemaphore(t)
  PROVE  IInv'
<1>1. /\ stage[t] = "created" /\ Cardinality(InStage({"entered", "running"})) < Concurrency
      /\ stage' = [stage EXCEPT ![t] = "entered"]
      /\ UNCHANGED <<files, result, run, provenance, records>> /\ UNCHANGED <<backend, free>>
  BY DEF EnterSemaphore, SemaphoreIsOpen
<1>2. EvalTypeOK'
  BY <1>1 DEF IInv, EvalTypeOK, Working
<1>3. \A u \in Tasks : Stage(u)'
  BY <1>1 DEF IInv, EvalTypeOK, Stage, Working
<1>4. Slots'
  <2>1. \A r : Serving(r)' = Serving(r)
    BY <1>1 DEF Serving, IInv, EvalTypeOK
  <2>2. InStage({"entered", "running"})' = InStage({"entered", "running"}) \cup {t}
        /\ t \notin InStage({"entered", "running"})
    BY <1>1 DEF InStage, IInv, EvalTypeOK
  <2>3. Cardinality(InStage({"entered", "running"})') = Cardinality(InStage({"entered", "running"})) + 1
    BY <2>2, FiniteStages, FS_AddElement
  <2>4. Cardinality(InStage({"entered", "running"})') <= Concurrency
    BY <1>1, <2>3, FiniteStages, EvalAssumption
  <2>. QED
    BY <1>1, <2>1, <2>4 DEF IInv, Slots
<1>5. Dead'
  BY <1>1, CoroutineIsAlive DEF Dead
<1>. QED
  BY <1>1, <1>2, <1>3, <1>4, <1>5, FilesStay DEF IInv

\* A slot is taken from the queue and serves the coroutine.
LEMMA TakeKeeps ==
  ASSUME IInv, NEW t \in Tasks, NEW r \in Replicas, GetBackend(t, r)
  PROVE  IInv'
<1>1. /\ stage[t] = "entered" /\ free[r] > 0
      /\ stage' = [stage EXCEPT ![t] = "running"]
      /\ free' = [free EXCEPT ![r] = @ - 1] /\ backend' = [backend EXCEPT ![t] = r]
      /\ UNCHANGED <<files, result, run, provenance, records>>
  BY DEF GetBackend, TakeBackend
<1>2. EvalTypeOK'
  BY <1>1 DEF IInv, EvalTypeOK, Working
<1>3. \A u \in Tasks : Stage(u)'
  BY <1>1 DEF IInv, EvalTypeOK, Stage, Working
<1>4. Slots'
  <2>1. \A q : q # r => Serving(q)' = Serving(q)
    BY <1>1 DEF Serving, IInv, EvalTypeOK
  <2>2. Serving(r)' = Serving(r) \cup {t} /\ t \notin Serving(r)
    BY <1>1 DEF Serving, IInv, EvalTypeOK
  <2>3. Cardinality(Serving(r)') = Cardinality(Serving(r)) + 1
    BY <2>2, FiniteStages, FS_AddElement
  <2>4. InStage({"entered", "running"})' = InStage({"entered", "running"})
    BY <1>1 DEF InStage, IInv, EvalTypeOK
  <2>5. free[r] \in Nat /\ Cardinality(Serving(r)) \in Nat /\ free'[r] = free[r] - 1
        /\ \A q \in Replicas : q # r => free'[q] = free[q]
    BY <1>1, FiniteStages DEF IInv, EvalTypeOK
  <2>6. run' # None => \A q \in Replicas : free'[q] + Cardinality(Serving(q)') = TasksPerReplica
    BY <1>1, <2>1, <2>3, <2>5 DEF IInv, Slots
  <2>. QED
    BY <1>1, <2>4, <2>6 DEF IInv, Slots
<1>5. Dead'
  BY <1>1, CoroutineIsAlive DEF Dead
<1>. QED
  BY <1>1, <1>2, <1>3, <1>4, <1>5, FilesStay DEF IInv

\* The record of a task is new in its directory, so nothing that was known of
\* any task changes, and the slot goes back (codex_eval_entrypoint.py:312-346).
LEMMA RecordKeeps ==
  ASSUME IInv, run # None, NEW t \in Tasks, NEW status \in {"success", "error"},
         NEW score \in Scores \cup {0}, Record(t, status, score)
  PROVE  IInv'
<1>. DEFINE rec == [score |-> score, status |-> status, fingerprint |-> run.identity]
            d == run.dir
<1>0. PICK b \in Replicas : b = backend[t]
  BY DEF IInv, Stage, Record
<1>1. /\ stage[t] = "running"
      /\ files' = [files EXCEPT ![d] = With(t, rec, files[d])]
      /\ free' = [free EXCEPT ![b] = @ + 1] /\ backend' = [backend EXCEPT ![t] = None]
      /\ stage' = [stage EXCEPT ![t] = "recorded"]
      /\ UNCHANGED <<result, run, provenance, records>>
  BY <1>0 DEF Record, ReturnBackend
<1>2. /\ d \in Dirs /\ run.identity \in Identities /\ run.source \in Dirs \cup {None}
      /\ rec \in TaskRecord /\ rec.fingerprint = run.identity
      /\ files[d] \in RecordFiles
  BY DEF IInv, EvalTypeOK, Runs, TaskRecord
<1>3. t \notin DOMAIN files[d] /\ t \notin DOMAIN records
  BY <1>1 DEF IInv, Stage, Working
<1>. HIDE DEF rec, d
<1>4. /\ With(t, rec, files[d]) \in RecordFiles
      /\ DOMAIN With(t, rec, files[d]) = DOMAIN files[d] \cup {t}
      /\ With(t, rec, files[d])[t] = rec
      /\ \A u \in DOMAIN files[d] : With(t, rec, files[d])[u] = files[d][u]
  <2>1. /\ With(t, rec, files[d]) \in RecordFiles
        /\ DOMAIN With(t, rec, files[d]) = DOMAIN files[d] \cup {t}
        /\ With(t, rec, files[d])[t] = rec
        /\ \A u \in DOMAIN files[d] \ {t} : With(t, rec, files[d])[u] = files[d][u]
    BY <1>2, WithType
  <2>. QED
    BY <2>1, <1>3
<1>5. /\ \A e \in Dirs : e # d => files'[e] = files[e]
      /\ DOMAIN files'[d] = DOMAIN files[d] \cup {t} /\ files'[d][t] = rec
      /\ \A u \in DOMAIN files[d] : files'[d][u] = files[d][u]
  BY <1>1, <1>2, <1>4 DEF IInv, EvalTypeOK
<1>6. EvalTypeOK'
  BY <1>1, <1>2, <1>3, <1>4 DEF IInv, EvalTypeOK
<1>7. ASSUME NEW u, NEW known, OnDisk(files, u, known)
      PROVE  OnDisk(files', u, known)
  BY <1>5, <1>7 DEF OnDisk
<1>8. run.dir = d /\ Memory
  BY DEF d, IInv
<1>9. result[d] = Payload(run.identity, provenance, records)
  BY <1>8 DEF Memory
<1>10. result[d].fingerprint = run.identity /\ result[d].tasks = records
  BY <1>9 DEF Payload
<1>11. \A id, prov, recs :
         /\ Believable(files, d, id, prov, recs) /\ t \notin DOMAIN recs /\ id = run.identity
         => Believable(files', d, id, prov, recs)
  BY <1>2, <1>5, <1>7 DEF Believable
<1>12. \A e, id, prov, recs :
         e \in Dirs /\ e # d /\ Believable(files, e, id, prov, recs) => Believable(files', e, id, prov, recs)
  BY <1>5, <1>7 DEF Believable
<1>13. Disk'
  BY <1>1, <1>3, <1>10, <1>11, <1>12 DEF IInv, Disk, Sound
<1>14. Memory'
  BY <1>1, <1>3, <1>8, <1>11 DEF Memory
<1>15. \A u \in Tasks : Stage(u)'
  BY <1>1, <1>3, <1>5, <1>8 DEF IInv, EvalTypeOK, Stage, Working
<1>16. Continued'
  BY <1>1, <1>2, <1>3, <1>5, <1>8 DEF IInv, Continued, SourceWork
<1>17. Slots'
  <2>1. \A q : q # b => Serving(q)' = Serving(q)
    <3>1. \A u \in Tasks : stage'[u] = "running" <=> stage[u] = "running" /\ u # t
      BY <1>1 DEF IInv, EvalTypeOK
    <3>2. \A u \in Tasks : u # t => backend'[u] = backend[u]
      BY <1>1 DEF IInv, EvalTypeOK
    <3>. QED
      BY <3>1, <3>2, <1>0 DEF Serving
  <2>2. Serving(b)' = Serving(b) \ {t} /\ t \in Serving(b)
    <3>1. \A u \in Tasks : stage'[u] = "running" <=> stage[u] = "running" /\ u # t
      BY <1>1 DEF IInv, EvalTypeOK
    <3>2. \A u \in Tasks : u # t => backend'[u] = backend[u]
      BY <1>1 DEF IInv, EvalTypeOK
    <3>. QED
      BY <3>1, <3>2, <1>0, <1>1 DEF Serving
  <2>3. Cardinality(Serving(b)') = Cardinality(Serving(b)) - 1
    BY <2>2, FiniteStages, FS_RemoveElement
  <2>4. InStage({"entered", "running"})' = InStage({"entered", "running"}) \ {t}
    BY <1>1 DEF InStage, IInv, EvalTypeOK
  <2>5. Cardinality(InStage({"entered", "running"})') <= Cardinality(InStage({"entered", "running"}))
    BY <2>4, FiniteStages, FS_Subset
  <2>6. /\ free[b] \in Nat /\ Cardinality(Serving(b)) \in Nat /\ free'[b] = free[b] + 1
        /\ \A q \in Replicas : q # b => free'[q] = free[q]
    BY <1>1, <1>3, FiniteStages DEF IInv, EvalTypeOK
  <2>7. /\ \A q \in Replicas : free[q] + Cardinality(Serving(q)) = TasksPerReplica
        /\ Cardinality(InStage({"entered", "running"})) <= Concurrency
    BY DEF IInv, Slots
  <2>8. free'[b] + Cardinality(Serving(b)') = TasksPerReplica
    <3>1. free[b] + Cardinality(Serving(b)) = TasksPerReplica
      BY <2>7
    <3>. QED
      BY <3>1, <2>3, <2>6
  <2>9. \A q \in Replicas : free'[q] + Cardinality(Serving(q)') = TasksPerReplica
    BY <2>1, <2>6, <2>7, <2>8
  <2>10. /\ Cardinality(InStage({"entered", "running"})) \in Nat
         /\ Cardinality(InStage({"entered", "running"})') \in Nat
    <3>1. InStage({"entered", "running"}) \subseteq Tasks /\ InStage({"entered", "running"})' \subseteq Tasks
      BY DEF InStage
    <3>2. IsFiniteSet(InStage({"entered", "running"})')
      BY <3>1, FiniteStages, FS_Subset
    <3>. QED
      BY <3>2, FiniteStages, FS_CardinalityType
  <2>. QED
    BY <2>5, <2>7, <2>9, <2>10, EvalAssumption DEF Slots
<1>18. Dead'
  BY <1>1 DEF Dead
<1>. QED
  BY <1>6, <1>13, <1>14, <1>15, <1>16, <1>17, <1>18 DEF IInv

\* A collected record joins what the run knows, in memory and in its result
\* (codex_eval_entrypoint.py:393-407).
LEMMA CollectKeeps ==
  ASSUME IInv, run # None, NEW t \in Tasks, Collect(t)
  PROVE  IInv'
<1>. DEFINE d == run.dir
            rec == files[d][t]
            recs == With(t, rec, records)
            new == Payload(run.identity, provenance, recs)
<1>1. /\ stage[t] = "recorded" /\ records' = recs
      /\ result' = [result EXCEPT ![d] = new]
      /\ stage' = [stage EXCEPT ![t] = "none"]
      /\ UNCHANGED <<files, run, provenance, backend, free>>
  BY DEF Collect
<1>2. /\ d \in Dirs /\ run.identity \in Identities /\ run.source \in Dirs \cup {None}
      /\ files[d] \in RecordFiles /\ records \in RecordFiles /\ provenance \in SUBSET Identities
  BY DEF IInv, EvalTypeOK, Runs
<1>3. t \in DOMAIN files[d] /\ t \notin DOMAIN records
  BY <1>1 DEF IInv, Stage
<1>4. rec \in TaskRecord
  BY <1>2, <1>3, FileType
<1>5. Believable(files, d, run.identity, provenance, records)
  BY DEF IInv, Memory
<1>. HIDE DEF rec
<1>6. /\ recs \in RecordFiles /\ DOMAIN recs = DOMAIN records \cup {t} /\ recs[t] = rec
      /\ \A u \in DOMAIN records : recs[u] = records[u]
  <2>1. /\ With(t, rec, records) \in RecordFiles
        /\ DOMAIN With(t, rec, records) = DOMAIN records \cup {t}
        /\ With(t, rec, records)[t] = rec
        /\ \A u \in DOMAIN records \ {t} : With(t, rec, records)[u] = records[u]
    BY <1>2, <1>4, WithType
  <2>. QED
    BY <2>1, <1>3
<1>. HIDE DEF recs, d
<1>7. Believable(files, d, run.identity, provenance, recs)
  BY <1>2, <1>3, <1>5, <1>6 DEF Believable, OnDisk, rec
<1>8. new \in Results /\ Sound(files, d, new)
  BY <1>2, <1>6, <1>7, PayloadType
<1>. HIDE DEF new
<1>9. EvalTypeOK'
  BY <1>1, <1>2, <1>6, <1>8 DEF IInv, EvalTypeOK
<1>10. Disk'
  BY <1>1, <1>2, <1>8 DEF IInv, EvalTypeOK, Disk
<1>11. Memory'
  <2>1. result'[d] = Payload(run.identity, provenance, recs)
    BY <1>1, <1>2 DEF IInv, EvalTypeOK, new
  <2>. QED
    BY <1>1, <1>7, <2>1 DEF Memory, d
<1>12. \A u \in Tasks : Stage(u)'
  BY <1>1, <1>2, <1>6 DEF IInv, EvalTypeOK, Stage, Working
<1>13. Continued'
  BY <1>1, <1>2, <1>6 DEF IInv, EvalTypeOK, Continued, SourceWork, d
<1>14. Slots'
  <2>1. \A q : Serving(q)' = Serving(q)
    BY <1>1 DEF Serving, IInv, EvalTypeOK
  <2>2. InStage({"entered", "running"})' = InStage({"entered", "running"})
    BY <1>1 DEF InStage, IInv, EvalTypeOK
  <2>. QED
    BY <1>1, <2>1, <2>2 DEF IInv, Slots
<1>15. Dead'
  BY <1>1 DEF Dead
<1>. QED
  BY <1>9, <1>10, <1>11, <1>12, <1>13, <1>14, <1>15 DEF IInv

-------------------------------------------------------------------------------
(* Theorems. *)

\* Every step keeps the invariant.
LEMMA NextKeeps == IInv /\ [Next]_vars => IInv'
<1>. SUFFICES ASSUME IInv, [Next]_vars PROVE IInv'
  OBVIOUS
<1>1. CASE Operator
  BY <1>1, FreshKeeps, ResumedKeeps DEF Operator
<1>2. CASE Stop \/ FinishRun
  BY <1>2, EndKeeps
<1>3. ASSUME NEW t \in Tasks, Coroutine(t) PROVE IInv'
  <2>1. CASE EnterSemaphore(t)
    BY <2>1, EnterKeeps
  <2>2. CASE \E r \in Replicas : GetBackend(t, r)
    BY <2>2, TakeKeeps
  <2>3. CASE TaskSucceeds(t) \/ TaskFails(t)
    BY <2>3, RecordKeeps, CoroutineIsAlive DEF TaskSucceeds, TaskFails, Record
  <2>4. CASE Collect(t)
    BY <2>4, CollectKeeps, CoroutineIsAlive DEF Collect
  <2>. QED
    BY <1>3, <2>1, <2>2, <2>3, <2>4 DEF Coroutine
<1>4. CASE UNCHANGED vars
  <2>1. /\ files' = files /\ result' = result /\ run' = run /\ provenance' = provenance
        /\ records' = records /\ stage' = stage /\ backend' = backend /\ free' = free
    BY <1>4 DEF vars
  <2>2. Disk' /\ Memory' /\ Continued'
    BY <2>1, FilesStay
  <2>3. EvalTypeOK' /\ Dead' /\ \A t \in Tasks : Stage(t)'
    BY <2>1 DEF IInv, EvalTypeOK, Dead, Stage
  <2>4. Slots'
    BY <2>1 DEF IInv, Slots, Serving, InStage
  <2>. QED
    BY <2>2, <2>3, <2>4 DEF IInv
<1>. QED
  BY <1>1, <1>2, <1>3, <1>4 DEF Next

\* The invariant of the evaluator, its files and its continuations.
THEOREM EvalInvariance == Spec => []IInv
BY InitHolds, NextKeeps, PTL DEF Spec

\* The types of the files on disk and of the live process.
THEOREM EvalTypeCorrect == Spec => []EvalTypeOK
<1>1. IInv => EvalTypeOK
  BY DEF IInv
<1>. QED
  BY <1>1, EvalInvariance, PTL

\* Every result.json only reports records that exist as files, over kills,
\* restarts and chains of continuations (codex_eval_entrypoint.py:206-246).
THEOREM ResultsAreBacked == Spec => []ResultIsBacked
<1>1. IInv => ResultIsBacked
  <2>. SUFFICES ASSUME IInv, NEW d \in Dirs, result[d] # None
                PROVE  /\ \A t \in DOMAIN result[d].tasks :
                            \E e \in Dirs : t \in DOMAIN files[e] /\ files[e][t] = result[d].tasks[t]
                       /\ result[d].complete => \A t \in Tasks : \E e \in Dirs : t \in DOMAIN files[e]
    BY DEF ResultIsBacked
  <2>1. Sound(files, d, result[d])
    BY DEF IInv, Disk
  <2>2. \A t \in DOMAIN result[d].tasks : OnDisk(files, t, result[d].tasks[t])
    BY <2>1 DEF Sound, Believable
  <2>3. result[d].complete => DOMAIN result[d].tasks = Tasks
    BY <2>1 DEF Sound, Complete
  <2>. QED
    BY <2>2, <2>3 DEF OnDisk
<1>. QED
  BY <1>1, EvalInvariance, PTL

\* A run can be continued from whatever a kill leaves behind
\* (codex_eval_entrypoint.py:144-203).
THEOREM ResultsAreResumable == Spec => []EveryResultIsResumable
<1>1. IInv => EveryResultIsResumable
  <2>. SUFFICES ASSUME IInv, NEW d \in Dirs, result[d] # None PROVE SourceIsValid(d)
    BY DEF EveryResultIsResumable
  <2>1. Believable(files, d, result[d].fingerprint, result[d].inherited, result[d].tasks)
    BY DEF IInv, Disk, Sound
  <2>2. Fingerprints(files[d]) \subseteq {result[d].fingerprint}
    BY <2>1 DEF Fingerprints, Believable
  <2>3. Fingerprints(result[d].tasks) \subseteq {result[d].fingerprint} \cup result[d].inherited
    BY <2>1 DEF Fingerprints, Believable
  <2>. QED
    BY <2>1, <2>2, <2>3 DEF SourceIsValid, Loadable, Believable
<1>. QED
  BY <1>1, EvalInvariance, PTL

\* No result mixes evaluation semantics, over any chain of continuations
\* (codex_eval_entrypoint.py:149-178).
THEOREM SemanticsStayApart == Spec => []SemanticsNeverMixed
<1>1. IInv => SemanticsNeverMixed
  BY DEF IInv, Disk, Sound, Believable, SemanticsNeverMixed, Fingerprints
<1>. QED
  BY <1>1, EvalInvariance, PTL

\* What a source had finished is never evaluated again
\* (codex_eval_entrypoint.py:179-191,486-488).
THEOREM WorkIsInherited == Spec => []FinishedWorkIsNotRepeated
<1>1. IInv => FinishedWorkIsNotRepeated
  <2>. SUFFICES ASSUME IInv, run # None, run.source # None,
                       NEW t \in DOMAIN files[run.source] \cup DOMAIN result[run.source].tasks
                PROVE  t \notin InStage({"created", "entered", "running"}) /\ t \notin DOMAIN files[run.dir]
    BY DEF FinishedWorkIsNotRepeated
  <2>1. t \in DOMAIN records /\ t \notin DOMAIN files[run.dir]
    BY DEF IInv, Continued, SourceWork
  <2>. QED
    BY <2>1 DEF IInv, Stage, InStage, Working
<1>. QED
  BY <1>1, EvalInvariance, PTL

\* A coroutine in the semaphore finds a slot: the concurrency main() accepts is
\* no more than there are slots, and no slot is lost
\* (codex_eval_entrypoint.py:260-262,345-346).
THEOREM SlotsAreEnough == Spec => []SlotsSuffice
<1>1. IInv => SlotsSuffice
  <2>. SUFFICES ASSUME IInv, run # None
                PROVE  /\ \A r \in Replicas :
                            free[r] + Cardinality({t \in InStage({"running"}) : backend[t] = r}) = TasksPerReplica
                       /\ InStage({"entered"}) # {} => \E r \in Replicas : free[r] > 0
    BY DEF SlotsSuffice
  <2>1. \A r \in Replicas : {t \in InStage({"running"}) : backend[t] = r} = Serving(r)
    BY DEF InStage, Serving
  <2>2. \A r \in Replicas : free[r] \in Nat /\ free[r] + Cardinality(Serving(r)) = TasksPerReplica
    BY DEF IInv, Slots, EvalTypeOK
  <2>3. ASSUME NEW t \in InStage({"entered"}), ~ \E r \in Replicas : free[r] > 0 PROVE FALSE
    <3>1. \A r \in Replicas : Cardinality(Serving(r)) = TasksPerReplica
      BY <2>2, <2>3, FiniteStages
    <3>2. Cardinality(Replicas) * TasksPerReplica <= Cardinality(InStage({"running"}))
      BY <3>1, AllSlotsServe DEF IInv
    <3>3. InStage({"running"}) \cup {t} \subseteq InStage({"entered", "running"})
          /\ t \notin InStage({"running"})
      BY DEF InStage
    <3>4. Cardinality(InStage({"running"})) + 1 <= Cardinality(InStage({"entered", "running"}))
      <4>1. Cardinality(InStage({"running"}) \cup {t}) = Cardinality(InStage({"running"})) + 1
        BY <3>3, FiniteStages, FS_AddElement
      <4>2. Cardinality(InStage({"running"}) \cup {t}) <= Cardinality(InStage({"entered", "running"}))
        BY <3>3, FiniteStages, FS_Subset
      <4>. QED
        BY <4>1, <4>2
    <3>5. Cardinality(InStage({"entered", "running"})) <= Concurrency
      BY DEF IInv, Slots
    <3>6. /\ Cardinality(Replicas) * TasksPerReplica \in Nat
          /\ Concurrency <= Cardinality(Replicas) * TasksPerReplica
      <4>1. Cardinality(Replicas) \in Nat
        BY FiniteStages, FS_CardinalityType
      <4>. QED
        BY <4>1, EvalAssumption, ConcurrencyFits
    <3>. QED
      BY <3>2, <3>4, <3>5, <3>6, FiniteStages, EvalAssumption
  <2>. QED
    BY <2>1, <2>2, <2>3
<1>. QED
  BY <1>1, EvalInvariance, PTL
===============================================================================
