------------------------ MODULE PrefetchTrainerProofs -------------------------
(***************************************************************************)
(* Proofs about PrefetchTrainer, for every batch size, number of           *)
(* mini-batches, save cadence, off-policy threshold, and number of rollout *)
(* failures and trainer restarts.                                          *)
(***************************************************************************)
EXTENDS PrefetchTrainer, FiniteSetTheorems, TLAPS

-------------------------------------------------------------------------------
(* The queue operators. *)

\* Fetching n rows onto a queue of prompt markers yields a queue of prompt
\* markers over the old and the fetched rows (_add_prompts_to_generate).
LEMMA WithFetchedType ==
  ASSUME NEW D \in SUBSET Nat, NEW rest \in [D -> Marker], NEW n \in Nat,
         cursor \in Nat, global_steps \in Nat
  PROVE  /\ DOMAIN WithFetched(rest, n) = D \cup (cursor .. (cursor + n - 1))
         /\ DOMAIN WithFetched(rest, n) \in SUBSET Nat
         /\ IsFiniteSet(D) => IsFiniteSet(DOMAIN WithFetched(rest, n))
         /\ WithFetched(rest, n) \in [DOMAIN WithFetched(rest, n) -> Marker]
<1>1. DOMAIN rest = D
  OBVIOUS
<1>2. DOMAIN WithFetched(rest, n) = D \cup (cursor .. (cursor + n - 1))
  BY <1>1 DEF WithFetched, Fetched
<1>3. D \cup (cursor .. (cursor + n - 1)) \in SUBSET Nat
  OBVIOUS
<1>4. \A r \in D \cup (cursor .. (cursor + n - 1)) : WithFetched(rest, n)[r] \in Marker
  BY <1>1 DEF WithFetched, Fetched, Marker
<1>5. WithFetched(rest, n) = [r \in DOMAIN WithFetched(rest, n) |-> WithFetched(rest, n)[r]]
  BY <1>2, <1>1 DEF WithFetched, Fetched
<1>6. IsFiniteSet(cursor .. (cursor + n - 1))
  BY FS_Interval
<1>7. IsFiniteSet(D) => IsFiniteSet(D \cup (cursor .. (cursor + n - 1)))
  BY <1>6, FS_Union
<1>. QED
  BY <1>2, <1>3, <1>4, <1>5, <1>7

\* Taking markers out of the queue leaves the rest untouched.
LEMMA RestrictType ==
  ASSUME NEW D \in SUBSET Nat, NEW f \in [D -> Marker], NEW S \in SUBSET D
  PROVE  /\ DOMAIN Restrict(f, S) = S
         /\ Restrict(f, S) \in [S -> Marker]
  BY DEF Restrict

\* The size of a step's batch is a natural number.
LEMMA BatchType == Batch \in Nat
  BY TrainerAssumption DEF Batch

\* A batch submission keeps the queue well formed (async_prefetch.py:67, 78).
LEMMA AddPromptsType ==
  ASSUME TypeOK, AddPrompts(Batch)
  PROVE  QueueOK' /\ cursor' \in Nat
<1>. DEFINE D == DOMAIN store
<1>1. D \in SUBSET Nat /\ store \in [D -> Marker] /\ IsFiniteSet(D)
  BY DEF TypeOK, QueueOK, Outstanding
<1>. HIDE DEF D
<1>2. /\ DOMAIN WithFetched(store, Batch) \in SUBSET Nat
      /\ IsFiniteSet(DOMAIN WithFetched(store, Batch))
      /\ WithFetched(store, Batch) \in [DOMAIN WithFetched(store, Batch) -> Marker]
  BY <1>1, WithFetchedType, BatchType DEF TypeOK
<1>. QED
  BY <1>2, BatchType DEF AddPrompts, QueueOK, Outstanding, TypeOK

-------------------------------------------------------------------------------
(* Type correctness. *)

\* The trainer starts well typed.
LEMMA InitType == Init => TypeOK
<1> SUFFICES ASSUME Init  PROVE TypeOK
  OBVIOUS
<1>1. DOMAIN store = {} /\ store \in [{} -> Marker]
  BY DEF Init, EmptyQueue
<1>2. saved \in Checkpoints
  BY DEF Init, NoCheckpoint, Checkpoints
<1>3. IsFiniteSet({})
  BY FS_EmptySet
<1>. QED
  BY <1>1, <1>2, <1>3, TrainerAssumption DEF Init, TypeOK, QueueOK, Outstanding

\* No trainer call, rollout event or restart leaves the types.
LEMMA NextType == TypeOK /\ [Next]_vars => TypeOK'
<1> SUFFICES ASSUME TypeOK, [Next]_vars
             PROVE  TypeOK'
  OBVIOUS
<1> USE TrainerAssumption DEF TypeOK
<1>0. UNCHANGED store => QueueOK'
  BY DEF QueueOK, Outstanding
<1>1. ASSUME NEW r \in Outstanding, NEW o \in {"finished", "failure"}, Settle(r, o)
      PROVE  TypeOK' \/ failures' \notin Nat
  <2>1. store[r] \in Marker /\ [store[r] EXCEPT !.status = o] \in Marker
    BY DEF Marker, QueueOK, Outstanding
  <2>2. store' = [store EXCEPT ![r] = [store[r] EXCEPT !.status = o]]
    BY <1>1 DEF Settle
  <2>3. QueueOK'
    BY <2>1, <2>2 DEF QueueOK, Outstanding
  <2>. QED
    BY <1>1, <2>3 DEF Settle
<1>a. [step |-> global_steps, cursor |-> cursor,
       trained |-> trained, evicted |-> evicted] \in Checkpoints
  BY DEF Checkpoints
<1>2. CASE FinishRollout
  BY <1>1, <1>2 DEF FinishRollout
<1>3. CASE FailRollout
  BY <1>1, <1>3 DEF FailRollout
<1>4. CASE AddBatchToGenerate
  <2>1. QueueOK'
    BY <1>0, <1>4, AddPromptsType DEF AddBatchToGenerate
  <2>. QED
    BY <1>4, <2>1, BatchType DEF AddBatchToGenerate, AddPrompts
<1>5. CASE RefillEvicted
  <2>1. Unusable \in SUBSET Outstanding /\ Outstanding \ Unusable \in SUBSET Outstanding
    BY DEF Unusable
  <2>2. Cardinality(Unusable) \in Nat /\ IsFiniteSet(Outstanding \ Unusable)
    BY <2>1, FS_Subset, FS_CardinalityType DEF QueueOK
  <2>3. Restrict(store, Outstanding \ Unusable) \in [Outstanding \ Unusable -> Marker]
    BY <2>1, RestrictType DEF QueueOK
  <2>4. QueueOK'
    BY <1>5, <2>1, <2>2, <2>3, WithFetchedType DEF RefillEvicted, Replacements, QueueOK, Outstanding
  <2>5. evicted' \in SUBSET Nat
    BY <1>5, <2>1 DEF RefillEvicted, Replacements, QueueOK
  <2>. QED
    BY <1>5, <2>2, <2>4, <2>5 DEF RefillEvicted, Replacements
<1>6. CASE Sample
  <2>1. PICK S \in SUBSET Finished : batch' = S /\ store' = Restrict(store, Outstanding \ S)
    BY <1>6 DEF Sample
  <2>2. S \in SUBSET Outstanding /\ IsFiniteSet(Outstanding \ S)
    BY <2>1, FS_Subset DEF Finished, QueueOK
  <2>3. QueueOK'
    BY <2>1, <2>2, RestrictType DEF QueueOK, Outstanding
  <2>4. batch' \in SUBSET Nat
    BY <2>1, <2>2 DEF QueueOK
  <2>. QED
    BY <1>6, <2>3, <2>4 DEF Sample
<1>7. CASE OnSampleEnd
  <2>1. QueueOK'
    BY <1>0, <1>7, AddPromptsType DEF OnSampleEnd, FlagAfterPrefetch, PrefetchDue
  <2>. QED
    BY <1>7, <2>1, BatchType DEF OnSampleEnd, FlagAfterPrefetch, PrefetchDue, AddPrompts
<1>8. CASE UpdateActor
  BY <1>0, <1>8 DEF UpdateActor
<1>9. CASE FitSave
  <2>1. saved' \in Checkpoints
    BY <1>9, <1>a DEF FitSave, SaveCheckpoint
  <2>. QED
    BY <1>0, <1>9, <2>1 DEF FitSave, SaveCheckpoint
<1>10. CASE OnStepEnd
  <2>1. saved' \in Checkpoints
    BY <1>10, <1>a DEF OnStepEnd, SaveCheckpoint
  <2>. QED
    BY <1>0, <1>10, <2>1 DEF OnStepEnd, SaveCheckpoint
<1>11. CASE AdvanceStep
  BY <1>0, <1>11 DEF AdvanceStep
<1>12. CASE CrashAndResume
  <2>1. QueueOK'
    BY <1>12, FS_EmptySet DEF CrashAndResume, ResumeStep, ResumeCursor, EmptyQueue, QueueOK, Outstanding
  <2>2. /\ saved.step \in Nat /\ saved.cursor \in Nat
        /\ saved.trained \in SUBSET Nat /\ saved.evicted \in SUBSET Nat
    BY DEF Checkpoints
  <2>. QED
    BY <1>12, <2>1, <2>2 DEF CrashAndResume, ResumeStep, ResumeCursor
<1>13. CASE UNCHANGED vars
  BY <1>0, <1>13 DEF vars
<1>. QED
  BY <1>2, <1>3, <1>4, <1>5, <1>6, <1>7, <1>8, <1>9, <1>10, <1>11, <1>12, <1>13
     DEF Next, Trainer, Rollouts

\* Every reachable state of the trainer is well typed.
THEOREM TypeCorrect == Spec => []TypeOK
  BY InitType, NextType, PTL DEF Spec

-------------------------------------------------------------------------------
(* The inductive invariant.  The queue is drained at a save because its size *)
(* is known at every point of the step: the mini-batches of this step that   *)
(* are not sampled yet, and one more batch if the flag is set - replacing a  *)
(* dropped row changes neither.                                              *)

Unsampled ==
  CASE pc = "sample" -> SyncSteps - local_trigger_step
    [] pc \in {"sample_end", "update"} -> SyncSteps - local_trigger_step - 1
    [] OTHER -> 0

Sampling == {"sample", "sample_end", "update"}

AfterSampling == {"fit_save", "step_end", "advance"}

Phase ==
  /\ pc # "refused"
  /\ pc \in Sampling => local_trigger_step < SyncSteps
  /\ pc \in AfterSampling => local_trigger_step = SyncSteps
  /\ pc # "done" => global_steps <= TotalSteps
  /\ pc = "done" => global_steps = TotalSteps + 1 /\ prefetched = 0
  /\ saved.step <= TotalSteps

FlagIsOrderly ==
  prefetched = 1 =>
    /\ Prefetch
    /\ pc # "add" => ~ Boundary(global_steps)
    /\ pc \in {"sample", "sample_end"} => local_trigger_step > 0

QueueCount ==
  Cardinality(Outstanding) = Unsampled * MiniBatch + prefetched * Batch

TrainedCount ==
  /\ Cardinality(batch) = IF pc \in {"sample_end", "update"} THEN MiniBatch ELSE 0
  /\ Cardinality(trained) =
       (global_steps - 1) * Batch
         + (IF pc \in {"add", "done"} THEN 0 ELSE local_trigger_step) * MiniBatch

SavedCut ==
  /\ ConsistentCut
  /\ saved.trained \cap saved.evicted = {}

IInv == TypeOK /\ RowAccounting /\ Phase /\ FlagIsOrderly /\ QueueCount
          /\ TrainedCount /\ SavedCut

\* Counting mini-batches: one more of them is one more multiple.
LEMMA OneMore ==
  /\ \A a, m \in Int : (a + 1) * m = a * m + m
  /\ \A a, m \in Int : (a - 1) * m = a * m - m
  /\ \A m \in Int : 0 * m = 0 /\ 1 * m = m
  /\ Batch = SyncSteps * MiniBatch /\ Batch \in Nat
  BY TrainerAssumption DEF Batch

\* Sizes of disjoint finite sets add up.
LEMMA DisjointUnion ==
  ASSUME NEW S, NEW T, IsFiniteSet(S), IsFiniteSet(T), S \cap T = {}
  PROVE  /\ IsFiniteSet(S \cup T)
         /\ Cardinality(S \cup T) = Cardinality(S) + Cardinality(T)
         /\ Cardinality(S) \in Nat /\ Cardinality(T) \in Nat
<1>1. Cardinality(S \cap T) = 0
  BY FS_EmptySet
<1>2. Cardinality(S) \in Nat /\ Cardinality(T) \in Nat
  BY FS_CardinalityType
<1>3. /\ IsFiniteSet(S \cup T)
      /\ Cardinality(S \cup T) = Cardinality(S) + Cardinality(T) - Cardinality(S \cap T)
  BY FS_Union
<1>. QED
  BY <1>1, <1>2, <1>3

\* Every set of rows the trainer holds is finite.
LEMMA FiniteRows ==
  ASSUME TypeOK, RowAccounting
  PROVE  /\ IsFiniteSet(Outstanding) /\ IsFiniteSet(batch)
         /\ IsFiniteSet(trained) /\ IsFiniteSet(evicted)
<1>1. IsFiniteSet(0 .. (cursor - 1))
  BY FS_Interval DEF TypeOK
<1>2. /\ Outstanding \in SUBSET (0 .. (cursor - 1)) /\ batch \in SUBSET (0 .. (cursor - 1))
      /\ trained \in SUBSET (0 .. (cursor - 1)) /\ evicted \in SUBSET (0 .. (cursor - 1))
  BY DEF RowAccounting
<1>. QED
  BY <1>1, <1>2, FS_Subset

\* The markers of n fetched rows are new: the queue grows by exactly n.
LEMMA FetchCount ==
  ASSUME cursor \in Nat, NEW n \in Nat, NEW D \in SUBSET (0 .. (cursor - 1)),
         NEW rest, DOMAIN rest = D
  PROVE  /\ DOMAIN WithFetched(rest, n) = D \cup (cursor .. (cursor + n - 1))
         /\ Cardinality(DOMAIN WithFetched(rest, n)) = Cardinality(D) + n
         /\ Cardinality(D) \in Nat
<1>1. DOMAIN WithFetched(rest, n) = D \cup (cursor .. (cursor + n - 1))
  BY DEF WithFetched, Fetched
<1>2. IsFiniteSet(D)
  <2>1. IsFiniteSet(0 .. (cursor - 1))
    BY FS_Interval
  <2>. QED
    BY <2>1, FS_Subset
<1>3. /\ IsFiniteSet(cursor .. (cursor + n - 1))
      /\ Cardinality(cursor .. (cursor + n - 1)) = n
  BY FS_Interval
<1>4. D \cap (cursor .. (cursor + n - 1)) = {}
  OBVIOUS
<1>5. Cardinality(D \cup (cursor .. (cursor + n - 1))) = Cardinality(D) + n
  <2>1. Cardinality(D) \in Nat /\ Cardinality(D \cap (cursor .. (cursor + n - 1))) = 0
    BY <1>2, <1>4, FS_CardinalityType, FS_EmptySet
  <2>2. Cardinality(D \cup (cursor .. (cursor + n - 1)))
          = Cardinality(D) + Cardinality(cursor .. (cursor + n - 1))
              - Cardinality(D \cap (cursor .. (cursor + n - 1)))
    BY <1>2, <1>3, FS_Union
  <2>. QED
    BY <1>3, <2>1, <2>2
<1>. QED
  BY <1>1, <1>2, <1>5, FS_CardinalityType

\* A submitted batch keeps the row accounting and adds one batch to the queue.
LEMMA AddPromptsCount ==
  ASSUME TypeOK, RowAccounting, AddPrompts(Batch), UNCHANGED <<batch, trained, evicted>>
  PROVE  RowAccounting' /\ Cardinality(Outstanding') = Cardinality(Outstanding) + Batch
<1>1. Outstanding \in SUBSET (0 .. (cursor - 1))
  BY DEF RowAccounting
<1>2. /\ Outstanding' = Outstanding \cup (cursor .. (cursor + Batch - 1))
      /\ Cardinality(Outstanding') = Cardinality(Outstanding) + Batch
  BY <1>1, FetchCount, BatchType DEF TypeOK, AddPrompts, Outstanding
<1>3. cursor' = cursor + Batch /\ cursor \in Nat /\ Batch \in Nat
  BY BatchType DEF AddPrompts, TypeOK
<1>. QED
  BY <1>2, <1>3 DEF RowAccounting

\* The empty queue and the missing checkpoint satisfy the invariant.
LEMMA InitIInv == Init => IInv
<1> SUFFICES ASSUME Init  PROVE IInv
  OBVIOUS
<1>1. TypeOK
  BY InitType
<1>2. Outstanding = {} /\ Cardinality({}) = 0
  BY FS_EmptySet DEF Init, Outstanding, EmptyQueue
<1>3. saved.step = 0 /\ saved.cursor = 0 /\ saved.trained = {} /\ saved.evicted = {}
  BY DEF Init, NoCheckpoint
<1>4. RowAccounting /\ SavedCut
  BY <1>2, <1>3, OneMore DEF Init, RowAccounting, SavedCut, ConsistentCut
<1>5. Phase /\ FlagIsOrderly
  BY <1>3, TrainerAssumption DEF Init, Phase, FlagIsOrderly, Sampling, AfterSampling
<1>6. QueueCount /\ TrainedCount
  BY <1>2, OneMore, TrainerAssumption DEF Init, QueueCount, TrainedCount, Unsampled
<1>. QED
  BY <1>1, <1>4, <1>5, <1>6 DEF IInv

\* Every step is well typed; the proofs below look at the other conjuncts.
LEMMA StepType == IInv /\ Next => TypeOK'
  BY NextType DEF IInv

\* A rollout that ends changes no membership, only a status.
LEMMA RolloutInv == IInv /\ Rollouts => IInv'
<1> SUFFICES ASSUME IInv, Rollouts  PROVE IInv'
  OBVIOUS
<1>1. PICK r \in Outstanding, o \in {"finished", "failure"} : Settle(r, o)
  BY DEF Rollouts, FinishRollout, FailRollout
<1>2. Outstanding' = Outstanding
  BY <1>1 DEF Settle, Outstanding
<1>3. UNCHANGED <<global_steps, local_trigger_step, pc, prefetched, cursor,
                  batch, trained, evicted, saved>>
  BY <1>1 DEF Settle
<1>4. TypeOK'
  BY StepType DEF Next
<1>. QED
  BY <1>2, <1>3, <1>4 DEF IInv, RowAccounting, Phase, FlagIsOrderly, QueueCount,
     TrainedCount, SavedCut, ConsistentCut, Unsampled, Boundary

\* The step's batch is either the prefetched one or a fresh one, never both.
LEMMA AddBatchInv == IInv /\ AddBatchToGenerate => IInv'
<1> SUFFICES ASSUME IInv, AddBatchToGenerate  PROVE IInv'
  OBVIOUS
<1>1. TypeOK'
  BY StepType DEF Next, Trainer
<1>2. UNCHANGED <<batch, trained, evicted, saved, global_steps>>
      /\ pc = "add" /\ pc' = "sample" /\ local_trigger_step' = 0 /\ prefetched' = 0
  BY DEF AddBatchToGenerate
<1>3. Cardinality(Outstanding) = prefetched * Batch
  <2>1. Unsampled = 0
    BY <1>2 DEF Unsampled
  <2>2. 0 * MiniBatch = 0 /\ prefetched * Batch \in Int
    BY OneMore, TrainerAssumption DEF IInv, TypeOK
  <2>. QED
    BY <2>1, <2>2 DEF IInv, QueueCount
<1>4. RowAccounting' /\ Cardinality(Outstanding') = Batch
  <2>1. CASE prefetched = 1
    <3>1. UNCHANGED <<store, cursor>>
      BY <2>1 DEF AddBatchToGenerate
    <3>. QED
      BY <3>1, <1>2, <1>3, <2>1, OneMore DEF IInv, RowAccounting, Outstanding
  <2>2. CASE prefetched = 0
    <3>1. AddPrompts(Batch)
      BY <2>2 DEF AddBatchToGenerate
    <3>. QED
      BY <3>1, <1>2, <1>3, <2>2, AddPromptsCount, OneMore DEF IInv
  <2>. QED
    BY <2>1, <2>2 DEF IInv, TypeOK
<1>5. Phase' /\ FlagIsOrderly'
  BY <1>2, TrainerAssumption
     DEF IInv, Phase, FlagIsOrderly, Sampling, AfterSampling
<1>6. QueueCount'
  BY <1>2, <1>4, OneMore, TrainerAssumption DEF QueueCount, Unsampled
<1>7. TrainedCount' /\ SavedCut'
  BY <1>2, OneMore, TrainerAssumption DEF IInv, TrainedCount, SavedCut, ConsistentCut
<1>. QED
  BY <1>1, <1>4, <1>5, <1>6, <1>7 DEF IInv

\* Dropping rows and fetching as many keeps the size of the queue.
LEMMA RefillInv == IInv /\ RefillEvicted => IInv'
<1> SUFFICES ASSUME IInv, RefillEvicted  PROVE IInv'
  OBVIOUS
<1>1. TypeOK'
  BY StepType DEF Next, Trainer
<1> DEFINE U == Unusable
           n == Cardinality(U)
           D == Outstanding \ U
<1>2. /\ U \in SUBSET Outstanding
      /\ store' = WithFetched(Restrict(store, D), n) /\ cursor' = cursor + n
      /\ evicted' = evicted \cup U /\ pc = "sample"
      /\ UNCHANGED <<global_steps, local_trigger_step, pc, prefetched, batch,
                     trained, saved>>
  BY DEF RefillEvicted, Replacements, Unusable
<1> HIDE DEF U
<1>3. /\ IsFiniteSet(Outstanding) /\ IsFiniteSet(U) /\ n \in Nat
      /\ Cardinality(D) = Cardinality(Outstanding) - n
  <2>1. IsFiniteSet(Outstanding) /\ IsFiniteSet(U) /\ n \in Nat
    BY <1>2, FiniteRows, FS_Subset, FS_CardinalityType DEF IInv
  <2>2. Outstanding \cap U = U
    BY <1>2
  <2>. QED
    BY <2>1, <2>2, FS_Difference
<1>4. D \in SUBSET (0 .. (cursor - 1)) /\ DOMAIN Restrict(store, D) = D /\ cursor \in Nat
  BY DEF IInv, RowAccounting, Restrict, TypeOK
<1> HIDE DEF n, D
<1>5. /\ Outstanding' = D \cup (cursor .. (cursor + n - 1))
      /\ Cardinality(Outstanding') = Cardinality(D) + n
      /\ Cardinality(D) \in Nat
  BY <1>2, <1>3, <1>4, FetchCount DEF Outstanding
<1>6. RowAccounting'
  <2>1. 0 .. (cursor' - 1) = (0 .. (cursor - 1)) \cup (cursor .. (cursor + n - 1))
    BY <1>2, <1>3, <1>4
  <2>2. (0 .. (cursor - 1)) \cap (cursor .. (cursor + n - 1)) = {}
    BY <1>4
  <2>. QED
    BY <1>2, <1>5, <2>1, <2>2 DEF IInv, RowAccounting, D
<1>7. QueueCount'
  <2>1. Cardinality(Outstanding') = Cardinality(Outstanding)
    BY <1>3, <1>5, FS_CardinalityType
  <2>. QED
    BY <1>2, <2>1 DEF IInv, QueueCount, Unsampled
<1>8. Phase' /\ FlagIsOrderly' /\ TrainedCount' /\ SavedCut'
  BY <1>2 DEF IInv, Phase, FlagIsOrderly, TrainedCount, SavedCut, ConsistentCut, Boundary
<1>. QED
  BY <1>1, <1>6, <1>7, <1>8 DEF IInv

\* A mini-batch moves MiniBatch rows from the queue to the actor.
LEMMA SampleInv == IInv /\ Sample => IInv'
<1> SUFFICES ASSUME IInv, Sample  PROVE IInv'
  OBVIOUS
<1>1. TypeOK'
  BY StepType DEF Next, Trainer
<1>2. PICK S \in SUBSET Outstanding :
        Cardinality(S) = MiniBatch /\ batch' = S /\ store' = Restrict(store, Outstanding \ S)
  BY DEF Sample, Finished
<1>3. /\ pc = "sample" /\ pc' = "sample_end"
      /\ UNCHANGED <<global_steps, local_trigger_step, prefetched, cursor, trained,
                     evicted, saved>>
  BY DEF Sample
<1>4. Outstanding' = Outstanding \ S
  BY <1>2 DEF Outstanding, Restrict
<1>5. batch = {}
  BY <1>3, FiniteRows, FS_EmptySet DEF IInv, TrainedCount
<1>6. RowAccounting'
  BY <1>2, <1>3, <1>4, <1>5 DEF IInv, RowAccounting
<1>7. /\ Cardinality(Outstanding') = Cardinality(Outstanding) - MiniBatch
      /\ Cardinality(Outstanding) \in Nat
  <2>1. IsFiniteSet(Outstanding) /\ Outstanding \cap S = S
    BY FiniteRows DEF IInv
  <2>. QED
    BY <1>2, <1>4, <2>1, FS_Difference, FS_CardinalityType
<1>8. QueueCount'
  <2>1. /\ Unsampled = SyncSteps - local_trigger_step /\ Unsampled \in Int
        /\ Unsampled' = Unsampled - 1
    BY <1>3, TrainerAssumption DEF Unsampled, IInv, TypeOK
  <2>2. Unsampled' * MiniBatch = Unsampled * MiniBatch - MiniBatch
    BY <2>1, OneMore, TrainerAssumption
  <2>. QED
    BY <1>3, <1>7, <2>1, <2>2, OneMore, TrainerAssumption DEF IInv, QueueCount, TypeOK
<1>9. Phase' /\ FlagIsOrderly' /\ TrainedCount' /\ SavedCut'
  BY <1>2, <1>3 DEF IInv, Phase, FlagIsOrderly, TrainedCount, SavedCut, ConsistentCut,
     Sampling, AfterSampling, Boundary
<1>. QED
  BY <1>1, <1>6, <1>8, <1>9 DEF IInv

\* The prefetch adds one batch, and only when none is ahead already.
LEMMA SampleEndInv == IInv /\ OnSampleEnd => IInv'
<1> SUFFICES ASSUME IInv, OnSampleEnd  PROVE IInv'
  OBVIOUS
<1>1. TypeOK'
  BY StepType DEF Next, Trainer
<1>2. /\ pc = "sample_end" /\ pc' = "update"
      /\ UNCHANGED <<global_steps, local_trigger_step, batch, trained, evicted, saved>>
  BY DEF OnSampleEnd, FlagAfterPrefetch, PrefetchDue
<1>3. Unsampled' = Unsampled /\ Unsampled * MiniBatch \in Int
  BY <1>2, TrainerAssumption DEF Unsampled, IInv, TypeOK
<1>4. Phase' /\ TrainedCount' /\ SavedCut'
  BY <1>2 DEF IInv, Phase, TrainedCount, SavedCut, ConsistentCut, Sampling, AfterSampling
<1>5. CASE Prefetch /\ local_trigger_step = 0 /\ ~ Boundary(global_steps)
  <2>1. AddPrompts(Batch) /\ prefetched' = 1 /\ prefetched = 0
    BY <1>2, <1>5 DEF OnSampleEnd, FlagAfterPrefetch, PrefetchDue, IInv, FlagIsOrderly, TypeOK
  <2>2. RowAccounting' /\ Cardinality(Outstanding') = Cardinality(Outstanding) + Batch
    BY <1>2, <2>1, AddPromptsCount DEF IInv
  <2>3. QueueCount'
    BY <1>3, <2>1, <2>2, OneMore DEF IInv, QueueCount
  <2>4. FlagIsOrderly'
    BY <1>2, <1>5 DEF FlagIsOrderly, Boundary
  <2>. QED
    BY <1>1, <1>4, <2>2, <2>3, <2>4 DEF IInv
<1>6. CASE ~ (Prefetch /\ local_trigger_step = 0 /\ ~ Boundary(global_steps))
  <2>1. UNCHANGED <<cursor, store, prefetched>>
    BY <1>6 DEF OnSampleEnd, FlagAfterPrefetch, PrefetchDue
  <2>. QED
    BY <1>1, <1>2, <1>3, <1>4, <2>1
       DEF IInv, RowAccounting, QueueCount, FlagIsOrderly, Outstanding, Boundary
<1>. QED
  BY <1>5, <1>6

\* Training a mini-batch moves its rows into the model.
LEMMA UpdateInv == IInv /\ UpdateActor => IInv'
<1> SUFFICES ASSUME IInv, UpdateActor  PROVE IInv'
  OBVIOUS
<1>1. TypeOK'
  BY StepType DEF Next, Trainer
<1>2. /\ pc = "update" /\ trained' = trained \cup batch /\ batch' = {}
      /\ local_trigger_step' = local_trigger_step + 1 /\ local_trigger_step \in Nat
      /\ pc' = IF local_trigger_step' < SyncSteps THEN "sample" ELSE "fit_save"
      /\ UNCHANGED <<global_steps, prefetched, cursor, store, evicted, saved>>
  BY DEF UpdateActor, IInv, TypeOK
<1>3. RowAccounting' /\ Outstanding' = Outstanding
  BY <1>2 DEF IInv, RowAccounting, Outstanding
<1>4. local_trigger_step < SyncSteps /\ SyncSteps \in Nat
  BY <1>2, TrainerAssumption DEF IInv, Phase, Sampling
<1>5. QueueCount'
  <2>1. Unsampled' = Unsampled
    BY <1>2, <1>4 DEF Unsampled
  <2>. QED
    BY <1>2, <1>3, <2>1 DEF IInv, QueueCount
<1>6. TrainedCount'
  <2>1. Cardinality(trained') = Cardinality(trained) + MiniBatch
    <3>1. IsFiniteSet(trained) /\ IsFiniteSet(batch) /\ trained \cap batch = {}
      BY FiniteRows DEF IInv, RowAccounting
    <3>2. Cardinality(trained \cap batch) = 0 /\ Cardinality(batch) = MiniBatch
      BY <1>2, <3>1, FS_EmptySet DEF IInv, TrainedCount
    <3>3. Cardinality(trained) \in Nat
      BY <3>1, FS_CardinalityType
    <3>4. Cardinality(trained \cup batch)
            = Cardinality(trained) + Cardinality(batch) - Cardinality(trained \cap batch)
      BY <3>1, FS_Union
    <3>. QED
      BY <1>2, <3>2, <3>3, <3>4, TrainerAssumption
  <2>2. Cardinality(trained) = (global_steps - 1) * Batch + local_trigger_step * MiniBatch
    BY <1>2 DEF IInv, TrainedCount
  <2>3. local_trigger_step' * MiniBatch = local_trigger_step * MiniBatch + MiniBatch
    BY <1>2, OneMore, TrainerAssumption
  <2>4. /\ (global_steps - 1) * Batch \in Int /\ local_trigger_step * MiniBatch \in Int
        /\ MiniBatch \in Int
    BY <1>2, OneMore, TrainerAssumption DEF IInv, TypeOK
  <2>5. Cardinality(batch') = 0
    BY <1>2, FS_EmptySet
  <2>. QED
    BY <1>2, <2>1, <2>2, <2>3, <2>4, <2>5 DEF TrainedCount
<1>7. Phase' /\ FlagIsOrderly' /\ SavedCut'
  BY <1>2, <1>4 DEF IInv, Phase, FlagIsOrderly, SavedCut, ConsistentCut, Sampling,
     AfterSampling, Boundary
<1>. QED
  BY <1>1, <1>3, <1>5, <1>6, <1>7 DEF IInv

\* Both save points are boundaries, so no batch is ahead when they are due.
LEMMA SavePointIsBoundary ==
  \A s \in Nat : RegularSave(s) \/ EarlySave(s) => Boundary(s)
  BY TrainerAssumption DEF RegularSave, EarlySave, Boundary

\* At a boundary, once every mini-batch is trained, nothing is in flight and
\* the model has consumed exactly the rows below the dataloader position.
LEMMA Drained ==
  ASSUME IInv, pc \in {"fit_save", "step_end"}, Boundary(global_steps)
  PROVE  /\ prefetched = 0 /\ Outstanding = {} /\ batch = {}
         /\ trained \cup evicted = 0 .. (cursor - 1)
         /\ Cardinality(trained) = global_steps * Batch
<1>1. prefetched = 0
  BY DEF IInv, FlagIsOrderly, TypeOK
<1>2. Cardinality(Outstanding) = 0
  <2>1. Unsampled = 0
    BY DEF Unsampled
  <2>. QED
    BY <1>1, <2>1, OneMore, TrainerAssumption DEF IInv, QueueCount
<1>3. Outstanding = {} /\ batch = {}
  <2>1. Cardinality(batch) = 0
    BY DEF IInv, TrainedCount
  <2>. QED
    BY <1>2, <2>1, FiniteRows, FS_EmptySet DEF IInv
<1>4. trained \cup evicted = 0 .. (cursor - 1)
  BY <1>3 DEF IInv, RowAccounting
<1>5. Cardinality(trained) = global_steps * Batch
  <2>1. Cardinality(trained) = (global_steps - 1) * Batch + SyncSteps * MiniBatch
    BY DEF IInv, TrainedCount, Phase, AfterSampling
  <2>. QED
    BY <2>1, OneMore, TrainerAssumption DEF IInv, TypeOK
<1>. QED
  BY <1>1, <1>3, <1>4, <1>5

\* A due save goes through and records a consistent cut.
LEMMA SaveIsCut ==
  ASSUME IInv, pc \in {"fit_save", "step_end"}, Boundary(global_steps), NEW next,
         SaveCheckpoint(next)
  PROVE  pc' = next /\ SavedCut' /\ saved'.step = global_steps /\ saved'.cursor = cursor
<1>1. /\ pc' = next
      /\ saved' = [step |-> global_steps, cursor |-> cursor,
                   trained |-> trained, evicted |-> evicted]
  BY Drained DEF SaveCheckpoint
<1>2. trained \cap evicted = {}
  BY DEF IInv, RowAccounting
<1>. QED
  BY <1>1, <1>2, Drained DEF SavedCut, ConsistentCut

\* fit()'s save keeps the invariant: it is never refused and records a cut.
LEMMA FitSaveInv == IInv /\ FitSave => IInv'
<1> SUFFICES ASSUME IInv, FitSave  PROVE IInv'
  OBVIOUS
<1>1. TypeOK'
  BY StepType DEF Next, Trainer
<1>2. /\ pc = "fit_save" /\ global_steps \in Nat
      /\ UNCHANGED <<global_steps, local_trigger_step, prefetched, cursor, store,
                     batch, trained, evicted>>
  BY DEF FitSave, IInv, TypeOK
<1>3. pc' = "step_end" /\ SavedCut' /\ saved'.step <= TotalSteps
  <2>1. CASE RegularSave(global_steps)
    <3>1. Boundary(global_steps) /\ SaveCheckpoint("step_end")
      BY <1>2, <2>1, SavePointIsBoundary DEF FitSave
    <3>2. global_steps <= TotalSteps
      BY <1>2 DEF IInv, Phase
    <3>. QED
      BY <1>2, <3>1, <3>2, SaveIsCut
  <2>2. CASE ~ RegularSave(global_steps)
    BY <2>2 DEF FitSave, IInv, SavedCut, ConsistentCut, Phase
  <2>. QED
    BY <2>1, <2>2
<1>4. Phase' /\ FlagIsOrderly'
  BY <1>2, <1>3 DEF IInv, Phase, FlagIsOrderly, Sampling, AfterSampling, Boundary
<1>5. RowAccounting' /\ QueueCount' /\ TrainedCount'
  BY <1>2, <1>3 DEF IInv, RowAccounting, QueueCount, TrainedCount, Outstanding, Unsampled
<1>. QED
  BY <1>1, <1>3, <1>4, <1>5 DEF IInv

\* So does the early save of the patched on_step_end (async_prefetch.py:32-44).
LEMMA StepEndInv == IInv /\ OnStepEnd => IInv'
<1> SUFFICES ASSUME IInv, OnStepEnd  PROVE IInv'
  OBVIOUS
<1>1. TypeOK'
  BY StepType DEF Next, Trainer
<1>2. /\ pc = "step_end" /\ global_steps \in Nat
      /\ UNCHANGED <<global_steps, local_trigger_step, prefetched, cursor, store,
                     batch, trained, evicted>>
  BY DEF OnStepEnd, IInv, TypeOK
<1>3. pc' = "advance" /\ SavedCut' /\ saved'.step <= TotalSteps
  <2>1. CASE EarlySave(global_steps)
    <3>1. Boundary(global_steps) /\ SaveCheckpoint("advance")
      BY <1>2, <2>1, SavePointIsBoundary DEF OnStepEnd
    <3>2. global_steps <= TotalSteps
      BY <1>2 DEF IInv, Phase
    <3>. QED
      BY <1>2, <3>1, <3>2, SaveIsCut
  <2>2. CASE ~ EarlySave(global_steps)
    BY <2>2 DEF OnStepEnd, IInv, SavedCut, ConsistentCut, Phase
  <2>. QED
    BY <2>1, <2>2
<1>4. Phase' /\ FlagIsOrderly'
  BY <1>2, <1>3 DEF IInv, Phase, FlagIsOrderly, Sampling, AfterSampling, Boundary
<1>5. RowAccounting' /\ QueueCount' /\ TrainedCount'
  BY <1>2, <1>3 DEF IInv, RowAccounting, QueueCount, TrainedCount, Outstanding, Unsampled
<1>. QED
  BY <1>1, <1>3, <1>4, <1>5 DEF IInv

\* A finished step hands over at most the prefetched batch to the next one.
LEMMA AdvanceInv == IInv /\ AdvanceStep => IInv'
<1> SUFFICES ASSUME IInv, AdvanceStep  PROVE IInv'
  OBVIOUS
<1>1. TypeOK'
  BY StepType DEF Next, Trainer
<1>2. /\ pc = "advance" /\ global_steps' = global_steps + 1 /\ global_steps \in Nat
      /\ pc' = IF global_steps = TotalSteps THEN "done" ELSE "add"
      /\ UNCHANGED <<local_trigger_step, prefetched, cursor, store, batch, trained,
                     evicted, saved>>
  BY DEF AdvanceStep, IInv, TypeOK
<1>3. Phase'
  <2>1. CASE global_steps = TotalSteps
    <3>1. prefetched = 0
      BY <1>2, <2>1 DEF IInv, FlagIsOrderly, Boundary, TypeOK
    <3>. QED
      BY <1>2, <2>1, <3>1 DEF IInv, Phase, Sampling, AfterSampling
  <2>2. CASE global_steps # TotalSteps
    BY <1>2, <2>2, TrainerAssumption DEF IInv, Phase, Sampling, AfterSampling
  <2>. QED
    BY <2>1, <2>2
<1>4. FlagIsOrderly'
  BY <1>2, <1>3 DEF IInv, FlagIsOrderly, Phase
<1>5. QueueCount'
  <2>1. Unsampled = 0 /\ Unsampled' = 0 /\ Outstanding' = Outstanding
    BY <1>2 DEF Unsampled, Outstanding
  <2>. QED
    BY <1>2, <2>1 DEF IInv, QueueCount
<1>6. TrainedCount'
  <2>1. Cardinality(trained) = (global_steps - 1) * Batch + SyncSteps * MiniBatch
    BY <1>2 DEF IInv, TrainedCount, Phase, AfterSampling
  <2>2. Cardinality(trained) = (global_steps' - 1) * Batch + 0 * MiniBatch
    BY <1>2, <2>1, OneMore, TrainerAssumption
  <2>. QED
    BY <1>2, <2>2 DEF IInv, TrainedCount
<1>7. RowAccounting' /\ SavedCut'
  BY <1>2 DEF IInv, RowAccounting, SavedCut, ConsistentCut, Outstanding
<1>. QED
  BY <1>1, <1>3, <1>4, <1>5, <1>6, <1>7 DEF IInv

\* A restart finds an empty queue and the cut of the newest checkpoint.
LEMMA CrashInv == IInv /\ CrashAndResume => IInv'
<1> SUFFICES ASSUME IInv, CrashAndResume  PROVE IInv'
  OBVIOUS
<1>1. TypeOK'
  BY StepType DEF Next
<1>2. /\ global_steps' = saved.step + 1 /\ cursor' = saved.cursor
      /\ trained' = saved.trained /\ evicted' = saved.evicted
      /\ batch' = {} /\ prefetched' = 0 /\ local_trigger_step' = 0
      /\ pc' = (IF saved.step = TotalSteps THEN "done" ELSE "add")
      /\ saved' = saved
  BY DEF CrashAndResume, ResumeStep, ResumeCursor
<1>3. saved.step \in Nat /\ saved.cursor \in Nat
  BY DEF IInv, TypeOK, Checkpoints
<1>4. Outstanding' = {} /\ Cardinality({}) = 0
  BY FS_EmptySet DEF CrashAndResume, ResumeStep, ResumeCursor, Outstanding, EmptyQueue
<1>5. RowAccounting' /\ SavedCut'
  BY <1>2, <1>4 DEF IInv, RowAccounting, SavedCut, ConsistentCut
<1>6. Phase' /\ FlagIsOrderly'
  BY <1>2, <1>3, TrainerAssumption DEF IInv, Phase, FlagIsOrderly, Sampling, AfterSampling
<1>7. QueueCount'
  <2>1. Unsampled' = 0
    BY <1>2 DEF Unsampled
  <2>. QED
    BY <1>2, <1>4, <2>1, OneMore, TrainerAssumption DEF QueueCount
<1>8. TrainedCount'
  <2>1. Cardinality(trained') = saved.step * Batch
    BY <1>2 DEF IInv, SavedCut, ConsistentCut
  <2>2. (global_steps' - 1) * Batch + 0 * MiniBatch = saved.step * Batch
    BY <1>2, <1>3, OneMore, TrainerAssumption
  <2>. QED
    BY <1>2, <1>4, <2>1, <2>2 DEF TrainedCount
<1>. QED
  BY <1>1, <1>5, <1>6, <1>7, <1>8 DEF IInv

\* Every step of the trainer keeps the invariant.
LEMMA StepIInv == IInv /\ [Next]_vars => IInv'
<1>1. IInv /\ UNCHANGED vars => IInv'
  BY DEF vars, IInv, TypeOK, QueueOK, RowAccounting, Phase, FlagIsOrderly, QueueCount,
     TrainedCount, SavedCut, ConsistentCut, Outstanding, Unsampled, Boundary
<1>. QED
  BY <1>1, RolloutInv, AddBatchInv, RefillInv, SampleInv, SampleEndInv, UpdateInv,
     FitSaveInv, StepEndInv, AdvanceInv, CrashInv DEF Next, Trainer

\* The invariant holds in every reachable state.
LEMMA Inductive == Spec => []IInv
  BY InitIInv, StepIInv, PTL DEF Spec

-------------------------------------------------------------------------------
(* The theorems. *)

\* On no path does a checkpoint find an unconsumed prefetched row: the
\* RuntimeError of _save_checkpoint (async_prefetch.py:86-87) is unreachable.
THEOREM SavesSucceed == Spec => []SaveNeverRefused
<1>1. IInv => SaveNeverRefused
  BY DEF IInv, Phase, SaveNeverRefused
<1>. QED
  BY <1>1, Inductive, PTL

\* Across any number of restarts, every fetched row is queued, in training,
\* trained or given up, and only one of these.
THEOREM RowsAreAccountedFor == Spec => []RowAccounting
<1>1. IInv => RowAccounting
  BY DEF IInv
<1>. QED
  BY <1>1, Inductive, PTL

\* The checkpoint on disk is always a consistent cut of model and dataloader.
THEOREM CheckpointsAreCuts == Spec => []ConsistentCut
<1>1. IInv => ConsistentCut
  BY DEF IInv, SavedCut
<1>. QED
  BY <1>1, Inductive, PTL

\* The dataloader never fetches more than one batch beyond the step in hand,
\* and nothing beyond it at a boundary, however many rows were replaced.
THEOREM LookaheadIsBounded == Spec => []OneBatchLookahead
<1>1. ASSUME IInv  PROVE OneBatchLookahead
  <2>1. /\ IsFiniteSet(Outstanding) /\ IsFiniteSet(batch)
        /\ IsFiniteSet(trained) /\ IsFiniteSet(evicted)
    BY <1>1, FiniteRows DEF IInv
  <2> DEFINE O == Cardinality(Outstanding)
             B == Cardinality(batch)
             T == Cardinality(trained)
             E == Cardinality(evicted)
  <2>2. O \in Nat /\ B \in Nat /\ T \in Nat /\ E \in Nat
    BY <2>1, FS_CardinalityType
  <2>3. cursor = O + B + T + E
    <3> DEFINE Q1 == trained \cup evicted
               Q2 == batch \cup Q1
               Q3 == Outstanding \cup Q2
    <3>0. trained \cap evicted = {} /\ batch \cap Q1 = {} /\ Outstanding \cap Q2 = {}
      BY <1>1 DEF IInv, RowAccounting
    <3>1. IsFiniteSet(Q1) /\ Cardinality(Q1) = T + E
      BY <2>1, <3>0, DisjointUnion
    <3>2. IsFiniteSet(Q2) /\ Cardinality(Q2) = B + Cardinality(Q1)
      <4> HIDE DEF Q1
      <4>. QED
        BY <2>1, <3>0, <3>1, DisjointUnion
    <3>3. Cardinality(Q3) = O + Cardinality(Q2)
      <4> HIDE DEF Q2
      <4>. QED
        BY <2>1, <3>0, <3>2, DisjointUnion
    <3>4. Q3 = 0 .. (cursor - 1) /\ cursor \in Nat
      BY <1>1 DEF IInv, RowAccounting, TypeOK
    <3>5. Cardinality(0 .. (cursor - 1)) = cursor
      BY <3>4, FS_Interval
    <3> HIDE DEF Q1, Q2, Q3, O, B, T, E
    <3>. QED
      BY <2>2, <3>1, <3>2, <3>3, <3>4, <3>5
  <2>4. O + B + T = (IF pc \in {"add", "done"} THEN global_steps - 1 + prefetched
                     ELSE global_steps + prefetched) * Batch
    <3> USE TrainerAssumption DEF IInv, QueueCount, TrainedCount, Phase, Unsampled,
                                  Sampling, AfterSampling, TypeOK
    <3> DEFINE l == local_trigger_step
    <3>0. /\ l \in Nat /\ global_steps \in Nat /\ prefetched \in {0, 1}
          /\ MiniBatch \in Nat /\ Batch = SyncSteps * MiniBatch /\ SyncSteps \in Nat
      BY <1>1, OneMore
    <3>1. CASE pc \in {"add", "done"}
      <4>1. O = 0 * MiniBatch + prefetched * Batch /\ B = 0
            /\ T = (global_steps - 1) * Batch + 0 * MiniBatch
        BY <1>1, <3>1
      <4>. QED
        BY <3>0, <3>1, <4>1
    <3>2. CASE pc = "sample"
      <4>1. /\ O = (SyncSteps - l) * MiniBatch + prefetched * Batch /\ B = 0
            /\ T = (global_steps - 1) * Batch + l * MiniBatch
        BY <1>1, <3>2
      <4>. QED
        BY <3>0, <3>2, <4>1
    <3>3. CASE pc \in {"sample_end", "update"}
      <4>1. /\ O = (SyncSteps - l - 1) * MiniBatch + prefetched * Batch /\ B = MiniBatch
            /\ T = (global_steps - 1) * Batch + l * MiniBatch
        BY <1>1, <3>3
      <4>. QED
        BY <3>0, <3>3, <4>1
    <3>4. CASE pc \in AfterSampling
      <4>1. /\ O = 0 * MiniBatch + prefetched * Batch /\ B = 0
            /\ T = (global_steps - 1) * Batch + SyncSteps * MiniBatch
        BY <1>1, <3>4
      <4>. QED
        BY <3>0, <3>4, <4>1
    <3>. QED
      BY <1>1, <3>1, <3>2, <3>3, <3>4
  <2> HIDE DEF O, B, T, E
  <2>5. /\ cursor - E = O + B + T /\ Batch \in Nat /\ global_steps \in Nat
        /\ prefetched \in {0, 1}
    BY <1>1, <2>2, <2>3, BatchType DEF IInv, TypeOK
  <2>6. CASE prefetched = 1 /\ pc \notin {"add", "done"}
    <3>1. Prefetch /\ ~ Boundary(global_steps)
      BY <1>1, <2>6 DEF IInv, FlagIsOrderly
    <3>. QED
      BY <2>4, <2>5, <2>6, <3>1 DEF OneBatchLookahead, E
  <2>7. CASE ~ (prefetched = 1 /\ pc \notin {"add", "done"})
    <3>1. O + B + T <= Batch * global_steps
      BY <2>4, <2>5, <2>7
    <3>2. Batch * global_steps <= Batch * (global_steps + 1)
      BY <2>5
    <3>. QED
      BY <2>2, <2>5, <3>1, <3>2 DEF OneBatchLookahead, E
  <2>. QED
    BY <2>6, <2>7
<1>. QED
  BY <1>1, Inductive, PTL

\* The restart position never lies beyond the live dataloader position.
LEMMA CutBehindCursor == Spec => [](saved.cursor <= cursor)
<1> DEFINE Behind == saved.cursor <= cursor
<1>1. Init => Behind
  BY DEF Init, NoCheckpoint
<1>2. IInv /\ Behind /\ [Next]_vars => Behind'
  <2> SUFFICES ASSUME IInv, Behind, [Next]_vars  PROVE Behind'
    OBVIOUS
  <2>0. cursor \in Nat /\ saved.cursor \in Nat /\ Batch \in Nat
    BY BatchType DEF IInv, TypeOK, Checkpoints
  <2>1. CASE UNCHANGED <<saved, cursor>>
    BY <2>1
  <2>2. CASE AddBatchToGenerate \/ OnSampleEnd
    BY <2>0, <2>2 DEF AddBatchToGenerate, OnSampleEnd, FlagAfterPrefetch, AddPrompts
  <2>3. CASE RefillEvicted
    <3>1. Cardinality(Unusable) \in Nat
      <4>1. Unusable \in SUBSET Outstanding
        BY DEF Unusable
      <4>. QED
        BY <4>1, FiniteRows, FS_Subset, FS_CardinalityType DEF IInv
    <3>. QED
      BY <2>0, <2>3, <3>1 DEF RefillEvicted, Replacements
  <2>4. CASE FitSave \/ OnStepEnd
    <3>1. saved' = saved \/ saved' = [step |-> global_steps, cursor |-> cursor,
                                     trained |-> trained, evicted |-> evicted]
      BY <2>4 DEF FitSave, OnStepEnd, SaveCheckpoint
    <3>2. cursor' = cursor
      BY <2>4 DEF FitSave, OnStepEnd
    <3>. QED
      BY <2>0, <3>1, <3>2
  <2>5. CASE CrashAndResume
    BY <2>0, <2>5 DEF CrashAndResume, ResumeStep, ResumeCursor
  <2>. QED
    BY <2>1, <2>2, <2>3, <2>4, <2>5 DEF Next, Trainer, Rollouts, FinishRollout, FailRollout,
       Settle, Sample, UpdateActor, AdvanceStep, vars
<1>. QED
  BY <1>1, <1>2, Inductive, PTL DEF Spec

\* The trainer with prefetch implements the checkpointed stream of rows: an
\* update or a given-up row consumes, a save is a consistent checkpoint, a
\* restart recovers it, and every other step is invisible.
THEOREM ImplementsStream == Spec => StreamSpec
<1>1. Init => Stream!Init
  BY DEF Init, NoCheckpoint, Stream!Init
<1>2. IInv /\ IInv' /\ saved.cursor <= cursor /\ [Next]_vars => [Stream!Next]_(Stream!avars)
  <2> SUFFICES ASSUME IInv, IInv', saved.cursor <= cursor, [Next]_vars
               PROVE  Stream!Next \/ UNCHANGED Stream!avars
    BY DEF Stream!avars
  <2>1. CASE UNCHANGED <<trained, evicted, saved>>
    BY <2>1 DEF Stream!avars
  <2>2. CASE RefillEvicted
    <3>1. /\ evicted' = evicted \cup Unusable /\ UNCHANGED <<trained, saved>>
          /\ Unusable # {} /\ Unusable \in SUBSET Outstanding
      BY <2>2 DEF RefillEvicted, Replacements, Unusable
    <3>2. Outstanding \cap (trained \cup evicted) = {}
      BY DEF IInv, RowAccounting
    <3>. QED
      BY <3>1, <3>2 DEF Stream!Next, Stream!Consume
  <2>3. CASE UpdateActor
    <3>1. /\ trained' = trained \cup batch /\ UNCHANGED <<evicted, saved>>
          /\ pc = "update"
      BY <2>3 DEF UpdateActor
    <3>2. batch # {} /\ batch \cap (trained \cup evicted) = {}
      <4>1. Cardinality(batch) = MiniBatch /\ MiniBatch # 0
        BY <3>1, TrainerAssumption DEF IInv, TrainedCount
      <4>. QED
        BY <4>1, FS_EmptySet DEF IInv, RowAccounting
    <3>. QED
      BY <3>1, <3>2 DEF Stream!Next, Stream!Consume
  <2>4. ASSUME pc \in {"fit_save", "step_end"}, Boundary(global_steps), NEW next,
               SaveCheckpoint(next), UNCHANGED <<trained, evicted>>
        PROVE  Stream!Checkpoint
    <3>1. /\ trained \cup evicted = 0 .. (cursor - 1)
          /\ saved'.cursor = cursor
      BY <2>4, Drained, SaveIsCut
    <3>. QED
      BY <2>4, <3>1 DEF Stream!Checkpoint
  <2>5. CASE FitSave \/ OnStepEnd
    <3>1. UNCHANGED <<trained, evicted>> /\ pc \in {"fit_save", "step_end"}
          /\ global_steps \in Nat
      BY <2>5 DEF FitSave, OnStepEnd, IInv, TypeOK
    <3>2. UNCHANGED saved \/ \E next : SaveCheckpoint(next) /\ Boundary(global_steps)
      BY <2>5, <3>1, SavePointIsBoundary DEF FitSave, OnStepEnd
    <3>. QED
      BY <2>1, <2>4, <3>1, <3>2 DEF Stream!Next
  <2>6. CASE CrashAndResume
    <3>1. /\ trained' = saved.trained /\ evicted' = saved.evicted /\ saved' = saved
          /\ saved.trained \cup saved.evicted = 0 .. (saved.cursor - 1)
      BY <2>6 DEF CrashAndResume, ResumeStep, ResumeCursor, IInv, SavedCut, ConsistentCut
    <3>. QED
      BY <3>1 DEF Stream!Next, Stream!Recover
  <2>. QED
    BY <2>1, <2>2, <2>3, <2>5, <2>6 DEF Next, Trainer, Rollouts, FinishRollout, FailRollout,
       Settle, AddBatchToGenerate, Sample, OnSampleEnd, AdvanceStep, vars
<1>. QED
  BY <1>1, <1>2, Inductive, CutBehindCursor, PTL DEF Spec, StreamSpec, Stream!Spec

\* With one mini-batch per step the sampler empties the queue every step, so
\* what is queued was submitted in this step or the one before it - whatever
\* max_off_policy_threshold is: no finished trajectory is ever stale.
Fresh ==
  SyncSteps = 1 =>
    \A r \in Outstanding :
      store[r].tag >= (IF pc \in {"add", "sample", "done"} THEN global_steps - 1 ELSE global_steps)

\* The tags a submission leaves on old and new markers.
LEMMA FetchTags ==
  ASSUME TypeOK, NEW D \in SUBSET Outstanding, NEW rest, rest = Restrict(store, D), NEW n \in Nat,
         store' = WithFetched(rest, n)
  PROVE  \A r \in Outstanding' : \/ r \in D /\ store'[r] = store[r]
                                 \/ store'[r].tag = global_steps
  BY DEF WithFetched, Restrict, Outstanding

\* With one mini-batch per step no step leaves a marker older than one step.
LEMMA FreshStep == IInv /\ Fresh /\ [Next]_vars => Fresh'
<1> SUFFICES ASSUME IInv, IInv', Fresh, [Next]_vars, SyncSteps = 1  PROVE Fresh'
  BY StepIInv DEF Fresh
<1>0. /\ global_steps \in Nat /\ store \in [Outstanding -> Marker]
      /\ \A r \in Outstanding : store[r].tag \in Nat
  BY DEF IInv, TypeOK, QueueOK, Marker
<1>1. CASE UNCHANGED <<store, global_steps, pc>>
  BY <1>1 DEF Fresh, Outstanding
<1>2. ASSUME NEW r \in Outstanding, NEW o, Settle(r, o)  PROVE Fresh'
  <2>1. Outstanding' = Outstanding /\ \A q \in Outstanding : store'[q].tag = store[q].tag
    BY <1>0, <1>2 DEF Settle, Outstanding, Marker
  <2>. QED
    BY <1>2, <2>1 DEF Fresh, Settle
<1>3. CASE AddBatchToGenerate
  <2>1. pc = "add" /\ pc' = "sample" /\ global_steps' = global_steps
    BY <1>3 DEF AddBatchToGenerate
  <2>2. CASE UNCHANGED store
    BY <2>1, <2>2 DEF Fresh, Outstanding
  <2>3. CASE AddPrompts(Batch)
    <3>1. store' = WithFetched(store, Batch) /\ store = Restrict(store, Outstanding)
      BY <1>0, <2>3 DEF AddPrompts, Restrict, Outstanding
    <3>2. \A r \in Outstanding' : \/ r \in Outstanding /\ store'[r] = store[r]
                                  \/ store'[r].tag = global_steps
      BY <3>1, FetchTags, BatchType DEF IInv
    <3>. QED
      BY <1>0, <2>1, <3>2 DEF Fresh
  <2>. QED
    BY <1>3, <2>2, <2>3 DEF AddBatchToGenerate
<1>4. CASE RefillEvicted
  <2>1. /\ pc = "sample" /\ pc' = "sample" /\ global_steps' = global_steps
        /\ store' = WithFetched(Restrict(store, Outstanding \ Unusable), Cardinality(Unusable))
    BY <1>4 DEF RefillEvicted, Replacements
  <2>2. Cardinality(Unusable) \in Nat
    <3>1. Unusable \in SUBSET Outstanding
      BY DEF Unusable
    <3>. QED
      BY <3>1, FiniteRows, FS_Subset, FS_CardinalityType DEF IInv
  <2>3. \A r \in Outstanding' : \/ r \in Outstanding /\ store'[r] = store[r]
                                \/ store'[r].tag = global_steps
    BY <2>1, <2>2, FetchTags DEF IInv
  <2>4. pc = "sample" /\ pc' = "sample" /\ global_steps' = global_steps
    BY <2>1
  <2>. QED
    BY <1>0, <2>3, <2>4 DEF Fresh
<1>5. ASSUME pc = "sample_end", prefetched = 0  PROVE Outstanding = {}
  <2>1. Cardinality(Outstanding) = 0
    <3>1. local_trigger_step = 0
      BY <1>5 DEF IInv, TypeOK, Phase, Sampling
    <3>2. Unsampled = 0
      BY <1>5, <3>1 DEF Unsampled
    <3>. QED
      BY <1>5, <3>2, OneMore, TrainerAssumption DEF IInv, QueueCount
  <2>. QED
    BY <2>1, FiniteRows, FS_EmptySet DEF IInv
<1>6. CASE Sample
  <2>1. pc' = "sample_end" /\ prefetched' = 0
    <3>1. pc = "sample" /\ pc' = "sample_end" /\ UNCHANGED prefetched
      BY <1>6 DEF Sample
    <3>2. local_trigger_step = 0
      BY <3>1 DEF IInv, TypeOK, Phase, Sampling
    <3>. QED
      BY <3>1, <3>2 DEF IInv, FlagIsOrderly, TypeOK
  <2>2. Cardinality(Outstanding') = 0
    <3>1. local_trigger_step' = 0 /\ Unsampled' = 0
      BY <2>1 DEF IInv, TypeOK, Phase, Sampling, Unsampled
    <3>. QED
      BY <2>1, <3>1, OneMore, TrainerAssumption DEF IInv, QueueCount
  <2>3. IsFiniteSet(Outstanding')
    BY DEF IInv, TypeOK, QueueOK
  <2>. QED
    BY <2>2, <2>3, FS_EmptySet DEF Fresh
<1>7. CASE OnSampleEnd
  <2>1. pc = "sample_end" /\ pc' = "update" /\ global_steps' = global_steps
    BY <1>7 DEF OnSampleEnd, FlagAfterPrefetch, PrefetchDue
  <2>2. CASE UNCHANGED store
    BY <2>1, <2>2 DEF Fresh, Outstanding
  <2>3. CASE AddPrompts(Batch)
    <3>1. store' = WithFetched(store, Batch) /\ store = Restrict(store, Outstanding)
      BY <1>0, <2>3 DEF AddPrompts, Restrict, Outstanding
    <3>2. \A r \in Outstanding' : \/ r \in Outstanding /\ store'[r] = store[r]
                                  \/ store'[r].tag = global_steps
      BY <3>1, FetchTags, BatchType DEF IInv
    <3>. QED
      BY <1>0, <2>1, <3>2 DEF Fresh
  <2>. QED
    BY <1>7, <2>2, <2>3 DEF OnSampleEnd, FlagAfterPrefetch, PrefetchDue
<1>8. CASE UpdateActor
  <2>1. /\ pc = "update" /\ UNCHANGED <<store, global_steps>>
        /\ pc' \in {"sample", "fit_save"}
    BY <1>8 DEF UpdateActor
  <2>. QED
    BY <1>0, <2>1 DEF Fresh, Outstanding
<1>9. CASE FitSave \/ OnStepEnd
  <2>1. /\ pc \in {"fit_save", "step_end"} /\ UNCHANGED <<store, global_steps>>
        /\ pc' \in {"step_end", "advance", "refused"}
    BY <1>9 DEF FitSave, OnStepEnd, SaveCheckpoint
  <2>. QED
    BY <1>0, <2>1 DEF Fresh, Outstanding
<1>10. CASE AdvanceStep
  <2>1. pc = "advance" /\ pc' \in {"add", "done"} /\ global_steps' = global_steps + 1
        /\ UNCHANGED store
    BY <1>10 DEF AdvanceStep
  <2>. QED
    BY <1>0, <2>1 DEF Fresh, Outstanding
<1>11. CASE CrashAndResume
  <2>1. Outstanding' = {}
    BY <1>11 DEF CrashAndResume, ResumeStep, ResumeCursor, Outstanding, EmptyQueue
  <2>. QED
    BY <2>1 DEF Fresh
<1>. QED
  BY <1>1, <1>2, <1>3, <1>4, <1>6, <1>7, <1>8, <1>9, <1>10, <1>11
     DEF Next, Trainer, Rollouts, FinishRollout, FailRollout, vars

\* Policy lag of the formal setting is at most one step, for every threshold.
THEOREM LagIsAtMostOne == Spec => []PolicyLagAtMostOne
<1>1. Init => Fresh
  BY DEF Init, Fresh, Outstanding, EmptyQueue
<1>2. IInv /\ Fresh => PolicyLagAtMostOne
  <2> SUFFICES ASSUME IInv, Fresh, SyncSteps = 1, NEW r \in Outstanding
               PROVE  store[r].tag >= global_steps - 1
    BY DEF PolicyLagAtMostOne
  <2>1. global_steps \in Nat /\ store[r].tag \in Nat
    BY DEF IInv, TypeOK, QueueOK, Marker
  <2>. QED
    BY <2>1 DEF Fresh
<1>. QED
  BY <1>1, <1>2, FreshStep, Inductive, PTL DEF Spec

-------------------------------------------------------------------------------
(* The save cadence. *)

\* Between fit()'s save and the early save, a regular save is already on disk.
RegularIsSaved == pc = "step_end" /\ RegularSave(global_steps) => saved.step = global_steps

\* No step ends without the checkpoint it owes.
LEMMA CadenceStep ==
  IInv /\ CheckpointCadence /\ RegularIsSaved /\ [Next]_vars
    => CheckpointCadence' /\ RegularIsSaved'
<1> SUFFICES ASSUME IInv, CheckpointCadence, RegularIsSaved, [Next]_vars
             PROVE  CheckpointCadence' /\ RegularIsSaved'
  OBVIOUS
<1>0. /\ global_steps \in Nat \ {0} /\ saved.step \in Nat /\ saved.step <= global_steps
      /\ saved.step = 0 \/ Due(saved.step)
      /\ \A s \in 1 .. (global_steps - 1) : Due(s) => s <= saved.step
      /\ pc = "advance" => \A s \in 1 .. global_steps : Due(s) => s <= saved.step
      /\ pc # "done" => global_steps <= TotalSteps
  BY DEF CheckpointCadence, IInv, TypeOK, Checkpoints, Phase
<1>1. CASE UNCHANGED <<saved, global_steps>> /\ pc' \notin {"advance", "step_end"}
  BY <1>0, <1>1 DEF CheckpointCadence, RegularIsSaved, Due
<1>2. CASE UNCHANGED <<saved, global_steps, pc>>
  BY <1>2 DEF CheckpointCadence, RegularIsSaved, Due, RegularSave
<1>3. CASE FitSave
  <2>1. pc = "fit_save" /\ global_steps' = global_steps
    BY <1>3 DEF FitSave
  <2>2. CASE RegularSave(global_steps)
    <3>1. pc' = "step_end" /\ saved'.step = global_steps
      BY <1>0, <1>3, <2>1, <2>2, SavePointIsBoundary, SaveIsCut DEF FitSave
    <3>2. Due(global_steps)
      BY <2>2 DEF Due, RegularSave
    <3>. QED
      BY <1>0, <2>1, <3>1, <3>2 DEF CheckpointCadence, RegularIsSaved, Due
  <2>3. CASE ~ RegularSave(global_steps)
    <3>1. pc' = "step_end" /\ saved' = saved
      BY <1>3, <2>3 DEF FitSave
    <3>. QED
      BY <1>0, <2>1, <2>3, <3>1 DEF CheckpointCadence, RegularIsSaved, Due, RegularSave
  <2>. QED
    BY <2>2, <2>3
<1>4. CASE OnStepEnd
  <2>1. pc = "step_end" /\ global_steps' = global_steps /\ global_steps <= TotalSteps
    BY <1>0, <1>4 DEF OnStepEnd
  <2>2. CASE EarlySave(global_steps)
    <3>1. pc' = "advance" /\ saved'.step = global_steps
      BY <1>0, <1>4, <2>1, <2>2, SavePointIsBoundary, SaveIsCut DEF OnStepEnd
    <3>2. Due(global_steps)
      BY <2>2 DEF Due, EarlySave
    <3>. QED
      BY <1>0, <2>1, <3>1, <3>2 DEF CheckpointCadence, RegularIsSaved, Due
  <2>3. CASE ~ EarlySave(global_steps)
    <3>1. pc' = "advance" /\ saved' = saved
      BY <1>4, <2>3 DEF OnStepEnd
    <3>2. Due(global_steps) => RegularSave(global_steps)
      BY <1>0, <2>1, <2>3, TrainerAssumption DEF Due, RegularSave, EarlySave
    <3>3. Due(global_steps) => saved.step = global_steps
      BY <2>1, <3>2 DEF RegularIsSaved
    <3>. QED
      BY <1>0, <2>1, <3>1, <3>3 DEF CheckpointCadence, RegularIsSaved, Due
  <2>. QED
    BY <2>2, <2>3
<1>5. CASE AdvanceStep
  <2>1. pc = "advance" /\ global_steps' = global_steps + 1 /\ saved' = saved
        /\ pc' \in {"add", "done"}
    BY <1>5 DEF AdvanceStep
  <2>. QED
    BY <1>0, <2>1 DEF CheckpointCadence, RegularIsSaved, Due
<1>6. CASE CrashAndResume
  <2>1. global_steps' = saved.step + 1 /\ saved' = saved /\ pc' \in {"add", "done"}
    BY <1>6 DEF CrashAndResume, ResumeStep, ResumeCursor
  <2>. QED
    BY <1>0, <2>1 DEF CheckpointCadence, RegularIsSaved, Due
<1>. QED
  BY <1>1, <1>2, <1>3, <1>4, <1>5, <1>6 DEF Next, Trainer, Rollouts, FinishRollout,
     FailRollout, Settle, AddBatchToGenerate, RefillEvicted, Sample, OnSampleEnd,
     UpdateActor, vars

\* The regular, final and early saves together: a finished step that is due
\* always has its checkpoint, and no other step has one.
THEOREM CadenceIsKept == Spec => []CheckpointCadence
<1>1. Init => CheckpointCadence /\ RegularIsSaved
  BY DEF Init, NoCheckpoint, CheckpointCadence, RegularIsSaved
<1>. QED
  BY <1>1, CadenceStep, Inductive, PTL DEF Spec
===============================================================================
