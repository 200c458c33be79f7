--------------------------- MODULE PrefetchTrainer ----------------------------
(***************************************************************************)
(* The separate-async trainer with checkpoint-safe one-batch prefetch      *)
(* (src/src/coding_opd/async_prefetch.py).  The patched methods are        *)
(* translated from the source; the trainer loop, the replay buffer and the *)
(* rollout engines they are patched into belong to veRL and are modelled   *)
(* from how async_prefetch.py and its test harness drive them.             *)
(*                                                                         *)
(* A row is its position in the (shuffled) dataloader stream.              *)
(***************************************************************************)
EXTENDS Integers, FiniteSets, Functions

CONSTANTS
  MiniBatch,      \* rows sampled per mini-batch
  SyncSteps,      \* parameter_sync_step: mini-batches per global step
  TotalSteps,     \* total_training_steps
  SaveFreq,       \* trainer.save_freq; not positive means "never save"
  FirstStep,      \* first_checkpoint_step; not positive means "none"
  Threshold,      \* max_off_policy_threshold
  Prefetch,       \* checkpoint_safe_prefetch
  MaxFailures,    \* bound: rollouts that fail
  MaxCrashes      \* bound: trainer process deaths

ASSUME TrainerAssumption ==
  /\ MiniBatch \in Nat \ {0}
  /\ SyncSteps \in Nat \ {0}
  /\ TotalSteps \in Nat \ {0}
  /\ SaveFreq \in Int
  /\ FirstStep \in Int
  /\ Threshold \in Nat \ {0}
  /\ Prefetch \in BOOLEAN
  /\ MaxFailures \in Nat
  /\ MaxCrashes \in Nat

\* install_checkpoint_safe_prefetch raises ValueError on a smaller threshold.
ASSUME PrefetchConfig == Prefetch => Threshold >= 2

Batch == MiniBatch * SyncSteps

VARIABLES
  global_steps,
  local_trigger_step,  \* index of the mini-batch inside the step
  pc,                  \* next trainer call
  prefetched,          \* _coding_opd_batch_prefetched: 1 when set, 0 when not
  cursor,              \* dataloader position: rows fetched so far
  store,               \* prompt markers in TransferQueue: row -> [tag, status]
  batch,               \* rows sampled for the mini-batch being trained
  trained,             \* rows the model has been updated on
  evicted,             \* rows the sampler gave up on
  saved,               \* newest checkpoint on disk
  failures, crashes    \* how often the environment has interfered

vars == <<global_steps, local_trigger_step, pc, prefetched, cursor, store,
          batch, trained, evicted, saved, failures, crashes>>

Outstanding == DOMAIN store

Marker == [tag : Nat, status : {"running", "finished", "failure"}]

EmptyQueue == [r \in {} |-> [tag |-> 0, status |-> "running"]]

Checkpoints == [step : Nat, cursor : Nat, trained : SUBSET Nat, evicted : SUBSET Nat]

NoCheckpoint == [step |-> 0, cursor |-> 0, trained |-> {}, evicted |-> {}]

-------------------------------------------------------------------------------
(* Save points.  An operator marked "Fault" is a plausible bug in the definition
   that follows it; no specification here uses it. *)

\* fit() saves at regular multiples and at the last step.
RegularSave(s) == SaveFreq > 0 /\ (s = TotalSteps \/ s % SaveFreq = 0)

\* The patched on_step_end adds one early checkpoint between regular ones.
EarlySave(s) ==
  FirstStep > 0 /\ s = FirstStep /\ s < TotalSteps /\ SaveFreq > 0 /\ s % SaveFreq # 0

\* Fault: the early save is forgotten as a boundary.
BoundaryWithoutFirstStep(s) ==
  s >= TotalSteps \/ (SaveFreq > 0 /\ s % SaveFreq = 0)

\* The steps at which the patched on_sample_end does not prefetch.
Boundary(s) ==
  s >= TotalSteps \/ (SaveFreq > 0 /\ (s % SaveFreq = 0 \/ s = FirstStep))

\* on_sample_end submits the next batch after the first mini-batch only.
PrefetchDue == Prefetch /\ local_trigger_step = 0 /\ ~ Boundary(global_steps)

-------------------------------------------------------------------------------
(* TransferQueue and dataloader. *)

\* _add_prompts_to_generate(n): fetch n rows, tag them with the current step.
Fetched(n) == cursor .. (cursor + n - 1)

WithFetched(rest, n) ==
  [r \in DOMAIN rest \cup Fetched(n) |->
     IF r \in DOMAIN rest THEN rest[r]
     ELSE [tag |-> global_steps, status |-> "running"]]

AddPrompts(n) ==
  /\ store' = WithFetched(store, n)
  /\ cursor' = cursor + n

\* Rows the sampler drops: failed ones, and finished ones that are too old.
Unusable ==
  {r \in Outstanding :
     \/ store[r].status = "failure"
     \/ store[r].status = "finished" /\ global_steps - store[r].tag + 1 > Threshold}

Finished == {r \in Outstanding : store[r].status = "finished"}

Settle(r, outcome) ==
  /\ store[r].status = "running"
  /\ store' = [store EXCEPT ![r].status = outcome]
  /\ UNCHANGED <<global_steps, local_trigger_step, pc, prefetched, cursor,
                 batch, trained, evicted, saved, crashes>>

FinishRollout == \E r \in Outstanding : Settle(r, "finished") /\ UNCHANGED failures

FailRollout ==
  /\ failures < MaxFailures
  /\ failures' = failures + 1
  /\ \E r \in Outstanding : Settle(r, "failure")

-------------------------------------------------------------------------------
(* One global step of the trainer. *)

AddBatchToGenerate ==
  /\ pc = "add"
  /\ pc' = "sample"
  /\ local_trigger_step' = 0
  /\ \/ /\ prefetched = 1
        /\ prefetched' = 0
        /\ UNCHANGED <<cursor, store>>
     \/ /\ prefetched = 0
        /\ AddPrompts(Batch)
        /\ UNCHANGED prefetched
  /\ UNCHANGED <<global_steps, batch, trained, evicted, saved, failures, crashes>>

\* Fault: dropped rows are not replaced.
NoReplacement == 0

\* refill_fn is called with the number of rows that were dropped.
Replacements == Cardinality(Unusable)

\* One poll of the replay buffer that finds unusable rows: clear and replace.
RefillEvicted ==
  /\ pc = "sample"
  /\ Unusable # {}
  /\ store' = WithFetched(Restrict(store, Outstanding \ Unusable), Replacements)
  /\ cursor' = cursor + Replacements
  /\ evicted' = evicted \cup Unusable
  /\ UNCHANGED <<global_steps, local_trigger_step, pc, prefetched, batch,
                 trained, saved, failures, crashes>>

\* A poll that finds enough rows: their prompt markers leave the queue.
Sample ==
  /\ pc = "sample"
  /\ Unusable = {}
  /\ \E S \in SUBSET Finished :
       /\ Cardinality(S) = MiniBatch
       /\ batch' = S
       /\ store' = Restrict(store, Outstanding \ S)
  /\ pc' = "sample_end"
  /\ UNCHANGED <<global_steps, local_trigger_step, prefetched, cursor, trained,
                 evicted, saved, failures, crashes>>

\* on_sample_end remembers that the next batch is already submitted.
FlagAfterPrefetch == 1

OnSampleEnd ==
  /\ pc = "sample_end"
  /\ pc' = "update"
  /\ IF PrefetchDue
       THEN AddPrompts(Batch) /\ prefetched' = FlagAfterPrefetch
       ELSE UNCHANGED <<cursor, store, prefetched>>
  /\ UNCHANGED <<global_steps, local_trigger_step, batch, trained, evicted,
                 saved, failures, crashes>>

UpdateActor ==
  /\ pc = "update"
  /\ trained' = trained \cup batch
  /\ batch' = {}
  /\ local_trigger_step' = local_trigger_step + 1
  /\ pc' = IF local_trigger_step' < SyncSteps THEN "sample" ELSE "fit_save"
  /\ UNCHANGED <<global_steps, prefetched, cursor, store, evicted, saved,
                 failures, crashes>>

\* _save_checkpoint raises RuntimeError while anything is fetched but untrained.
SaveCheckpoint(next) ==
  IF Prefetch /\ (Outstanding # {} \/ prefetched = 1)
    THEN pc' = "refused" /\ UNCHANGED saved
    ELSE /\ pc' = next
         /\ saved' = [step |-> global_steps, cursor |-> cursor,
                      trained |-> trained, evicted |-> evicted]

FitSave ==
  /\ pc = "fit_save"
  /\ IF RegularSave(global_steps)
       THEN SaveCheckpoint("step_end")
       ELSE pc' = "step_end" /\ UNCHANGED saved
  /\ UNCHANGED <<global_steps, local_trigger_step, prefetched, cursor, store,
                 batch, trained, evicted, failures, crashes>>

\* The early checkpoint, then veRL's weight synchronisation.
OnStepEnd ==
  /\ pc = "step_end"
  /\ IF EarlySave(global_steps)
       THEN SaveCheckpoint("advance")
       ELSE pc' = "advance" /\ UNCHANGED saved
  /\ UNCHANGED <<global_steps, local_trigger_step, prefetched, cursor, store,
                 batch, trained, evicted, failures, crashes>>

AdvanceStep ==
  /\ pc = "advance"
  /\ global_steps' = global_steps + 1
  /\ pc' = IF global_steps = TotalSteps THEN "done" ELSE "add"
  /\ UNCHANGED <<local_trigger_step, prefetched, cursor, store, batch, trained,
                 evicted, saved, failures, crashes>>

\* Fault: the saved step runs again.
ResumeAtSavedStep == saved.step

\* Training goes on with the step after the saved one ...
ResumeStep == saved.step + 1

\* Fault: the dataloader position is that of the dead process.
ResumeAtLiveCursor == cursor

\* ... and with the dataloader position the checkpoint restores.
ResumeCursor == saved.cursor

\* The process dies and is started again from the newest checkpoint: the
\* queue and the flag are gone, model and dataloader position come from disk.
CrashAndResume ==
  /\ pc \notin {"done", "refused"}
  /\ crashes < MaxCrashes
  /\ crashes' = crashes + 1
  /\ global_steps' = ResumeStep
  /\ cursor' = ResumeCursor
  /\ trained' = saved.trained
  /\ evicted' = saved.evicted
  /\ store' = EmptyQueue
  /\ batch' = {}
  /\ prefetched' = 0
  /\ local_trigger_step' = 0
  /\ pc' = IF saved.step = TotalSteps THEN "done" ELSE "add"
  /\ UNCHANGED <<saved, failures>>

-------------------------------------------------------------------------------
Init ==
  /\ global_steps = 1
  /\ local_trigger_step = 0
  /\ pc = "add"
  /\ prefetched = 0
  /\ cursor = 0
  /\ store = EmptyQueue
  /\ batch = {}
  /\ trained = {}
  /\ evicted = {}
  /\ saved = NoCheckpoint
  /\ failures = 0
  /\ crashes = 0

Trainer ==
  \/ AddBatchToGenerate \/ RefillEvicted \/ Sample \/ OnSampleEnd
  \/ UpdateActor \/ FitSave \/ OnStepEnd \/ AdvanceStep

Rollouts == FinishRollout \/ FailRollout

Next == Trainer \/ Rollouts \/ CrashAndResume

\* The trainer thread keeps running; every rollout ends because agent loops
\* and sandbox commands carry their own time limits.
Fairness == WF_vars(Trainer) /\ WF_vars(Rollouts)

Spec == Init /\ [][Next]_vars

FairSpec == Spec /\ Fairness

-------------------------------------------------------------------------------
(* Properties. *)

QueueOK ==
  /\ Outstanding \in SUBSET Nat /\ IsFiniteSet(Outstanding)
  /\ store \in [Outstanding -> Marker]

\* Type invariant of the trainer.
TypeOK ==
  /\ global_steps \in Nat \ {0}
  /\ local_trigger_step \in Nat
  /\ pc \in {"add", "sample", "sample_end", "update", "fit_save", "step_end",
             "advance", "done", "refused"}
  /\ prefetched \in {0, 1}
  /\ cursor \in Nat
  /\ QueueOK
  /\ batch \in SUBSET Nat
  /\ trained \in SUBSET Nat
  /\ evicted \in SUBSET Nat
  /\ saved \in Checkpoints
  /\ failures \in Nat
  /\ crashes \in Nat

\* The guard in _save_checkpoint never fires: on every path to a save the
\* prefetched batch has been consumed (async_prefetch.py:84-87 vs 69-79).
SaveNeverRefused == pc # "refused"

\* Every fetched row is in exactly one place - queued, being trained, trained
\* or given up - also after restarts, so none is trained twice or skipped.
RowAccounting ==
  /\ Outstanding \cup batch \cup trained \cup evicted = 0 .. (cursor - 1)
  /\ Outstanding \cap (batch \cup trained \cup evicted) = {}
  /\ batch \cap (trained \cup evicted) = {}
  /\ trained \cap evicted = {}

\* The checkpoint is a consistent cut: the dataloader position it restores is
\* not ahead of the rows its model has consumed, and nothing is missing below.
ConsistentCut ==
  /\ saved.trained \cup saved.evicted = 0 .. (saved.cursor - 1)
  /\ Cardinality(saved.trained) = saved.step * Batch

\* Look-ahead is at most one batch, and none at a boundary: replacing given-up
\* rows never makes the dataloader run further ahead.
OneBatchLookahead ==
  cursor - Cardinality(evicted)
    <= Batch * (IF Prefetch /\ ~ Boundary(global_steps) THEN global_steps + 1
                ELSE global_steps)

\* Both save paths together keep the promised cadence: as soon as a step is
\* over, the newest checkpoint is that of the last step due, so a crash never
\* loses more than the steps since then.
Due(s) == SaveFreq > 0 /\ (s = TotalSteps \/ s = FirstStep \/ s % SaveFreq = 0)

CheckpointCadence ==
  LET over == IF pc = "advance" THEN global_steps ELSE global_steps - 1
  IN  /\ saved.step = 0 \/ Due(saved.step)
      /\ \A s \in 1 .. over : Due(s) => s <= saved.step
      /\ saved.step <= global_steps

\* With one mini-batch per step nothing queued is more than one step old, so
\* no finished trajectory is ever thrown away and policy lag is at most one
\* (docs/training_infrastructure.md:10).
PolicyLagAtMostOne ==
  SyncSteps = 1 => \A r \in Outstanding : store[r].tag >= global_steps - 1

\* Stale or failed rows never starve the sampler: training always ends.
TrainingTerminates == <>(pc = "done")

\* The trainer is a checkpointed stream: every save is a cut of the rows the
\* model has consumed, every restart goes back to that cut.
Stream == INSTANCE CheckpointedStream
            WITH consumed <- trained \cup evicted, cut <- saved.cursor

StreamSpec == Stream!Spec
===============================================================================
