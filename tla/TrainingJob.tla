------------------------------ MODULE TrainingJob --------------------------------
(***************************************************************************)
(* The life of a training job around its rollouts: launch from the newest  *)
(* checkpoint if the validator lets it, parallel start-up, the first       *)
(* weight synchronisation, then steps of gradient accumulation, optimizer, *)
(* checkpoint if one is due, and weight update.  The process may be killed at any moment  *)
(* and is then launched again.  One state machine per part:                *)
(* CheckpointFiles, ParallelStartup, WeightTransfer, GradientSync.         *)
(***************************************************************************)
EXTENDS CheckpointFiles, ParallelStartup, WeightTransfer, GradientSync

CONSTANTS
  SaveFreq,   \* save_freq: not positive where nothing is saved, as the launcher has it
  FirstStep,  \* first_checkpoint_step: not positive without an early checkpoint
  ExportFrom, \* first step saved with hf_model among save_contents
  JobConfigs, \* settings a job may have: <<start-up, transport, engine>>
  MaxCrashes  \* bound: kills

ASSUME JobAssumption ==
  /\ JobConfigs \subseteq Startups \X Transports \X Engines
  /\ SaveFreq \in Int /\ FirstStep \in Int /\ ExportFrom \in Nat /\ MaxCrashes \in Nat

VARIABLES
  phase,   \* what the job is doing
  version, \* optimizer steps in the actor's weights
  crashes

vars == <<fileVars, startupVars, linkVars, gradVars, phase, version, crashes>>

-------------------------------------------------------------------------------

\* A fresh run, or one the validator lets resume.
Launch ==
  /\ phase = "down"
  /\ phase' = IF marker = 0 \/ Validated(FALSE) THEN "startup" ELSE "refused"
  /\ UNCHANGED <<fileVars, startupVars, linkVars, gradVars, version, crashes>>

\* The actor is built from the model and restored from the marker's checkpoint.
Startup ==
  /\ phase = "startup" /\ StartupStep
  /\ version' = IF restored' THEN marker ELSE 0
  /\ UNCHANGED <<fileVars, linkVars, gradVars, phase, crashes>>

\* veRL's on_init_end synchronises after the restoration.
StartupEnds ==
  /\ phase = "startup" /\ main \in {"ready", "failed"}
  /\ phase' = IF main = "ready" THEN "sync" ELSE "failed"
  /\ UNCHANGED <<fileVars, startupVars, linkVars, gradVars, version, crashes>>

\* on_init_end, and every later weight synchronisation.
Synchronise ==
  /\ phase = "sync"
  /\ \/ BeginTransfer \/ Connect \/ Transfer(version)
     \/ \E w \in Workers : Prepare(w) \/ Finalize(w)
  /\ UNCHANGED <<fileVars, startupVars, gradVars, phase, version, crashes>>

Synchronised ==
  /\ phase = "sync" /\ EndTransfer
  /\ phase' = IF version = TotalSteps THEN "done" ELSE "gradients"
  /\ UNCHANGED <<fileVars, startupVars, gradVars, version, crashes>>

\* Fault: only fit()'s own saves, the regular ones and the last.
RegularSave(s) == IF SaveFreq > 0 /\ (s = TotalSteps \/ s % SaveFreq = 0) THEN "save" ELSE "sync"

\* fit() saves regularly and at the end, on_step_end the early checkpoint;
\* either comes before the weights are synchronised.
SaveDue(s) == SaveFreq > 0 /\ (s = TotalSteps \/ s % SaveFreq = 0 \/ s = FirstStep)
AfterStep(s) == IF SaveDue(s) THEN "save" ELSE "sync"

UpdateActor ==
  /\ phase = "gradients"
  /\ \/ GradientStep /\ UNCHANGED <<phase, version>>
     \/ OptimizerStep /\ version' = version + 1 /\ phase' = AfterStep(version + 1)
  /\ UNCHANGED <<fileVars, startupVars, linkVars, crashes>>

\* From ExportFrom on with exported weights, as the launcher asks of its
\* resumed run.
StartSave ==
  /\ phase = "save" /\ marker # version
  /\ saving = 0
  /\ BeginSave(version, version >= ExportFrom)
  /\ UNCHANGED <<startupVars, linkVars, gradVars, phase, version, crashes>>

WriteFiles ==
  /\ phase = "save"
  /\ Mark \/ \E w \in Writers : Write(w)
  /\ UNCHANGED <<startupVars, linkVars, gradVars, phase, version, crashes>>

Saved ==
  /\ phase = "save" /\ marker = version
  /\ phase' = "sync"
  /\ UNCHANGED <<fileVars, startupVars, linkVars, gradVars, version, crashes>>

Killed ==
  /\ phase \notin {"down", "refused", "failed", "done"}
  /\ crashes < MaxCrashes
  /\ crashes' = crashes + 1
  /\ phase' = "down" /\ version' = 0
  /\ WriterDies /\ StartupReset /\ LinkReset /\ GradientReset

Init ==
  /\ FilesInit /\ StartupInit /\ LinkInit /\ GradientInit
  /\ <<startup, transport, engine>> \in JobConfigs
  /\ phase = "down" /\ version = 0 /\ crashes = 0

Next ==
  \/ Launch \/ Startup \/ StartupEnds \/ Synchronise \/ Synchronised \/ UpdateActor
  \/ StartSave \/ WriteFiles \/ Saved \/ Killed

Spec == Init /\ [][Next]_vars

-------------------------------------------------------------------------------
\* The checkpoint of step m is the newest a job at step v should have: no step
\* between them was to be saved.
NewestDue(m, v) ==
  m \in 0 .. v /\ (m # 0 => SaveDue(m)) /\ \A s \in (m + 1) .. v : ~ SaveDue(s)

\* While a step is trained the rollouts generate with the actor's own weights,
\* on the first step of a resumed job too, where start-up built them from the
\* model; and a kill in it costs only the steps since the last one that
\* save_freq or first_checkpoint_step asked to save, however often the job was
\* killed, in a save or after it (async_prefetch.py:32-43).
RolloutsFollowActor == phase = "gradients" => served = version /\ NewestDue(marker, version)
===============================================================================
