---------------------------- MODULE CheckpointFiles ------------------------------
(***************************************************************************)
(* The checkpoint directory: veRL's writer (external), which can be killed *)
(* at any moment, and validate_checkpoint (checkpoints.py), which decides  *)
(* whether a run may be resumed from it.                                   *)
(*                                                                         *)
(* A file is absent, created but empty, partly written or full.            *)
(***************************************************************************)
EXTENDS Integers, Sequences, FiniteSets

CONSTANTS
  Ranks,      \* the actor's world
  Trainer,    \* the process that drives it
  TotalSteps, \* total_training_steps
  Keep        \* max_actor_ckpt_to_keep: 2 where runs are resumed, else no limit

\* With Keep = 1 veRL removes the last checkpoint before it has the next one.
ASSUME FilesAssumption ==
  /\ IsFiniteSet(Ranks) /\ Ranks # {} /\ Trainer \notin Ranks /\ TotalSteps \in Nat \ {0}
  /\ Keep \in Nat /\ Keep >= 2

VARIABLES
  files,   \* files[step][f]: what global_step_<step> holds
  marker,  \* latest_checkpointed_iteration.txt: 0 if missing, Torn, or a step
  saving,  \* the step being saved, 0 if none
  pending, \* writes the writers have left, one sequence each
  kept     \* previous_saved_paths of the running process

fileVars == <<files, marker, saving, pending, kept>>

Kinds == <<"model", "optim", "extra_state">>
FirstRank == CHOOSE r \in Ranks : TRUE
Shards == {<<r, Kinds[i]>> : r \in Ranks, i \in 1 .. 3}
FsdpConfig == <<FirstRank, "fsdp_config">>
HFModel == <<FirstRank, "huggingface">>
Data == <<Trainer, "data">>
Files == Shards \cup {FsdpConfig, HFModel, Data}
Torn == TotalSteps + 1

Nothing == [f \in Files |-> "absent"]

\* A file is created empty, grows and is closed, one file after the other.
Stages == <<"empty", "part", "full">>
Writes(fs) == [i \in 1 .. (3 * Len(fs)) |-> <<fs[(i + 2) \div 3], Stages[((i + 2) % 3) + 1]>>]

-------------------------------------------------------------------------------
(* The writer.  An operator marked "Fault:" is a plausible bug in the
   definition that follows it; no specification here uses it. *)

Writers == Ranks \cup {Trainer}

\* Every rank writes its shards, the first one the configuration and, with
\* hf_model among save_contents, the exported weights.
RankFiles(r, hf) ==
  [i \in 1 .. 3 |-> <<r, Kinds[i]>>]
    \o (IF r = FirstRank THEN <<FsdpConfig>> \o (IF hf THEN <<HFModel>> ELSE <<>>) ELSE <<>>)

\* Older checkpoints go first, as many as keep the number.
Surviving == {s \in kept : Cardinality({t \in kept : t > s}) < Keep - 1}

BeginSave(step, hf) ==
  /\ saving' = step
  /\ kept' = Surviving \cup {step}
  /\ files' = [s \in 1 .. TotalSteps |-> IF s \in kept \ Surviving THEN Nothing ELSE files[s]]
  /\ pending' = [w \in Writers |-> IF w = Trainer THEN Writes(<<Data>>) ELSE Writes(RankFiles(w, hf))]
  /\ UNCHANGED marker

\* The dataloader's state is written when the actors are done.
Write(w) ==
  /\ saving # 0 /\ pending[w] # <<>>
  /\ w = Trainer => \A r \in Ranks : pending[r] = <<>>
  /\ files' = [files EXCEPT ![saving][Head(pending[w])[1]] = Head(pending[w])[2]]
  /\ pending' = [pending EXCEPT ![w] = Tail(@)]
  /\ UNCHANGED <<marker, saving, kept>>

\* The marker is truncated, then written, last of all.
Mark ==
  /\ saving # 0 /\ \A w \in Writers : pending[w] = <<>>
  /\ IF marker # Torn
       THEN marker' = Torn /\ UNCHANGED saving
       ELSE marker' = saving /\ saving' = 0
  /\ UNCHANGED <<files, pending, kept>>

\* The process dies: the directory stays as it is.
WriterDies ==
  /\ saving' = 0 /\ kept' = {} /\ pending' = [w \in Writers |-> <<>>]
  /\ UNCHANGED <<files, marker>>

-------------------------------------------------------------------------------
(* validate_checkpoint. *)

\* Fault: the newest directory is taken, whatever the marker says.
NewestDirectory ==
  LET there == {s \in 1 .. TotalSteps : files[s] # Nothing}
  IN  IF there = {} THEN 0 ELSE CHOOSE s \in there : \A t \in there : t <= s

\* latest_checkpoint: the marker is there, is a number, and its directory exists.
LatestCheckpoint ==
  IF marker \in 1 .. TotalSteps /\ files[marker] # Nothing THEN marker ELSE 0

\* Configuration, data and every shard of every rank; a file with content is
\* taken for whole.
Validated(requireHf) ==
  LET step == LatestCheckpoint
      content(f) == files[step][f]
  IN  /\ step # 0
      /\ content(Data) # "absent" /\ content(FsdpConfig) \in {"part", "full"}
      /\ \A s \in Shards : content(s) \in {"part", "full"}
      /\ requireHf => content(HFModel) \in {"part", "full"}

FilesInit ==
  /\ files = [s \in 1 .. TotalSteps |-> Nothing] /\ marker = 0 /\ saving = 0
  /\ pending = [w \in Writers |-> <<>>] /\ kept = {}

-------------------------------------------------------------------------------
\* Whenever the process dies, what the validator accepts has every file of the
\* step complete, although it looks only at sizes, and what the last finished
\* save left is accepted until a save that finishes replaces it: pruning never
\* takes the checkpoint the marker names.  Only a marker that was being written
\* makes a run refuse to resume (checkpoints.py:29-39,57-73).
AcceptedIsWhole ==
  /\ \A hf \in BOOLEAN :
       Validated(hf) => \A f \in Files \ {HFModel} : files[LatestCheckpoint][f] = "full"
  /\ Validated(TRUE) => files[LatestCheckpoint][HFModel] = "full"
  /\ marker \in 1 .. TotalSteps => Validated(FALSE)
===============================================================================
