-------------------------- MODULE CheckpointedStream --------------------------
(***************************************************************************)
(* What the trainer promises about its stream of training rows, seen from  *)
(* outside.  Rows are the natural numbers, in dataloader order.            *)
(* "consumed" is what has been used up for good - trained into the model   *)
(* or given up after a failure - and "cut" is the dataloader position the  *)
(* newest checkpoint restores.  A checkpoint may only be taken when the    *)
(* consumed rows are exactly the rows below its cut: then a restart from   *)
(* it neither skips a row nor trains one again.                            *)
(***************************************************************************)
EXTENDS Naturals

VARIABLES consumed, cut

avars == <<consumed, cut>>

Init == consumed = {} /\ cut = 0

\* Rows enter the model (or are given up); none ever leaves it this way.
Consume ==
  /\ consumed \subseteq consumed'
  /\ consumed # consumed'
  /\ UNCHANGED cut

\* A checkpoint records a cut that matches the consumed rows exactly.
Checkpoint ==
  /\ cut' >= cut
  /\ consumed = 0 .. (cut' - 1)
  /\ UNCHANGED consumed

\* A restart restores the model and the stream position of the checkpoint.
Recover ==
  /\ consumed' = 0 .. (cut - 1)
  /\ UNCHANGED cut

Next == Consume \/ Checkpoint \/ Recover

Spec == Init /\ [][Next]_avars
===============================================================================
