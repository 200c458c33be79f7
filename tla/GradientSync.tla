----------------------------- MODULE GradientSync --------------------------------
(***************************************************************************)
(* Gradient accumulation over the micro-batches of one optimizer step with *)
(* deferred synchronisation (verl_optimizations.py:17-89).  A micro-batch  *)
(* executes some of the wrapped modules.  PyTorch's FSDP is external: its  *)
(* backward pass ends with a callback over all modules, which reduces the  *)
(* gradients of those that synchronise, left-over ones included, and       *)
(* needs the unsharded parameter of those that do not.                     *)
(***************************************************************************)
EXTENDS Integers, FiniteSets

CONSTANTS Modules, MicroBatches

ASSUME GradientAssumption == IsFiniteSet(Modules) /\ Modules # {} /\ MicroBatches \in Nat \ {0}

VARIABLES
  engine,   \* FSDP version and use_no_sync_for_gradient_accumulation
  micro,    \* micro-batches finished
  inside,   \* within the synchronisation context
  hooked,   \* forward hooks are registered
  ran,      \* modules executed in this micro-batch
  touched,  \* modules whose synchronisation a hook has switched off
  syncing,  \* modules that reduce their gradients in backward
  gathered, \* modules whose parameters have been unsharded since the launch
  owed,     \* micro-batches whose gradients a module holds unreduced
  reduced,  \* micro-batches whose gradients a module has reduced
  used,     \* micro-batches that executed a module
  broken    \* backward has met a missing _unsharded_param

gradVars == <<engine, micro, inside, hooked, ran, touched, syncing, gathered, owed, reduced, used, broken>>

Engines == [fsdp : {1, 2}, defer : BOOLEAN]
IsLast == micro + 1 = MicroBatches

-------------------------------------------------------------------------------
(* An operator marked "Fault:" is a plausible bug in the definition that
   follows it; no specification here uses it. *)

\* Fault: the last micro-batch is deferred like the others.
DeferAlways == engine.defer /\ engine.fsdp = 2

\* _gradient_sync_context takes the hooks; everything else is veRL's.
Deferred == engine.defer /\ engine.fsdp = 2 /\ ~ IsLast

\* veRL's context for FSDP1 is no_sync() over the whole module.
NoSync == engine.defer /\ engine.fsdp = 1 /\ ~ IsLast

EnterContext ==
  /\ micro < MicroBatches /\ ~ inside
  /\ inside' = TRUE /\ ran' = {}
  /\ hooked' = Deferred
  /\ syncing' = IF NoSync THEN {} ELSE syncing
  /\ UNCHANGED <<engine, micro, touched, gathered, owed, reduced, used, broken>>

\* defer_executed_module.
SwitchOff(m) == syncing \ {m}

Forward(m) ==
  /\ inside /\ m \notin ran
  /\ ran' = ran \cup {m} /\ gathered' = gathered \cup {m}
  /\ used' = [used EXCEPT ![m] = @ \cup {micro}]
  /\ IF hooked
       THEN syncing' = SwitchOff(m) /\ touched' = touched \cup {m}
       ELSE UNCHANGED <<syncing, touched>>
  /\ UNCHANGED <<engine, micro, inside, hooked, owed, reduced, broken>>

\* The finally clause, or the end of no_sync().
Restored == IF NoSync THEN Modules ELSE syncing \cup touched

\* The backward pass and the end of the context.
Backward ==
  LET gradient(m) == owed[m] \cup (IF m \in ran THEN {micro} ELSE {})
  IN  /\ inside /\ ran # {}
      /\ reduced' = [m \in Modules |-> IF m \in syncing THEN reduced[m] \cup gradient(m) ELSE reduced[m]]
      /\ owed' = [m \in Modules |-> IF m \in syncing THEN {} ELSE gradient(m)]
      /\ broken' = (broken \/ (engine.fsdp = 2 /\ ~ Modules \subseteq (syncing \cup gathered)))
      /\ syncing' = Restored /\ touched' = {} /\ hooked' = FALSE /\ inside' = FALSE
      /\ micro' = micro + 1
      /\ UNCHANGED <<engine, ran, gathered, used>>

GradientStep == EnterContext \/ Backward \/ \E m \in Modules : Forward(m)

AllReduced == micro = MicroBatches /\ ~ inside

ZeroGradients ==
  /\ micro' = 0
  /\ owed' = [m \in Modules |-> {}] /\ reduced' = [m \in Modules |-> {}] /\ used' = [m \in Modules |-> {}]

OptimizerStep ==
  /\ AllReduced
  /\ ZeroGradients
  /\ ran' = {}
  /\ UNCHANGED <<engine, inside, hooked, touched, syncing, gathered, broken>>

GradientReset ==
  /\ ZeroGradients
  /\ inside' = FALSE /\ hooked' = FALSE /\ ran' = {} /\ touched' = {} /\ syncing' = Modules
  /\ gathered' = {} /\ broken' = FALSE /\ UNCHANGED engine

GradientInit ==
  /\ engine \in Engines
  /\ micro = 0 /\ inside = FALSE /\ hooked = FALSE /\ ran = {} /\ touched = {} /\ syncing = Modules
  /\ gathered = {} /\ broken = FALSE
  /\ owed = [m \in Modules |-> {}] /\ reduced = [m \in Modules |-> {}] /\ used = [m \in Modules |-> {}]

-------------------------------------------------------------------------------
\* The optimizer sees the gradients of every micro-batch that executed a
\* module, whichever modules the micro-batches leave out, and backward never
\* asks an unused module for a parameter it does not have
\* (verl_optimizations.py:18-48).
GradientsAreReduced ==
  /\ ~ broken
  /\ AllReduced => \A m \in Modules : owed[m] = {} /\ reduced[m] = used[m]
===============================================================================
