--------------------------- MODULE OPDRolloutProofs -----------------------------
(***************************************************************************)
(* Proofs about OPDRollout, for every set of sessions, number of steps and *)
(* slots, context, turn and response length, curriculum, number of         *)
(* trajectories and of failures.                                           *)
(***************************************************************************)
EXTENDS OPDRollout, FiniteSetTheorems, TLAPS

-------------------------------------------------------------------------------
(* The inductive invariant. *)

Stages == InTurn \cup {"idle", "waiting", "ended", "scoring", "written", "failed"}

Replies ==
  [tokens : Nat, engine : {"none", "stop", "length", "repetition"},
   reported : {"none", "completed", "length", "repetition"}, call : BOOLEAN]

TurnTypeOK ==
  /\ at \in [Sessions -> Stages]
  /\ length \in [Sessions -> Nat]
  /\ reply \in [Sessions -> Replies]
  /\ suffix \in [Sessions -> Int \cup {NoStart}]
  /\ diagnosed \in [Sessions -> SUBSET Int]
  /\ turns \in [Sessions -> Nat]
  /\ horizon \in [Sessions -> Nat]
  /\ reason \in [Sessions -> {"none", "finished", "token_limit", "repetition", "max_steps"}]

TrainerTypeOK ==
  /\ config \in Configs
  /\ trainer \in {"create", "rejected", "submit", "wait", "sample", "update", "validate", "done"}
  /\ step \in 1 .. Steps /\ submitted \in Nat /\ weights \in Nat /\ failures \in Nat

SessionTypeOK ==
  /\ progress \in [Sessions -> Nat]
  /\ seen \in [Sessions -> SUBSET Nat]
  /\ todo \in [Sessions -> SUBSET Nat]
  /\ labelled \in [Sessions -> SUBSET Nat]
  /\ cut \in [Sessions -> Nat]

TypeOK == TurnTypeOK /\ TrainerTypeOK /\ SessionTypeOK

\* The trainer's place tells which batches are out and which weights are in use.
Phase ==
  /\ trainer \in {"create", "rejected"} => submitted = 0 /\ weights = 1
  /\ trainer \notin {"create", "rejected"} => Accepted
  /\ trainer = "create" => step = 1
  /\ trainer = "submit" =>
       weights = step /\ submitted = IF config.prefetch /\ step > 1 THEN step ELSE step - 1
  /\ trainer \in {"wait", "sample"} => weights = step /\ submitted = step
  /\ trainer = "update" =>
       weights = step /\ submitted = IF config.prefetch /\ step < Steps THEN step + 1 ELSE step
  /\ trainer \in {"validate", "done"} => weights = Steps + 1 /\ submitted = Steps + 1

\* The conversation of a session fits, with the reply that is under way.
Budget(s) ==
  /\ length[s] <= ContextLimit
  /\ at[s] \in InTurn => length[s] > 0
  /\ at[s] \in {"teacher", "extract", "replied"} => length[s] + reply[s].tokens <= ContextLimit

\* The suffix a session has asked for stays its own.
Own(s) ==
  Adaptive(s) =>
    /\ at[s] = "extract" => suffix[s] = length[s] - 1
    /\ at[s] = "replied" /\ reply[s].tokens > 0 =>
         diagnosed[s] = length[s] .. (length[s] + reply[s].tokens - 1)

\* What is reported of a turn, and of an episode, is what the engine said.
Honest(s) ==
  /\ at[s] \in {"teacher", "extract", "replied"} =>
       /\ reply[s].reported # "none"
       /\ reply[s].reported = "completed" => reply[s].engine = "stop"
       /\ reply[s].reported = "repetition" => reply[s].engine = "repetition"
  /\ at[s] = "tools" => reply[s].engine = "stop" /\ reply[s].reported = "completed"
  /\ at[s] # "ended" => reason[s] = "none"
  /\ reason[s] = "repetition" => reply[s].engine = "repetition"
  /\ reason[s] = "finished" => reply[s].engine = "stop"
  /\ reason[s] = "max_steps" => turns[s] = horizon[s] /\ reply[s].engine = "stop"

\* Until a session is written every trajectory is labelled or has a call out.
Labels(s) ==
  /\ at[s] \notin {"scoring", "written", "failed"} => todo[s] = {} /\ labelled[s] = {}
  /\ at[s] \in {"scoring", "written"} /\ ~ Validation(s) => todo[s] \cup labelled[s] = 1 .. cut[s]
  /\ at[s] = "written" => todo[s] = {}
  /\ Validation(s) => todo[s] = {} /\ labelled[s] = {}

\* A batch is dispatched in its own step, or prefetched in the one before.
Curriculum(s) ==
  /\ s[1] > submitted => at[s] = "idle" /\ horizon[s] = 0 /\ seen[s] = {}
  /\ horizon[s] > 0 => horizon[s] = Horizon(s)
  /\ s[1] <= submitted /\ ~ Validation(s) =>
       progress[s] = IF config.prefetch /\ s[1] > 1 THEN s[1] - 1 ELSE s[1]

\* With synchronous rollouts a batch is over before the weights change.
Fixed(s) ==
  config.synchronous /\ ~ Validation(s) =>
    /\ seen[s] \subseteq {s[1]}
    /\ weights > s[1] => at[s] \in {"written", "failed"}
    /\ trainer \in {"sample", "update"} /\ s[1] = step => at[s] \in {"written", "failed"}

SessionInv(s) == Budget(s) /\ Own(s) /\ Honest(s) /\ Labels(s) /\ Curriculum(s) /\ Fixed(s)

IInv == TypeOK /\ Phase /\ \A s \in Sessions : SessionInv(s)

-------------------------------------------------------------------------------
(* Arithmetic. *)

\* A session belongs to a batch of the run, or to the validation batch.
LEMMA BatchType ==
  ASSUME NEW s \in Sessions
  PROVE  s[1] \in 1 .. (Steps + 1) /\ Steps \in Nat \ {0}
BY RolloutAssumption

\* The capacity the gateway is configured with is never beyond the context
\* (opd_gateway.py:71-80).
LEMMA CapacityFits == Capacity \in Nat /\ Capacity <= ContextLimit
BY TurnAssumption DEF Capacity, Least

\* Division by a positive number is monotone.
LEMMA DivMonotone ==
  ASSUME NEW m \in Nat, NEW n \in Nat, m <= n, NEW g \in Nat \ {0}
  PROVE  m \div g \in Nat /\ n \div g \in Nat /\ m \div g <= n \div g
<1>. DEFINE p == m \div g
            q == n \div g
<1>1. p \in Int /\ q \in Int /\ g * p <= m /\ n < g * (q + 1) /\ 0 <= p /\ 0 <= q
  BY Z3
<1>. HIDE DEF p, q
<1>2. CASE p >= q + 1
  <2>1. g * (q + 1) <= g * p
    BY <1>1, <1>2, Z3
  <2>. QED
    BY <1>1, <2>1, Z3
<1>. QED
  BY <1>1, <1>2 DEF p, q

\* A later step never has a shorter horizon, and none more than the limit of
\* the task (algorithms/tcod.py:14-16).
LEMMA HorizonGrows ==
  ASSUME NEW m \in Nat, NEW n \in Nat, m <= n
  PROVE  /\ RolloutMaxTurns(m) \in Nat /\ RolloutMaxTurns(n) \in Nat
         /\ RolloutMaxTurns(m) <= RolloutMaxTurns(n) /\ RolloutMaxTurns(n) <= MaxTurns
<1>1. MaxTurns \in Nat /\ GrowthInterval \in Nat \ {0}
  BY RolloutAssumption
<1>2. m \div GrowthInterval \in Nat /\ n \div GrowthInterval \in Nat
      /\ m \div GrowthInterval <= n \div GrowthInterval
  BY <1>1, DivMonotone
<1>. QED
  BY <1>1, <1>2 DEF RolloutMaxTurns, Least

-------------------------------------------------------------------------------
(* The trainer's steps. *)

\* A dispatch of the next batch keeps every session in order: nobody has
\* touched that batch before, and the other batches stay as they are
\* (opd_framework.py:32-39).
LEMMA DispatchKeepsSessions ==
  ASSUME IInv, NEW b \in Nat, b = submitted + 1, Dispatch(b),
         b = Steps + 1 \/ step = IF config.prefetch /\ b > 1 THEN b - 1 ELSE b,
         UNCHANGED <<config, seen, todo, labelled, cut>>
  PROVE  /\ TurnTypeOK' /\ progress' \in [Sessions -> Nat]
         /\ \A s \in Sessions : (Budget(s) /\ Own(s) /\ Honest(s) /\ Labels(s) /\ Curriculum(s))'
<1>1. TurnTypeOK'
  BY DEF IInv, TypeOK, TurnTypeOK, Dispatch, Stages
<1>2. progress' \in [Sessions -> Nat]
  BY DEF IInv, TypeOK, SessionTypeOK, TrainerTypeOK, Dispatch
<1>3. ASSUME NEW s \in Sessions PROVE (Budget(s) /\ Own(s) /\ Honest(s) /\ Labels(s) /\ Curriculum(s))'
  <2>0. s[1] \in Nat /\ s[1] <= Steps + 1 /\ s[1] >= 1 /\ SessionInv(s)
    BY BatchType DEF IInv
  <2>1. Budget(s)'
    BY <2>0 DEF SessionInv, Budget, Dispatch, InTurn
  <2>2. Own(s)'
    BY <2>0 DEF SessionInv, Own, Dispatch, Adaptive, Validation
  <2>3. Honest(s)'
    BY <2>0 DEF SessionInv, Honest, Dispatch, Curriculum, IInv, TypeOK, TrainerTypeOK
  <2>4. Labels(s)'
    BY <2>0 DEF SessionInv, Labels, Dispatch, Curriculum, Validation, IInv, TypeOK, TrainerTypeOK
  <2>5. Curriculum(s)'
    <3>1. CASE s[1] = b
      <4>1. at[s] = "idle" /\ horizon[s] = 0
        BY <2>0, <3>1 DEF SessionInv, Curriculum, IInv, TypeOK, TrainerTypeOK
      <4>2. progress'[s] = step /\ horizon'[s] = 0 /\ submitted' = b
        BY <4>1, <3>1 DEF Dispatch
      <4>3. ~ (s[1] > submitted') /\ ~ (horizon'[s] > 0)
        BY <4>2, <3>1, <2>0
      <4>4. ~ Validation(s)' => progress'[s] = IF config'.prefetch /\ s[1] > 1 THEN s[1] - 1 ELSE s[1]
        BY <4>2, <3>1 DEF Validation
      <4>. QED
        BY <4>3, <4>4 DEF Curriculum
    <3>2. CASE s[1] # b
      <4>1. progress'[s] = progress[s] /\ at'[s] = at[s] /\ horizon' = horizon /\ submitted' = b
        BY <3>2 DEF Dispatch, IInv, TypeOK, TurnTypeOK, SessionTypeOK
      <4>2. Horizon(s)' = Horizon(s)
        BY <4>1 DEF Horizon, RolloutMaxTurns, Validation
      <4>. QED
        BY <4>1, <4>2, <3>2, <2>0 DEF SessionInv, Curriculum, Validation, IInv, TypeOK, TrainerTypeOK
    <3>. QED
      BY <3>1, <3>2
  <2>. QED
    BY <2>1, <2>2, <2>3, <2>4, <2>5
<1>. QED
  BY <1>1, <1>2, <1>3

\* What the trainer does keeps the invariant: a batch is dispatched once, and
\* with synchronous rollouts the weights change only after it is over
\* (opd_framework.py:192-214).
LEMMA TrainerKeepsSync ==
  ASSUME IInv, NEW s \in Sessions, UNCHANGED <<config, seen>>,
         weights' = weights, submitted' = submitted, at' = at, step' = step,
         \/ trainer' \notin {"sample", "update"}
         \/ trainer \in {"sample", "update"}
         \/ config.synchronous => Batch(step) \subseteq Settled
  PROVE  Fixed(s)'
<1>1. SessionInv(s)
  BY DEF IInv
<1>2. s[1] = step => s \in Batch(step)
  BY DEF Batch
<1>. QED
  BY <1>1, <1>2 DEF SessionInv, Fixed, Settled, Validation

\* The trainer's own variables stay well typed.
LEMMA TrainerKeepsTypes ==
  ASSUME IInv, Trainer
  PROVE  TrainerTypeOK'
<1>1. Steps \in Nat \ {0}
  BY RolloutAssumption
<1>2. ASSUME Create PROVE TrainerTypeOK'
  BY <1>2 DEF Create, IInv, TypeOK, TrainerTypeOK
<1>3. ASSUME Submit PROVE TrainerTypeOK'
  BY <1>3 DEF Submit, AfterSubmit, Dispatch, IInv, TypeOK, TrainerTypeOK
<1>4. ASSUME Wait PROVE TrainerTypeOK'
  BY <1>4 DEF Wait, IInv, TypeOK, TrainerTypeOK
<1>5. ASSUME Sample PROVE TrainerTypeOK'
  BY <1>5 DEF Sample, Dispatch, IInv, TypeOK, TrainerTypeOK
<1>6. ASSUME Update PROVE TrainerTypeOK'
  BY <1>6, <1>1 DEF Update, Dispatch, IInv, TypeOK, TrainerTypeOK
<1>7. ASSUME Validate PROVE TrainerTypeOK'
  BY <1>7 DEF Validate, IInv, TypeOK, TrainerTypeOK
<1>. QED
  BY <1>2, <1>3, <1>4, <1>5, <1>6, <1>7 DEF Trainer

\* The trainer's place goes on telling which batches are out.
LEMMA TrainerKeepsPhase ==
  ASSUME IInv, Trainer
  PROVE  Phase'
<1>1. Steps \in Nat \ {0} /\ step \in 1 .. Steps /\ submitted \in Nat /\ weights \in Nat
  BY RolloutAssumption DEF IInv, TypeOK, TrainerTypeOK
<1>0. Phase
  BY DEF IInv
<1>2. ASSUME Create PROVE Phase'
  BY <1>0, <1>1, <1>2 DEF Create, Phase, Accepted
<1>3. ASSUME Submit PROVE Phase'
  BY <1>0, <1>1, <1>3 DEF Submit, AfterSubmit, Dispatch, Phase, Accepted
<1>4. ASSUME Wait PROVE Phase'
  BY <1>0, <1>1, <1>4 DEF Wait, Phase, Accepted
<1>5. ASSUME Sample PROVE Phase'
  BY <1>0, <1>1, <1>5 DEF Sample, Dispatch, Phase, Accepted
<1>6. ASSUME Update PROVE Phase'
  BY <1>0, <1>1, <1>6 DEF Update, Dispatch, Phase, Accepted
<1>7. ASSUME Validate PROVE Phase'
  BY <1>0, <1>1, <1>7 DEF Validate, Phase, Accepted
<1>. QED
  BY <1>2, <1>3, <1>4, <1>5, <1>6, <1>7 DEF Trainer

\* A trainer's step that dispatches nothing leaves the sessions as they are.
LEMMA QuietKeepsSessions ==
  ASSUME IInv, UNCHANGED <<turnVars, sessionVars, config, submitted>>
  PROVE  /\ TurnTypeOK' /\ SessionTypeOK'
         /\ \A s \in Sessions : (Budget(s) /\ Own(s) /\ Honest(s) /\ Labels(s) /\ Curriculum(s))'
<1>1. TurnTypeOK' /\ SessionTypeOK'
  BY DEF turnVars, sessionVars, IInv, TypeOK, TurnTypeOK, SessionTypeOK
<1>2. ASSUME NEW s \in Sessions PROVE (Budget(s) /\ Own(s) /\ Honest(s) /\ Labels(s) /\ Curriculum(s))'
  <2>0. SessionInv(s)
    BY DEF IInv
  <2>1. (Budget(s) /\ Own(s) /\ Honest(s) /\ Labels(s))'
    BY <2>0 DEF turnVars, sessionVars, SessionInv, Budget, Own, Honest, Labels, Adaptive, Validation
  <2>2. Curriculum(s)'
    BY <2>0 DEF turnVars, sessionVars, SessionInv, Curriculum, Horizon, RolloutMaxTurns, Validation
  <2>. QED
    BY <2>1, <2>2
<1>. QED
  BY <1>1, <1>2

\* A dispatch leaves what has been generated and labelled, and no batch is
\* settled or unsettled but the one that goes out.
LEMMA DispatchKeepsSync ==
  ASSUME IInv, NEW b \in Nat, b = submitted + 1, Dispatch(b), b > step \/ trainer' \notin {"sample", "update"},
         UNCHANGED <<config, seen, step>>, weights' \in Nat, b >= weights',
         NEW s \in Sessions,
         config.synchronous /\ ~ Validation(s) /\ (weights' > s[1] \/ (trainer' \in {"sample", "update"} /\ s[1] = step)) =>
           at[s] \in {"written", "failed"}
  PROVE  Fixed(s)'
<1>1. SessionInv(s) /\ s[1] \in Nat /\ submitted \in Nat /\ step \in Nat
  BY BatchType DEF IInv, TypeOK, TrainerTypeOK
<1>2. s[1] = b => at[s] = "idle"
  BY <1>1 DEF SessionInv, Curriculum
<1>3. seen'[s] = seen[s] /\ (s[1] # b => at'[s] = at[s])
  BY DEF Dispatch
<1>4. s[1] = b => ~ (weights' > s[1])
  BY <1>1
<1>5. s[1] = b => ~ (trainer' \in {"sample", "update"} /\ s[1] = step)
  BY <1>1
<1>. QED
  BY <1>1, <1>2, <1>3, <1>4, <1>5 DEF SessionInv, Fixed, Validation

\* Every step of the trainer keeps the invariant.
LEMMA TrainerKeeps ==
  ASSUME IInv, Trainer
  PROVE  IInv'
<1>0. Steps \in Nat \ {0} /\ step \in 1 .. Steps /\ submitted \in Nat /\ weights \in Nat /\ Phase
  BY RolloutAssumption DEF IInv, TypeOK, TrainerTypeOK
<1>1. SUFFICES TurnTypeOK' /\ SessionTypeOK' /\ \A s \in Sessions : SessionInv(s)'
  BY TrainerKeepsTypes, TrainerKeepsPhase DEF IInv, TypeOK
<1>2. CASE Create \/ Wait \/ Validate
  <2>1. UNCHANGED <<turnVars, sessionVars, config, submitted>>
    BY <1>2 DEF Create, Wait, Validate
  <2>2. ASSUME NEW s \in Sessions PROVE Fixed(s)'
    <3>1. /\ UNCHANGED <<config, seen>> /\ weights' = weights /\ submitted' = submitted
          /\ at' = at /\ step' = step
      BY <1>2 DEF Create, Wait, Validate, turnVars, sessionVars
    <3>2. \/ trainer' \notin {"sample", "update"}
          \/ config.synchronous => Batch(step) \subseteq Settled
      BY <1>2 DEF Create, Wait, Validate
    <3>. QED
      BY <3>1, <3>2, TrainerKeepsSync
  <2>. QED
    BY <2>1, <2>2, QuietKeepsSessions DEF SessionInv
<1>3. CASE Submit
  <2>0. trainer = "submit" /\ weights = step /\ Accepted
    BY <1>3, <1>0 DEF Submit, Phase
  <2>1. ASSUME NEW s \in Sessions, submitted >= step PROVE Fixed(s)'
    <3>1. /\ UNCHANGED <<config, seen>> /\ weights' = weights /\ submitted' = submitted
          /\ at' = at /\ step' = step
      BY <1>3, <2>1 DEF Submit, turnVars
    <3>2. ~ config.synchronous
      BY <2>1, <1>0, <2>0 DEF Phase, Accepted
    <3>. QED
      BY <3>1, <3>2, TrainerKeepsSync
  <2>2. CASE submitted >= step
    <3>1. UNCHANGED <<turnVars, sessionVars, config, submitted>>
      BY <1>3, <2>2 DEF Submit, sessionVars
    <3>. QED
      BY <3>1, <2>1, <2>2, QuietKeepsSessions DEF SessionInv
  <2>3. CASE ~ (submitted >= step)
    <3>1. step = submitted + 1 /\ Dispatch(step) /\ UNCHANGED <<config, seen, todo, labelled, cut, step, weights>>
      BY <1>3, <2>3, <2>0, <1>0 DEF Submit, Phase
    <3>2. step = IF config.prefetch /\ step > 1 THEN step - 1 ELSE step
      BY <2>3, <2>0, <1>0 DEF Phase
    <3>3. /\ TurnTypeOK' /\ progress' \in [Sessions -> Nat]
          /\ \A s \in Sessions : (Budget(s) /\ Own(s) /\ Honest(s) /\ Labels(s) /\ Curriculum(s))'
      BY <3>1, <3>2, <1>0, DispatchKeepsSessions
    <3>4. SessionTypeOK'
      BY <3>1, <3>3 DEF SessionTypeOK, IInv, TypeOK
    <3>5. ASSUME NEW s \in Sessions PROVE Fixed(s)'
      <4>1. CASE config.synchronous
        <5>1. trainer' = "wait"
          BY <1>3, <4>1 DEF Submit, AfterSubmit
        <5>2. weights > s[1] /\ ~ Validation(s) => at[s] \in {"written", "failed"}
          BY <4>1 DEF IInv, SessionInv, Fixed
        <5>. QED
          BY <5>1, <5>2, <3>1, <1>0, <2>0, DispatchKeepsSync
      <4>2. CASE ~ config.synchronous
        BY <4>2, <3>1 DEF Fixed
      <4>. QED
        BY <4>1, <4>2
    <3>. QED
      BY <3>3, <3>4, <3>5 DEF SessionInv
  <2>. QED
    BY <2>2, <2>3
<1>4. CASE Sample
  <2>0. trainer = "sample" /\ trainer' = "update" /\ weights = step /\ submitted = step /\ Accepted
    BY <1>4, <1>0 DEF Sample, Phase
  <2>1. CASE config.prefetch /\ step < Steps
    <3>1. Dispatch(step + 1) /\ UNCHANGED <<config, seen, todo, labelled, cut, step, weights>>
      BY <1>4, <2>1 DEF Sample
    <3>2. step = IF config.prefetch /\ step + 1 > 1 THEN (step + 1) - 1 ELSE step + 1
      BY <2>1, <1>0
    <3>3. /\ TurnTypeOK' /\ progress' \in [Sessions -> Nat]
          /\ \A s \in Sessions : (Budget(s) /\ Own(s) /\ Honest(s) /\ Labels(s) /\ Curriculum(s))'
      BY <3>1, <3>2, <2>0, <1>0, DispatchKeepsSessions
    <3>4. SessionTypeOK'
      BY <3>1, <3>3 DEF SessionTypeOK, IInv, TypeOK
    <3>5. ~ config.synchronous /\ config' = config
      BY <2>0, <2>1, <3>1 DEF Accepted
    <3>. QED
      BY <3>3, <3>4, <3>5 DEF SessionInv, Fixed
  <2>2. CASE ~ (config.prefetch /\ step < Steps)
    <3>1. UNCHANGED <<turnVars, sessionVars, config, submitted>>
      BY <1>4, <2>2 DEF Sample, sessionVars
    <3>2. ASSUME NEW s \in Sessions PROVE Fixed(s)'
      <4>1. /\ UNCHANGED <<config, seen>> /\ weights' = weights /\ submitted' = submitted
            /\ at' = at /\ step' = step
        BY <1>4, <3>1 DEF Sample, turnVars, sessionVars
      <4>. QED
        BY <4>1, <2>0, TrainerKeepsSync
    <3>. QED
      BY <3>1, <3>2, QuietKeepsSessions DEF SessionInv
  <2>. QED
    BY <2>1, <2>2
<1>5. CASE Update
  <2>0. trainer = "update" /\ weights = step /\ weights' = weights + 1 /\ Accepted /\ UNCHANGED <<config, seen, todo, labelled, cut>>
    BY <1>5, <1>0 DEF Update, Phase
  <2>1. ASSUME NEW s \in Sessions, config.synchronous, ~ Validation(s), weights' > s[1]
        PROVE  at[s] \in {"written", "failed"}
    <3>1. s[1] \in Nat /\ SessionInv(s)
      BY BatchType DEF IInv
    <3>2. weights > s[1] \/ s[1] = step
      BY <2>1, <2>0, <3>1, <1>0
    <3>. QED
      BY <3>1, <3>2, <2>0, <2>1 DEF SessionInv, Fixed
  <2>2. CASE step < Steps
    <3>1. UNCHANGED <<turnVars, sessionVars, config, submitted>> /\ trainer' = "submit"
      BY <1>5, <2>2 DEF Update, sessionVars
    <3>2. ASSUME NEW s \in Sessions PROVE Fixed(s)'
      <4>1. at' = at /\ seen' = seen /\ config' = config
        BY <3>1 DEF turnVars, sessionVars
      <4>2. SessionInv(s)
        BY DEF IInv
      <4>. QED
        BY <4>1, <4>2, <3>1, <2>1 DEF SessionInv, Fixed, Validation
    <3>. QED
      BY <3>1, <3>2, QuietKeepsSessions DEF SessionInv
  <2>3. CASE ~ (step < Steps)
    <3>1. step = Steps /\ submitted = Steps /\ Dispatch(Steps + 1) /\ step' = step /\ trainer' = "validate"
      BY <1>5, <2>3, <2>0, <1>0 DEF Update, Phase
    <3>2. /\ TurnTypeOK' /\ progress' \in [Sessions -> Nat]
          /\ \A s \in Sessions : (Budget(s) /\ Own(s) /\ Honest(s) /\ Labels(s) /\ Curriculum(s))'
      BY <3>1, <2>0, <1>0, DispatchKeepsSessions
    <3>3. SessionTypeOK'
      BY <2>0, <3>2 DEF SessionTypeOK, IInv, TypeOK
    <3>4. ASSUME NEW s \in Sessions PROVE Fixed(s)'
      BY <3>1, <2>0, <2>1, <1>0, DispatchKeepsSync
    <3>. QED
      BY <3>2, <3>3, <3>4 DEF SessionInv
  <2>. QED
    BY <2>2, <2>3
<1>. QED
  BY <1>2, <1>3, <1>4, <1>5 DEF Trainer

-------------------------------------------------------------------------------
(* The sessions' steps. *)

SameFor(r) ==
  /\ at'[r] = at[r] /\ length'[r] = length[r] /\ reply'[r] = reply[r] /\ suffix'[r] = suffix[r]
  /\ diagnosed'[r] = diagnosed[r] /\ turns'[r] = turns[r] /\ horizon'[r] = horizon[r]
  /\ reason'[r] = reason[r] /\ seen'[r] = seen[r] /\ todo'[r] = todo[r]
  /\ labelled'[r] = labelled[r] /\ cut'[r] = cut[r]

\* A session nothing happened to stays in order while the trainer stands still.
LEMMA OthersStay ==
  ASSUME IInv, NEW r \in Sessions, SameFor(r), UNCHANGED <<trainerVars, progress>>
  PROVE  SessionInv(r)'
<1>0. SessionInv(r) /\ UNCHANGED <<config, trainer, step, submitted, weights, progress>>
  BY DEF IInv, trainerVars
<1>1. (Budget(r) /\ Own(r) /\ Honest(r) /\ Labels(r))'
  BY <1>0 DEF SameFor, SessionInv, Budget, Own, Honest, Labels, Adaptive, Validation
<1>2. Curriculum(r)'
  BY <1>0 DEF SameFor, SessionInv, Curriculum, Horizon, RolloutMaxTurns, Validation
<1>3. Fixed(r)'
  BY <1>0 DEF SameFor, SessionInv, Fixed, Validation
<1>. QED
  BY <1>1, <1>2, <1>3 DEF SessionInv

\* The horizon of a session is a number of turns.
LEMMA HorizonType ==
  ASSUME IInv, NEW s \in Sessions
  PROVE  Horizon(s) \in Nat
<1>1. progress[s] \in Nat /\ MaxTurns \in Nat
  BY RolloutAssumption DEF IInv, TypeOK, SessionTypeOK
<1>. QED
  BY <1>1, HorizonGrows DEF Horizon

\* The diagnosis is a set of positions; with the start the server was given it
\* is the turn's own tokens (adaptive_teacher.py:14-18).
LEMMA DiagnosisIsTheTurn ==
  ASSUME NEW l \in Nat \ {0}, NEW n \in Nat, NEW start \in Int \cup {NoStart}
  PROVE  /\ Diagnosed(l + n, start) \subseteq Int
         /\ Diagnosed(l + n, l - 1) = l .. (l + n - 1)
<1>1. Diagnosed(l + n, start) \subseteq Int
  BY DEF Diagnosed
<1>2. l - 1 # NoStart
  BY TurnAssumption
<1>3. ASSUME NEW p \in l .. (l + n - 1) PROVE p \in Diagnosed(l + n, l - 1)
  <2>1. p - 1 \in 0 .. ((l + n) - 2) /\ p - 1 >= l - 1 /\ p = (p - 1) + 1
    OBVIOUS
  <2>. QED
    BY <1>2, <2>1 DEF Diagnosed
<1>4. ASSUME NEW p \in Diagnosed(l + n, l - 1) PROVE p \in l .. (l + n - 1)
  BY <1>2, <1>4 DEF Diagnosed
<1>. QED
  BY <1>1, <1>3, <1>4

\* A turn's step keeps the types of the turn's variables.
LEMMA TurnKeepsTypes ==
  ASSUME IInv, NEW s \in Sessions, Turn(s, Adaptive(s))
  PROVE  TurnTypeOK'
<1>0. TurnTypeOK /\ SessionInv(s) /\ ContextLimit \in Nat /\ TurnLimit \in Nat /\ Observations \subseteq Nat
      /\ reply[s] \in Replies /\ length[s] \in Nat
  BY TurnAssumption DEF IInv, TypeOK, TurnTypeOK
<1>1. ASSUME Ask(s) PROVE TurnTypeOK'
  <2>1. [tokens |-> 0, engine |-> "length", reported |-> "length", call |-> FALSE] \in Replies
    BY DEF Replies
  <2>2. reply' \in [Sessions -> Replies]
    BY <1>0, <1>1, <2>1 DEF Ask, TurnTypeOK
  <2>3. at' \in [Sessions -> Stages]
    BY <1>0, <1>1 DEF Ask, TurnTypeOK, Stages, InTurn
  <2>4. turns' \in [Sessions -> Nat]
    BY <1>0, <1>1 DEF Ask, TurnTypeOK
  <2>. QED
    BY <1>0, <1>1, <2>2, <2>3, <2>4 DEF Ask, TurnTypeOK
<1>2. ASSUME Generate(s, Adaptive(s)) PROVE TurnTypeOK'
  <2>1. PICK asked \in Limits, n \in 0 .. TurnLimit, call \in BOOLEAN,
             engine \in {"stop", "length", "repetition"} :
          /\ n <= MaxTokens(s, asked)
          /\ reply' = [reply EXCEPT ![s] = [tokens |-> n, engine |-> engine,
                                            reported |-> Reported(engine), call |-> call]]
          /\ at' = [at EXCEPT ![s] = IF Adaptive(s) /\ n > 0 THEN "teacher" ELSE "replied"]
    BY <1>2 DEF Generate
  <2>2. n \in Nat
    BY <1>0
  <2>3. [tokens |-> n, engine |-> engine, reported |-> Reported(engine), call |-> call] \in Replies
    BY <2>2 DEF Replies, Reported
  <2>4. reply' \in [Sessions -> Replies]
    BY <1>0, <2>1, <2>3 DEF TurnTypeOK
  <2>5. at' \in [Sessions -> Stages]
    BY <1>0, <2>1 DEF TurnTypeOK, Stages, InTurn
  <2>. QED
    BY <1>0, <1>2, <2>4, <2>5 DEF Generate, TurnTypeOK
<1>3. ASSUME AskTeacher(s) PROVE TurnTypeOK'
  BY <1>0, <1>3 DEF AskTeacher, SuffixOfRequest, TurnTypeOK, Stages, InTurn
<1>4. ASSUME Extract(s) PROVE TurnTypeOK'
  <2>1. Diagnosed(length[s] + reply[s].tokens, suffix[s]) \subseteq Int
    BY <1>0, <1>4 DEF Diagnosed, TurnTypeOK, Replies
  <2>2. reply' \in [Sessions -> Replies]
    BY <1>0, <1>4 DEF Extract, TurnTypeOK, Replies
  <2>3. at' \in [Sessions -> Stages] /\ suffix' \in [Sessions -> Int \cup {NoStart}]
    BY <1>0, <1>4 DEF Extract, SuffixOfRequest, TurnTypeOK, Stages, InTurn
  <2>4. diagnosed' \in [Sessions -> SUBSET Int]
    BY <1>0, <1>4, <2>1 DEF Extract, TurnTypeOK
  <2>. QED
    BY <1>0, <1>4, <2>2, <2>3, <2>4 DEF Extract, TurnTypeOK
<1>5. ASSUME Deliver(s) PROVE TurnTypeOK'
  <2>1. length[s] + reply[s].tokens \in Nat
    BY <1>0 DEF Replies
  <2>2. length' \in [Sessions -> Nat]
    BY <1>0, <1>5, <2>1 DEF Deliver, TurnTypeOK
  <2>3. at' \in [Sessions -> Stages]
    BY <1>0, <1>5 DEF Deliver, TurnTypeOK, Stages, InTurn
  <2>4. reason' \in [Sessions -> {"none", "finished", "token_limit", "repetition", "max_steps"}]
    BY <1>0, <1>5 DEF Deliver, StepReason, TurnTypeOK
  <2>. QED
    BY <1>0, <1>5, <2>2, <2>3, <2>4 DEF Deliver, TurnTypeOK
<1>6. ASSUME CallTools(s) PROVE TurnTypeOK'
  BY <1>0, <1>6 DEF CallTools, TurnTypeOK, Stages, InTurn
<1>. QED
  BY <1>1, <1>2, <1>3, <1>4, <1>5, <1>6 DEF Turn

\* A session's steps keep the types, touch no other session and leave the
\* trainer where it is.
LEMMA SessionStep ==
  ASSUME IInv, NEW s \in Sessions, Session(s)
  PROVE  /\ TypeOK' /\ UNCHANGED <<trainerVars, progress>>
         /\ \A r \in Sessions \ {s} : SameFor(r)
<1>0. TurnTypeOK /\ TrainerTypeOK /\ SessionTypeOK /\ Trajectories \subseteq Nat /\ PromptLength \in Nat
  BY TurnAssumption, RolloutAssumption DEF IInv, TypeOK
<1>1. UNCHANGED <<trainerVars, progress>>
  BY DEF Session, Start, TakeTurn, EndEpisode, Write, AgentStops, TaskFails, Scored, ScoreFails, sessionVars
<1>2. TrainerTypeOK'
  <2>1. failures' \in Nat
    BY <1>0 DEF TrainerTypeOK, Session, Start, TakeTurn, EndEpisode, Write, AgentStops, TaskFails, Scored, ScoreFails
  <2>. QED
    BY <1>0, <1>1, <2>1 DEF TrainerTypeOK, trainerVars
<1>3. ASSUME Start(s) PROVE TurnTypeOK' /\ SessionTypeOK' /\ \A r \in Sessions \ {s} : SameFor(r)
  <2>1. TurnTypeOK'
    BY <1>0, <1>3, HorizonType DEF Start, TurnTypeOK, Stages, InTurn
  <2>2. SessionTypeOK' /\ \A r \in Sessions \ {s} : SameFor(r)
    BY <1>0, <1>3 DEF Start, sessionVars, SessionTypeOK, TurnTypeOK, SameFor
  <2>. QED
    BY <2>1, <2>2
<1>4. ASSUME TakeTurn(s) PROVE TurnTypeOK' /\ SessionTypeOK' /\ \A r \in Sessions \ {s} : SameFor(r)
  <2>1. Turn(s, Adaptive(s)) /\ TurnTypeOK'
    BY <1>4, TurnKeepsTypes DEF TakeTurn
  <2>2. SessionTypeOK'
    BY <1>0, <1>4 DEF TakeTurn, SessionTypeOK, TrainerTypeOK
  <2>3. ASSUME NEW r \in Sessions \ {s} PROVE SameFor(r)
    <3>1. seen'[r] = seen[r] /\ UNCHANGED <<todo, labelled, cut>>
      BY <1>0, <1>4 DEF TakeTurn, SessionTypeOK
    <3>2. /\ at'[r] = at[r] /\ length'[r] = length[r] /\ reply'[r] = reply[r] /\ suffix'[r] = suffix[r]
          /\ diagnosed'[r] = diagnosed[r] /\ turns'[r] = turns[r] /\ horizon'[r] = horizon[r]
          /\ reason'[r] = reason[r]
      BY <1>0, <2>1 DEF Turn, Ask, Generate, AskTeacher, Extract, Deliver, CallTools,
                        SuffixOfRequest, TurnTypeOK
    <3>. QED
      BY <3>1, <3>2 DEF SameFor
  <2>. QED
    BY <2>1, <2>2, <2>3
<1>5. ASSUME EndEpisode(s) PROVE TurnTypeOK' /\ SessionTypeOK' /\ \A r \in Sessions \ {s} : SameFor(r)
  <2>1. TurnTypeOK'
    BY <1>0, <1>5 DEF EndEpisode, Forget, NoReply, Replies, TurnTypeOK, Stages, InTurn
  <2>2. SessionTypeOK'
    BY <1>0, <1>5 DEF EndEpisode, ToScore, SessionTypeOK
  <2>3. \A r \in Sessions \ {s} : SameFor(r)
    BY <1>0, <1>5 DEF EndEpisode, Forget, SessionTypeOK, TurnTypeOK, SameFor
  <2>. QED
    BY <2>1, <2>2, <2>3
<1>6. ASSUME Write(s) PROVE TurnTypeOK' /\ SessionTypeOK' /\ \A r \in Sessions \ {s} : SameFor(r)
  BY <1>0, <1>6 DEF Write, sessionVars, SessionTypeOK, TurnTypeOK, Stages, SameFor
<1>7. ASSUME TaskFails(s) PROVE TurnTypeOK' /\ SessionTypeOK' /\ \A r \in Sessions \ {s} : SameFor(r)
  <2>1. TurnTypeOK'
    BY <1>0, <1>7 DEF TaskFails, Forget, NoReply, Replies, TurnTypeOK, Stages, InTurn
  <2>2. SessionTypeOK' /\ \A r \in Sessions \ {s} : SameFor(r)
    BY <1>0, <1>7 DEF TaskFails, Forget, sessionVars, SessionTypeOK, TurnTypeOK, SameFor
  <2>. QED
    BY <2>1, <2>2
<1>8. ASSUME NEW t \in todo[s], Scored(s, t)
      PROVE  TurnTypeOK' /\ SessionTypeOK' /\ \A r \in Sessions \ {s} : SameFor(r)
  BY <1>0, <1>8 DEF Scored, turnVars, SessionTypeOK, TurnTypeOK, SameFor
<1>9. ASSUME NEW t \in todo[s], ScoreFails(s, t)
      PROVE  TurnTypeOK' /\ SessionTypeOK' /\ \A r \in Sessions \ {s} : SameFor(r)
  BY <1>0, <1>9 DEF ScoreFails, SessionTypeOK, TurnTypeOK, Stages, SameFor
<1>10. ASSUME AgentStops(s) PROVE TurnTypeOK' /\ SessionTypeOK' /\ \A r \in Sessions \ {s} : SameFor(r)
  BY <1>0, <1>10 DEF AgentStops, sessionVars, SessionTypeOK, TurnTypeOK, Stages, SameFor
<1>. QED
  BY <1>1, <1>2, <1>3, <1>4, <1>5, <1>6, <1>7, <1>8, <1>9, <1>10 DEF Session, TypeOK

\* While the engine works on a session's turn, synchronous rollouts keep the
\* weights at the version the batch began with (opd_framework.py:206-210).
LEMMA EngineHasFixedWeights ==
  ASSUME IInv, NEW s \in Sessions, at[s] \in InTurn, config.synchronous, ~ Validation(s)
  PROVE  weights = s[1]
<1>1. SessionInv(s) /\ Phase /\ s[1] \in Nat \ {0} /\ s[1] <= Steps /\ Steps \in Nat
      /\ submitted \in Nat /\ weights \in Nat /\ step \in 1 .. Steps
  BY BatchType DEF IInv, TypeOK, TrainerTypeOK, Validation
<1>2. at[s] \notin {"idle", "written", "failed"}
  BY DEF InTurn
<1>3. s[1] <= submitted /\ weights <= s[1]
  BY <1>1, <1>2 DEF SessionInv, Curriculum, Fixed
<1>4. submitted <= weights
  <2>1. trainer \notin {"create", "rejected"}
    BY <1>1, <1>3 DEF Phase
  <2>2. ~ config.prefetch
    BY <1>1, <2>1 DEF Phase, Accepted
  <2>3. trainer \in {"submit", "wait", "sample", "update", "validate", "done"}
    BY <2>1 DEF IInv, TypeOK, TrainerTypeOK
  <2>. QED
    BY <1>1, <2>2, <2>3 DEF Phase
<1>. QED
  BY <1>1, <1>3, <1>4

\* A step that leaves a session's place in the batch alone keeps its curriculum
\* and, when it adds no foreign version, its weights.
LEMMA PlaceIsKept ==
  ASSUME IInv, NEW s \in Sessions, UNCHANGED <<trainerVars, progress>>,
         at[s] \notin {"idle", "written", "failed"}, horizon'[s] = horizon[s],
         seen'[s] = seen[s]
  PROVE  Curriculum(s)' /\ Fixed(s)'
<1>0. SessionInv(s) /\ UNCHANGED <<config, trainer, step, submitted, weights, progress>>
  BY DEF IInv, trainerVars
<1>1. Curriculum(s)'
  BY <1>0 DEF SessionInv, Curriculum, Horizon, RolloutMaxTurns, Validation
<1>2. Fixed(s)'
  BY <1>0 DEF SessionInv, Fixed, Validation
<1>. QED
  BY <1>1, <1>2

\* What a turn's step leaves alone outside the turn.
LEMMA TurnKeepsPlace ==
  ASSUME IInv, NEW s \in Sessions, TakeTurn(s), UNCHANGED <<trainerVars, progress>>
  PROVE  Labels(s)' /\ Curriculum(s)' /\ Fixed(s)'
<1>0. SessionInv(s) /\ TurnTypeOK /\ SessionTypeOK
      /\ UNCHANGED <<config, trainer, step, submitted, weights, progress, todo, labelled, cut>>
  BY DEF IInv, TypeOK, TakeTurn, trainerVars
<1>1. at[s] \in InTurn /\ at'[s] \in InTurn \cup {"ended"} /\ horizon' = horizon
  BY <1>0 DEF TakeTurn, Turn, Ask, Generate, AskTeacher, Extract, Deliver, CallTools, InTurn, TurnTypeOK
<1>2. at[s] \notin {"idle", "written", "failed", "scoring"} /\ at'[s] \notin {"scoring", "written", "failed"}
  BY <1>1 DEF InTurn
<1>3. Labels(s)'
  BY <1>0, <1>2 DEF SessionInv, Labels, Validation
<1>4. Curriculum(s)'
  BY <1>0, <1>1, <1>2 DEF SessionInv, Curriculum, Horizon, RolloutMaxTurns, Validation
<1>5. Fixed(s)'
  <2>1. CASE config.synchronous /\ ~ Validation(s)
    <3>1. weights = s[1]
      BY <1>1, <2>1, EngineHasFixedWeights
    <3>2. seen'[s] \subseteq seen[s] \cup {s[1]}
      BY <1>0, <3>1 DEF TakeTurn, SessionTypeOK
    <3>. QED
      BY <1>0, <1>2, <2>1, <3>2 DEF SessionInv, Fixed, Validation
  <2>2. CASE ~ (config.synchronous /\ ~ Validation(s))
    BY <1>0, <2>2 DEF Fixed, Validation
  <2>. QED
    BY <2>1, <2>2
<1>. QED
  BY <1>3, <1>4, <1>5

\* A turn keeps within the budget, its diagnosis is its own, and its reasons
\* are the engine's (vllm_server.py:26-54, opd_gateway.py:24-27,71-80,
\* react_agent.py:18-45).
LEMMA TurnKeepsPromises ==
  ASSUME IInv, NEW s \in Sessions, Turn(s, Adaptive(s)), UNCHANGED config
  PROVE  Budget(s)' /\ Own(s)' /\ Honest(s)'
<1>0. TurnTypeOK /\ SessionInv(s) /\ reply[s] \in Replies /\ length[s] \in Nat /\ ContextLimit \in Nat
      /\ TurnLimit \in Nat /\ Observations \subseteq Nat /\ Adaptive(s)' = Adaptive(s)
  BY TurnAssumption DEF IInv, TypeOK, TurnTypeOK, Adaptive, Validation
<1>1. CASE Ask(s)
  <2>1. at[s] = "ask" /\ length' = length /\ diagnosed' = diagnosed /\ suffix' = suffix /\ reason' = reason
        /\ at'[s] \in {"replied", "engine"}
    BY <1>0, <1>1 DEF Ask, TurnTypeOK
  <2>2. at'[s] = "replied" =>
          reply'[s].tokens = 0 /\ reply'[s].reported = "length" /\ reply'[s].engine = "length"
    BY <1>0, <1>1 DEF Ask, TurnTypeOK
  <2>3. Budget(s)'
    BY <1>0, <2>1, <2>2 DEF SessionInv, Budget, InTurn
  <2>4. Own(s)'
    BY <1>0, <2>1, <2>2 DEF Own
  <2>5. reason[s] = "none"
    BY <1>0, <2>1 DEF SessionInv, Honest
  <2>6. Honest(s)'
    BY <2>1, <2>2, <2>5 DEF Honest
  <2>. QED
    BY <2>3, <2>4, <2>6
<1>2. CASE Generate(s, Adaptive(s))
  <2>1. PICK asked \in Limits, n \in 0 .. TurnLimit, call \in BOOLEAN,
             engine \in {"stop", "length", "repetition"} :
          /\ n <= MaxTokens(s, asked)
          /\ reply' = [reply EXCEPT ![s] = [tokens |-> n, engine |-> engine,
                                            reported |-> Reported(engine), call |-> call]]
          /\ at' = [at EXCEPT ![s] = IF Adaptive(s) /\ n > 0 THEN "teacher" ELSE "replied"]
    BY <1>2 DEF Generate
  <2>2. at[s] = "engine" /\ length' = length /\ reason' = reason
    BY <1>2 DEF Generate
  <2>3. reply'[s].tokens = n /\ reply'[s].engine = engine /\ reply'[s].reported = Reported(engine)
    BY <1>0, <2>1 DEF TurnTypeOK
  <2>4. at'[s] = IF Adaptive(s) /\ n > 0 THEN "teacher" ELSE "replied"
    BY <1>0, <2>1 DEF TurnTypeOK
  <2>5. n \in Nat /\ length[s] + n <= ContextLimit
    BY <1>0, <2>1, TurnAssumption DEF MaxTokens, Limits, Least, Remaining
  <2>6. Budget(s)'
    BY <1>0, <2>2, <2>3, <2>4, <2>5 DEF SessionInv, Budget, InTurn
  <2>7. Own(s)'
    BY <1>0, <2>3, <2>4, <2>5 DEF Own
  <2>8. reason[s] = "none"
    BY <1>0, <2>2 DEF SessionInv, Honest
  <2>9. Honest(s)'
    BY <2>2, <2>3, <2>4, <2>8 DEF Honest, Reported
  <2>. QED
    BY <2>6, <2>7, <2>9
<1>3. CASE AskTeacher(s)
  <2>1. at[s] = "teacher" /\ at'[s] = "extract" /\ suffix'[s] = length[s] - 1
        /\ UNCHANGED <<length, reply, diagnosed, turns, horizon, reason>>
    BY <1>0, <1>3 DEF AskTeacher, SuffixOfRequest, TurnTypeOK
  <2>2. Budget(s)'
    BY <1>0, <2>1 DEF SessionInv, Budget, InTurn
  <2>3. Own(s)'
    BY <2>1 DEF Own
  <2>4. Honest(s)'
    BY <1>0, <2>1 DEF SessionInv, Honest
  <2>. QED
    BY <2>2, <2>3, <2>4
<1>4. CASE Extract(s)
  <2>1. at[s] = "extract" /\ at'[s] = "replied" /\ UNCHANGED <<length, turns, horizon, reason>>
        /\ diagnosed'[s] = Diagnosed(length[s] + reply[s].tokens, suffix[s])
    BY <1>0, <1>4 DEF Extract, TurnTypeOK
  <2>2. \/ reply'[s] = reply[s]
        \/ reply'[s].tokens = 0 /\ reply'[s].reported = "length" /\ reply'[s].engine = reply[s].engine
    BY <1>0, <1>4 DEF Extract, TurnTypeOK, Replies
  <2>3. Budget(s)'
    BY <1>0, <2>1, <2>2 DEF SessionInv, Budget, InTurn
  <2>4. Own(s)'
    <3>1. length[s] \in Nat \ {0} /\ reply[s].tokens \in Nat
      BY <1>0, <2>1 DEF SessionInv, Budget, InTurn, Replies
    <3>2. length[s] - 1 \in Int \cup {NoStart}
      BY <3>1
    <3>3. Adaptive(s) => diagnosed'[s] = length[s] .. (length[s] + reply[s].tokens - 1)
      BY <1>0, <2>1, <3>1, <3>2, DiagnosisIsTheTurn DEF SessionInv, Own
    <3>. QED
      BY <1>0, <2>1, <2>2, <3>3 DEF Own
  <2>5. Honest(s)'
    BY <1>0, <2>1, <2>2 DEF SessionInv, Honest
  <2>. QED
    BY <2>3, <2>4, <2>5
<1>5. CASE Deliver(s)
  <2>1. at[s] = "replied" /\ at'[s] = (IF HasTools(s) THEN "tools" ELSE "ended")
        /\ length'[s] = length[s] + reply[s].tokens /\ reply' = reply
        /\ reason'[s] = IF HasTools(s) THEN reason[s] ELSE StepReason(s)
    BY <1>0, <1>5 DEF Deliver, TurnTypeOK
  <2>2. reply[s].tokens \in Nat /\ reason[s] = "none" /\ (HasTools(s) => reply[s].call)
    BY <1>0, <2>1 DEF SessionInv, Honest, Replies, HasTools
  <2>3. Budget(s)'
    BY <1>0, <2>1, <2>2 DEF SessionInv, Budget, InTurn
  <2>4. Own(s)'
    BY <2>1 DEF Own
  <2>5. Honest(s)'
    BY <1>0, <2>1, <2>2 DEF SessionInv, Honest, HasTools, StepReason, Replies
  <2>. QED
    BY <2>3, <2>4, <2>5
<1>6. CASE CallTools(s)
  <2>1. at[s] = "tools" /\ at'[s] \in {"ask", "ended"} /\ UNCHANGED <<reply, turns, horizon>>
    BY <1>0, <1>6 DEF CallTools, TurnTypeOK
  <2>2. /\ length'[s] <= ContextLimit /\ length'[s] > 0
        /\ at'[s] = "ask" => reason'[s] = reason[s]
        /\ at'[s] = "ended" => \/ reason'[s] = "max_steps" /\ turns[s] = horizon[s]
                               \/ reason'[s] = "token_limit"
    BY <1>0, <1>6, CapacityFits DEF CallTools, TurnTypeOK, SessionInv, Budget, InTurn
  <2>3. Budget(s)'
    BY <2>1, <2>2 DEF Budget
  <2>4. Own(s)'
    BY <2>1 DEF Own
  <2>5. Honest(s)'
    BY <1>0, <2>1, <2>2 DEF SessionInv, Honest
  <2>. QED
    BY <2>3, <2>4, <2>5
<1>. QED
  BY <1>1, <1>2, <1>3, <1>4, <1>5, <1>6 DEF Turn

\* The steps of a session around its turns keep its own part of the invariant
\* (opd_framework.py:32-39,101-129).
LEMMA SessionKeepsOwn ==
  ASSUME IInv, NEW s \in Sessions, Session(s), UNCHANGED <<trainerVars, progress>>
  PROVE  SessionInv(s)'
<1>0. /\ TurnTypeOK /\ SessionTypeOK /\ SessionInv(s)
      /\ UNCHANGED <<config, trainer, step, submitted, weights, progress>>
  BY DEF IInv, TypeOK, trainerVars
<1>1. CASE Start(s)
  <2>1. /\ at[s] = "waiting" /\ at'[s] = "ask" /\ length'[s] = PromptLength /\ horizon'[s] = Horizon(s)
        /\ UNCHANGED <<reply, suffix, diagnosed, turns, reason, seen, todo, labelled, cut>>
    BY <1>0, <1>1 DEF Start, TurnTypeOK, sessionVars
  <2>2. Budget(s)'
    BY <2>1, TurnAssumption DEF Budget
  <2>3. (Own(s) /\ Honest(s) /\ Labels(s))'
    BY <1>0, <2>1 DEF SessionInv, Own, Honest, Labels, Validation
  <2>4. Horizon(s)' = Horizon(s)
    BY <1>0 DEF Horizon, RolloutMaxTurns, Validation
  <2>5. Curriculum(s)'
    BY <1>0, <2>1, <2>4 DEF SessionInv, Curriculum, Validation
  <2>6. Fixed(s)'
    BY <1>0, <2>1 DEF SessionInv, Fixed, Validation
  <2>. QED
    BY <2>2, <2>3, <2>5, <2>6 DEF SessionInv
<1>2. CASE TakeTurn(s)
  <2>1. Turn(s, Adaptive(s)) /\ UNCHANGED config
    BY <1>0, <1>2 DEF TakeTurn
  <2>. QED
    BY <2>1, <1>2, TurnKeepsPlace, TurnKeepsPromises DEF SessionInv
<1>3. CASE EndEpisode(s)
  <2>1. /\ at[s] = "ended" /\ at'[s] = "scoring" /\ length'[s] = 0 /\ reason'[s] = "none"
        /\ UNCHANGED <<horizon, seen>>
    BY <1>0, <1>3 DEF EndEpisode, Forget, TurnTypeOK
  <2>2. PICK n \in Trajectories : /\ cut'[s] = n /\ todo'[s] = ToScore(s, n)
                                  /\ labelled'[s] = IF Adaptive(s) THEN 1 .. n ELSE {}
    BY <1>0, <1>3 DEF EndEpisode, SessionTypeOK
  <2>3. Budget(s)' /\ Own(s)' /\ Honest(s)'
    BY <2>1, TurnAssumption DEF Budget, Own, Honest, InTurn
  <2>4. Labels(s)'
    BY <2>1, <2>2 DEF Labels, ToScore, Adaptive, Validation
  <2>5. (Curriculum(s) /\ Fixed(s))'
    BY <2>1, PlaceIsKept
  <2>. QED
    BY <2>3, <2>4, <2>5 DEF SessionInv
<1>4. CASE Write(s)
  <2>1. /\ at[s] = "scoring" /\ at'[s] = "written" /\ todo[s] = {}
        /\ UNCHANGED <<length, reply, suffix, diagnosed, turns, horizon, reason, seen, todo, labelled, cut>>
    BY <1>0, <1>4 DEF Write, Gathered, TurnTypeOK, sessionVars
  <2>2. (Budget(s) /\ Own(s) /\ Honest(s))'
    BY <1>0, <2>1 DEF SessionInv, Budget, Own, Honest, InTurn
  <2>3. Labels(s)'
    BY <1>0, <2>1 DEF SessionInv, Labels, Validation
  <2>4. (Curriculum(s) /\ Fixed(s))'
    BY <2>1, PlaceIsKept
  <2>. QED
    BY <2>2, <2>3, <2>4 DEF SessionInv
<1>5. CASE TaskFails(s)
  <2>1. /\ at[s] \in {"ask", "ended"} /\ at'[s] = "failed" /\ length'[s] = 0 /\ reason'[s] = "none"
        /\ UNCHANGED <<horizon, seen, todo, labelled, cut>>
    BY <1>0, <1>5 DEF TaskFails, Forget, TurnTypeOK, sessionVars
  <2>2. Budget(s)' /\ Own(s)' /\ Honest(s)'
    BY <2>1, TurnAssumption DEF Budget, Own, Honest, InTurn
  <2>3. Labels(s)'
    BY <1>0, <2>1 DEF SessionInv, Labels, Validation
  <2>4. (Curriculum(s) /\ Fixed(s))'
    BY <2>1, PlaceIsKept DEF InTurn
  <2>. QED
    BY <2>2, <2>3, <2>4 DEF SessionInv
<1>6. ASSUME NEW t \in todo[s], Scored(s, t) PROVE SessionInv(s)'
  <2>1. /\ UNCHANGED <<at, length, reply, suffix, diagnosed, turns, horizon, reason, seen, cut>>
        /\ todo'[s] = todo[s] \ {t} /\ labelled'[s] = labelled[s] \cup {t}
    BY <1>0, <1>6 DEF Scored, turnVars, SessionTypeOK
  <2>2. at[s] \in {"scoring", "failed"} \/ at[s] \notin {"scoring", "failed", "written"}
    BY <1>0, <1>6 DEF SessionInv, Labels
  <2>3. (Budget(s) /\ Own(s) /\ Honest(s))'
    BY <1>0, <2>1 DEF SessionInv, Budget, Own, Honest, Adaptive, Validation
  <2>4. Labels(s)'
    BY <1>0, <1>6, <2>1, <2>2 DEF SessionInv, Labels, Validation
  <2>5. Curriculum(s)'
    BY <1>0, <2>1 DEF SessionInv, Curriculum, Horizon, RolloutMaxTurns, Validation
  <2>6. Fixed(s)'
    BY <1>0, <2>1 DEF SessionInv, Fixed, Validation
  <2>. QED
    BY <2>3, <2>4, <2>5, <2>6 DEF SessionInv
<1>7. ASSUME NEW t \in todo[s], ScoreFails(s, t) PROVE SessionInv(s)'
  <2>1. /\ UNCHANGED <<length, reply, suffix, diagnosed, turns, horizon, reason, seen, labelled, cut>>
        /\ at'[s] = "failed" /\ todo'[s] = todo[s] \ {t}
    BY <1>0, <1>7 DEF ScoreFails, SessionTypeOK, TurnTypeOK
  <2>2. at[s] \in {"scoring", "failed"} /\ ~ Validation(s)
    BY <1>0, <1>7 DEF SessionInv, Labels
  <2>3. (Budget(s) /\ Own(s) /\ Honest(s))'
    BY <1>0, <2>1, <2>2 DEF SessionInv, Budget, Own, Honest, InTurn
  <2>4. Labels(s)'
    BY <1>0, <2>1, <2>2 DEF SessionInv, Labels, Validation
  <2>5. Curriculum(s)'
    BY <1>0, <2>1, <2>2 DEF SessionInv, Curriculum, Horizon, RolloutMaxTurns, Validation
  <2>6. Fixed(s)'
    BY <1>0, <2>1, <2>2 DEF SessionInv, Fixed, Validation
  <2>. QED
    BY <2>3, <2>4, <2>5, <2>6 DEF SessionInv
<1>8. CASE AgentStops(s)
  <2>1. /\ at[s] \in InTurn /\ at'[s] = "ended"
        /\ UNCHANGED <<length, reply, suffix, diagnosed, turns, horizon, reason, seen, todo, labelled, cut>>
    BY <1>0, <1>8 DEF AgentStops, TurnTypeOK, sessionVars
  <2>2. Budget(s)' /\ Own(s)' /\ Honest(s)'
    BY <1>0, <2>1 DEF SessionInv, Budget, Own, Honest, InTurn
  <2>3. Labels(s)'
    BY <1>0, <2>1 DEF SessionInv, Labels, Validation, InTurn
  <2>4. (Curriculum(s) /\ Fixed(s))'
    BY <2>1, PlaceIsKept DEF InTurn
  <2>. QED
    BY <2>2, <2>3, <2>4 DEF SessionInv
<1>. QED
  BY <1>1, <1>2, <1>3, <1>4, <1>5, <1>6, <1>7, <1>8 DEF Session

-------------------------------------------------------------------------------
(* The invariant, and what follows from it. *)

\* The invariant holds at the start.
LEMMA InitEstablishes == Init => IInv
<1>. SUFFICES ASSUME Init PROVE IInv
  OBVIOUS
<1>0. Steps \in Nat \ {0} /\ ContextLimit \in Nat
  BY TurnAssumption, RolloutAssumption
<1>1. TurnTypeOK
  <2>1. NoReply \in Replies
    BY DEF NoReply, Replies
  <2>. QED
    BY <2>1 DEF Init, TurnInit, TurnTypeOK, Stages
<1>2. TrainerTypeOK /\ SessionTypeOK
  BY <1>0 DEF Init, TrainerTypeOK, SessionTypeOK
<1>3. Phase
  BY DEF Init, Phase
<1>4. ASSUME NEW s \in Sessions PROVE SessionInv(s)
  <2>1. s[1] \in Nat /\ s[1] >= 1
    BY BatchType
  <2>2. /\ at[s] = "idle" /\ length[s] = 0 /\ turns[s] = 0 /\ horizon[s] = 0 /\ reason[s] = "none"
        /\ seen[s] = {} /\ todo[s] = {} /\ labelled[s] = {} /\ submitted = 0 /\ weights = 1
        /\ trainer = "create"
    BY DEF Init, TurnInit
  <2>3. Budget(s) /\ Own(s) /\ Honest(s) /\ Labels(s)
    BY <1>0, <2>2 DEF Budget, Own, Honest, Labels, InTurn
  <2>4. Curriculum(s) /\ Fixed(s)
    BY <2>1, <2>2 DEF Curriculum, Fixed
  <2>. QED
    BY <2>3, <2>4 DEF SessionInv
<1>. QED
  BY <1>1, <1>2, <1>3, <1>4 DEF IInv, TypeOK

\* A session's step keeps the whole invariant.
LEMMA SessionKeeps ==
  ASSUME IInv, NEW s \in Sessions, Session(s)
  PROVE  IInv'
<1>1. TypeOK' /\ UNCHANGED <<trainerVars, progress>> /\ \A r \in Sessions \ {s} : SameFor(r)
  BY SessionStep
<1>2. Phase'
  BY <1>1 DEF IInv, Phase, Accepted, trainerVars
<1>3. ASSUME NEW r \in Sessions PROVE SessionInv(r)'
  BY <1>1, OthersStay, SessionKeepsOwn
<1>. QED
  BY <1>1, <1>2, <1>3 DEF IInv

\* No step of the trainer or of a session, and no stutter, breaks it.
LEMMA NextKeeps == IInv /\ [Next]_vars => IInv'
<1>. SUFFICES ASSUME IInv, [Next]_vars PROVE IInv'
  OBVIOUS
<1>1. CASE UNCHANGED vars
  <2>1. UNCHANGED <<turnVars, trainerVars, sessionVars, failures>>
    BY <1>1 DEF vars
  <2>2. TurnTypeOK' /\ SessionTypeOK'
    BY <2>1, QuietKeepsSessions DEF trainerVars
  <2>3. TrainerTypeOK' /\ Phase'
    BY <2>1 DEF trainerVars, IInv, TypeOK, TrainerTypeOK, Phase, Accepted
  <2>4. ASSUME NEW s \in Sessions PROVE SessionInv(s)'
    BY <2>1, OthersStay DEF SameFor, turnVars, sessionVars
  <2>. QED
    BY <2>2, <2>3, <2>4 DEF IInv, TypeOK
<1>. QED
  BY <1>1, TrainerKeeps, SessionKeeps DEF Next

\* The invariant holds in every reachable state.
THEOREM Invariance == Spec => []IInv
BY InitEstablishes, NextKeeps, PTL DEF Spec

\* Every variable keeps its type (opd_framework.py:32-39,101-214).
THEOREM RolloutTypeOK == Spec => []TypeOK
<1>1. IInv => TypeOK
  BY DEF IInv
<1>. QED
  BY <1>1, Invariance, PTL

\* The server's budget and the gateway's capacity keep every conversation within
\* the context (vllm_server.py:34-41, opd_gateway.py:71-80).
THEOREM ConversationFits == Spec => []ContextIsBounded
<1>1. IInv => ContextIsBounded
  <2>. SUFFICES ASSUME IInv, NEW s \in Sessions
                PROVE  length[s] + (IF at[s] \in {"teacher", "extract", "replied"} THEN reply[s].tokens ELSE 0)
                         <= ContextLimit
    BY DEF ContextIsBounded
  <2>1. Budget(s) /\ length[s] \in Nat
    BY DEF IInv, SessionInv, TypeOK, TurnTypeOK
  <2>. QED
    BY <2>1 DEF Budget
<1>. QED
  BY <1>1, Invariance, PTL

\* A turn that was cut off runs no tool, and the reason of an episode is what
\* the engine said (vllm_server.py:49-51, opd_gateway.py:24-27,
\* react_agent.py:18-45).
THEOREM ReasonsAreHonest == Spec => []CutTurnsRunNoTools
<1>1. IInv => CutTurnsRunNoTools
  BY DEF IInv, SessionInv, Honest, CutTurnsRunNoTools
<1>. QED
  BY <1>1, Invariance, PTL

\* The entropies a turn is judged by are those of its own tokens, however many
\* requests the server works on (vllm_server.py:26-28,46-54,
\* adaptive_teacher.py:14-18).
THEOREM DiagnosisIsOwn == Spec => []EntropyIsOfOwnTurn
<1>1. IInv => EntropyIsOfOwnTurn
  BY DEF IInv, SessionInv, Own, EntropyIsOfOwnTurn
<1>. QED
  BY <1>1, Invariance, PTL

\* With synchronous rollouts one batch uses one version of the student, and no
\* session of it is left when the version changes (opd_framework.py:192-214).
THEOREM BatchUsesOneVersion == Spec => []FixedWeights
<1>1. IInv => FixedWeights
  <2>. SUFFICES ASSUME IInv, config.synchronous \/ config.algorithm = "adaptive", NEW b \in 1 .. Steps
                PROVE  /\ Cardinality(UNION {seen[s] : s \in Batch(b)}) <= 1
                       /\ weights > b => Batch(b) \subseteq Settled
    BY DEF FixedWeights
  <2>0. Steps \in Nat /\ b # Steps + 1
    BY RolloutAssumption
  <2>1. ASSUME NEW s \in Batch(b) PROVE s \in Sessions /\ s[1] = b /\ ~ Validation(s) /\ SessionInv(s)
    BY <2>0 DEF Batch, Validation, IInv
  <2>2. UNION {seen[s] : s \in Batch(b)} \subseteq {b} /\ (weights > b => Batch(b) \subseteq Settled)
    <3>1. CASE trainer \in {"create", "rejected"}
      <4>1. submitted = 0 /\ weights = 1
        BY <3>1 DEF IInv, Phase
      <4>2. \A s \in Batch(b) : seen[s] = {}
        BY <2>0, <2>1, <4>1 DEF SessionInv, Curriculum
      <4>. QED
        BY <2>0, <4>1, <4>2
    <3>2. CASE trainer \notin {"create", "rejected"}
      <4>1. config.synchronous
        BY <3>2 DEF IInv, Phase, Accepted
      <4>2. \A s \in Batch(b) : seen[s] \subseteq {b} /\ (weights > b => at[s] \in {"written", "failed"})
        BY <2>1, <4>1 DEF SessionInv, Fixed
      <4>. QED
        BY <2>1, <4>2 DEF Settled
    <3>. QED
      BY <3>1, <3>2
  <2>3. Cardinality({b}) = 1 /\ IsFiniteSet({b})
    BY FS_Singleton
  <2>4. Cardinality(UNION {seen[s] : s \in Batch(b)}) <= 1
    BY <2>2, <2>3, FS_Subset
  <2>. QED
    BY <2>2, <2>4
<1>. QED
  BY <1>1, Invariance, PTL

\* Rows enter the queue whole and labelled, or not at all
\* (opd_framework.py:115-129).
THEOREM QueueHoldsLabelledRows == Spec => []RowsAreLabelled
<1>1. IInv => RowsAreLabelled
  <2>. SUFFICES ASSUME IInv, NEW s \in Sessions
                PROVE  /\ at[s] = "written" /\ ~ Validation(s) => labelled[s] = 1 .. cut[s] /\ todo[s] = {}
                       /\ Validation(s) => todo[s] = {} /\ labelled[s] = {}
    BY DEF RowsAreLabelled
  <2>1. Labels(s)
    BY DEF IInv, SessionInv
  <2>. QED
    BY <2>1 DEF Labels
<1>. QED
  BY <1>1, Invariance, PTL

\* Sessions of one batch have one horizon and later batches none that is shorter,
\* though their slots come at any time (opd_framework.py:32-39,
\* algorithms/tcod.py:14-16).
THEOREM HorizonsFollowBatches == Spec => []CurriculumFollowsBatches
<1>1. IInv => CurriculumFollowsBatches
  <2>. SUFFICES ASSUME IInv, NEW s \in Sessions, NEW r \in Sessions,
                       horizon[s] > 0, horizon[r] > 0, s[1] <= r[1]
                PROVE  horizon[s] <= horizon[r]
    BY DEF CurriculumFollowsBatches
  <2>0. s[1] \in Nat \ {0} /\ r[1] \in Nat \ {0} /\ s[1] <= Steps + 1 /\ r[1] <= Steps + 1
        /\ Steps \in Nat /\ MaxTurns \in Nat
    BY BatchType, RolloutAssumption
  <2>1. /\ horizon[s] = Horizon(s) /\ horizon[r] = Horizon(r)
        /\ s[1] <= submitted /\ r[1] <= submitted /\ Curriculum(s) /\ Curriculum(r)
        /\ progress[s] \in Nat /\ progress[r] \in Nat
    BY <2>0 DEF IInv, SessionInv, Curriculum, TypeOK, TrainerTypeOK, SessionTypeOK
  <2>2. CASE Validation(r)
    BY <2>0, <2>1, <2>2, HorizonGrows DEF Horizon
  <2>3. CASE ~ Validation(r)
    <3>1. ~ Validation(s)
      BY <2>0, <2>3 DEF Validation
    <3>2. progress[s] <= progress[r]
      BY <2>0, <2>1, <2>3, <3>1 DEF Curriculum
    <3>. QED
      BY <2>1, <2>3, <3>1, <3>2, HorizonGrows DEF Horizon
  <2>. QED
    BY <2>2, <2>3
<1>. QED
  BY <1>1, Invariance, PTL
===============================================================================
