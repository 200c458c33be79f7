------------------------------ MODULE OPDRollout --------------------------------
(***************************************************************************)
(* A training run's rollouts seen from the trainer: batches are submitted  *)
(* to the framework (opd_framework.py), every prompt becomes a session     *)
(* that waits for a slot, gets its horizon (run_r2e_task, algorithms/),    *)
(* takes turns (EngineTurn), is scored by the teacher and written to       *)
(* TransferQueue, while the trainer updates the student's weights.         *)
(*                                                                         *)
(* The upstream framework's semaphore and its handling of a failed session *)
(* and the trainer's loop are external.  A session is <<batch, index>>;    *)
(* the last batch is a validation batch.                                   *)
(***************************************************************************)
EXTENDS EngineTurn

CONSTANTS
  Steps,            \* total_training_steps
  Slots,            \* agent_framework concurrency
  MaxTurns,         \* agent.max_steps of the task configuration
  GrowthInterval,   \* tcod_growth_interval
  Trajectories,     \* bound: numbers of trajectories the gateway may cut a session into
  MaxFailures       \* bound: agents, tasks and teacher calls that fail

ASSUME RolloutAssumption ==
  /\ Steps \in Nat \ {0} /\ Slots \in Nat \ {0}
  /\ MaxTurns \in Nat \ {0} /\ GrowthInterval \in Nat \ {0}
  /\ Trajectories \subseteq Nat \ {0} /\ MaxFailures \in Nat
  /\ Sessions \subseteq (1 .. (Steps + 1)) \X Nat

VARIABLES
  config,    \* what create() is called with
  trainer,   \* the trainer's next call
  step,      \* global_steps
  submitted, \* batches submitted so far
  progress,  \* _opd_progress.step of every session, copied at dispatch
  weights,   \* the student's version
  seen,      \* versions a session's turns were generated with
  todo,      \* teacher calls of a session under way
  labelled,  \* trajectories of a session with teacher_logprobs
  cut,       \* trajectories of a session
  failures

trainerVars == <<config, trainer, step, submitted, weights>>
sessionVars == <<progress, seen, todo, labelled, cut>>
vars == <<turnVars, trainerVars, sessionVars, failures>>

Configs ==
  [algorithm : {"vanilla", "tcod", "adaptive"}, synchronous : BOOLEAN,
   prefetch : BOOLEAN, teacher : BOOLEAN]

Batch(b) == {s \in Sessions : s[1] = b}

Validation(s) == s[1] = Steps + 1

Adaptive(s) == config.algorithm = "adaptive" /\ ~ Validation(s)

Settled == {s \in Sessions : at[s] \in {"written", "failed"}}

-------------------------------------------------------------------------------
(* Construction.  An operator marked "Fault:" is a plausible bug in the
   definition that follows it; no specification here uses it. *)

\* OPDAgentFrameworkRolloutAdapter.create; a missing teacher is refused there
\* for Adaptive and otherwise by configure_teacher in the worker's constructor,
\* so that no call of the worker succeeds.
Accepted ==
  /\ config.teacher                     \* "distillation is enabled but teacher_client is missing"
  /\ config.algorithm = "adaptive" => config.synchronous
  /\ config.synchronous => ~ config.prefetch

Create ==
  /\ trainer = "create"
  /\ trainer' = IF Accepted THEN "submit" ELSE "rejected"
  /\ UNCHANGED <<turnVars, sessionVars, config, step, submitted, weights, failures>>

-------------------------------------------------------------------------------
(* The trainer. *)

\* Prompts get copies of their fields with the step at which they are dispatched.
Dispatch(b) ==
  /\ submitted' = submitted + 1
  /\ at' = [s \in Sessions |-> IF s[1] = b THEN "waiting" ELSE at[s]]
  /\ progress' = [s \in Sessions |-> IF s[1] = b THEN step ELSE progress[s]]
  /\ UNCHANGED <<length, reply, suffix, diagnosed, turns, horizon, reason>>

\* Fault: the result of the remote call is not waited for.
NeverWait == "sample"

\* generate_sequences returns at once unless rollouts are synchronous.
AfterSubmit == IF config.synchronous THEN "wait" ELSE "sample"

Submit ==
  /\ trainer = "submit"
  /\ IF submitted >= step
       THEN UNCHANGED <<turnVars, submitted, progress>>
       ELSE Dispatch(step)
  /\ trainer' = AfterSubmit
  /\ UNCHANGED <<config, step, weights, seen, todo, labelled, cut, failures>>

\* ray.get: the remote call ends with the batch's last session.
Wait ==
  /\ trainer = "wait"
  /\ Batch(step) \subseteq Settled
  /\ trainer' = "sample"
  /\ UNCHANGED <<turnVars, sessionVars, config, step, submitted, weights, failures>>

\* The trainer polls the queue for whatever of the batch it gets first.
Sample ==
  /\ trainer = "sample"
  /\ \/ \E s \in Batch(step) : at[s] = "written"
     \/ Batch(step) \subseteq Settled
  /\ trainer' = "update"
  /\ IF config.prefetch /\ step < Steps
       THEN Dispatch(step + 1)
       ELSE UNCHANGED <<turnVars, submitted, progress>>
  /\ UNCHANGED <<config, step, weights, seen, todo, labelled, cut, failures>>

\* The actor update and the weight synchronisation; after the last step the
\* validation batch is dispatched and waited for.
Update ==
  /\ trainer = "update"
  /\ weights' = weights + 1
  /\ IF step < Steps
       THEN trainer' = "submit" /\ step' = step + 1 /\ UNCHANGED <<turnVars, submitted, progress>>
       ELSE trainer' = "validate" /\ Dispatch(Steps + 1) /\ UNCHANGED step
  /\ UNCHANGED <<config, seen, todo, labelled, cut, failures>>

\* generate_sequences_and_wait.
Validate ==
  /\ trainer = "validate"
  /\ Batch(Steps + 1) \subseteq Settled
  /\ trainer' = "done"
  /\ UNCHANGED <<turnVars, sessionVars, config, step, submitted, weights, failures>>

Trainer == Create \/ Submit \/ Wait \/ Sample \/ Update \/ Validate

-------------------------------------------------------------------------------
(* A session. *)

\* TCOD and VanillaOPD; AdaptiveOPD inherits the latter.
RolloutMaxTurns(now) ==
  IF config.algorithm = "tcod" THEN Least(MaxTurns, 1 + now \div GrowthInterval) ELSE MaxTurns

\* Fault: the trainer's current step decides.
HorizonNow(s) == IF Validation(s) THEN MaxTurns ELSE RolloutMaxTurns(step)

\* run_r2e_task: the horizon is that of the dispatched step; validation has all.
Horizon(s) == IF Validation(s) THEN MaxTurns ELSE RolloutMaxTurns(progress[s])

Start(s) ==
  /\ at[s] = "waiting"
  /\ Cardinality({r \in Sessions : at[r] \in InTurn}) < Slots
  /\ at' = [at EXCEPT ![s] = "ask"]
  /\ length' = [length EXCEPT ![s] = PromptLength]
  /\ horizon' = [horizon EXCEPT ![s] = Horizon(s)]
  /\ UNCHANGED <<reply, suffix, diagnosed, turns, reason, trainerVars, sessionVars, failures>>

\* The engine works with the weights of the moment.
TakeTurn(s) ==
  /\ Turn(s, Adaptive(s))
  /\ seen' = IF at[s] = "engine" THEN [seen EXCEPT ![s] = @ \cup {weights}] ELSE seen
  /\ UNCHANGED <<trainerVars, progress, todo, labelled, cut, failures>>

\* Validation is not scored, an adaptive session's labels are attached by its
\* AdaptiveSession; only what has no teacher_logprobs is scored.
ToScore(s, n) == IF Validation(s) \/ Adaptive(s) THEN {} ELSE 1 .. n

\* finalize_session has cut the conversation; one teacher call each, gathered.
EndEpisode(s) ==
  /\ at[s] = "ended"
  /\ \E n \in Trajectories :
       /\ cut' = [cut EXCEPT ![s] = n]
       /\ todo' = [todo EXCEPT ![s] = ToScore(s, n)]
       /\ labelled' = [labelled EXCEPT ![s] = IF Adaptive(s) THEN 1 .. n ELSE {}]
  /\ at' = [at EXCEPT ![s] = "scoring"]
  /\ Forget(s)
  /\ UNCHANGED <<trainerVars, progress, seen, failures>>

\* A teacher call returns; one of a failed session only finds nobody waiting.
Scored(s, t) ==
  /\ todo' = [todo EXCEPT ![s] = @ \ {t}]
  /\ labelled' = [labelled EXCEPT ![s] = @ \cup {t}]
  /\ UNCHANGED <<turnVars, trainerVars, progress, seen, cut, failures>>

\* gather raises the first error and leaves the other calls running.
ScoreFails(s, t) ==
  /\ failures < MaxFailures
  /\ failures' = failures + 1
  /\ todo' = [todo EXCEPT ![s] = @ \ {t}]
  /\ at' = [at EXCEPT ![s] = "failed"]
  /\ UNCHANGED <<length, reply, suffix, diagnosed, turns, horizon, reason, trainerVars,
                 progress, seen, labelled, cut>>

\* Fault: the rows are written as soon as the first label has arrived.
GatheredOne(s) == todo[s] = {} \/ labelled[s] # {}

Gathered(s) == todo[s] = {}

\* The session's rows enter TransferQueue.
Write(s) ==
  /\ at[s] = "scoring" /\ Gathered(s)
  /\ at' = [at EXCEPT ![s] = "written"]
  /\ UNCHANGED <<length, reply, suffix, diagnosed, turns, horizon, reason, trainerVars,
                 sessionVars, failures>>

\* R2EGymTask.run catches the deadline and what the agent raises: whatever the
\* turn was doing is dropped and the task returns, so the session is scored.
AgentStops(s) ==
  /\ at[s] \in InTurn
  /\ failures < MaxFailures
  /\ failures' = failures + 1
  /\ at' = [at EXCEPT ![s] = "ended"]
  /\ UNCHANGED <<length, reply, suffix, diagnosed, turns, horizon, reason, trainerVars,
                 sessionVars>>

\* What it does not catch, the sandbox and its set-up before the agent and the
\* evaluation after it: the session is aborted.
TaskFails(s) ==
  /\ \/ at[s] = "ask" /\ turns[s] = 0
     \/ at[s] = "ended"
  /\ failures < MaxFailures
  /\ failures' = failures + 1
  /\ at' = [at EXCEPT ![s] = "failed"]
  /\ Forget(s)
  /\ UNCHANGED <<trainerVars, sessionVars>>

Session(s) ==
  \/ Start(s) \/ TakeTurn(s) \/ EndEpisode(s) \/ Write(s) \/ AgentStops(s) \/ TaskFails(s)
  \/ \E t \in todo[s] : Scored(s, t) \/ ScoreFails(s, t)

Init ==
  /\ TurnInit
  /\ config \in Configs
  /\ trainer = "create" /\ step = 1 /\ submitted = 0 /\ weights = 1
  /\ progress = [s \in Sessions |-> 0]
  /\ seen = [s \in Sessions |-> {}]
  /\ todo = [s \in Sessions |-> {}]
  /\ labelled = [s \in Sessions |-> {}]
  /\ cut = [s \in Sessions |-> 0]
  /\ failures = 0

Next == Trainer \/ \E s \in Sessions : Session(s)

Spec == Init /\ [][Next]_vars

-------------------------------------------------------------------------------
(* Properties. *)

\* The teacher's entropy is averaged over exactly the tokens of the turn in
\* question, whatever other requests the server is working on
\* (vllm_server.py:26-28,46-54, adaptive_teacher.py:14-18).
EntropyIsOfOwnTurn ==
  \A s \in Sessions :
    Adaptive(s) /\ at[s] = "replied" /\ reply[s].tokens > 0 =>
      diagnosed[s] = length[s] .. (length[s] + reply[s].tokens - 1)

\* "One batch uses fixed Student weights" (opd_framework.py:207): with
\* synchronous rollouts, and so always with Adaptive, every turn of a batch is
\* generated by the same version and no session is left when it changes.
FixedWeights ==
  config.synchronous \/ config.algorithm = "adaptive" =>
    \A b \in 1 .. Steps :
      /\ Cardinality(UNION {seen[s] : s \in Batch(b)}) <= 1
      /\ weights > b => Batch(b) \subseteq Settled

\* A session's rows reach the queue whole and labelled or not at all: one
\* failing call of several keeps the others' rows out too, and a validation
\* batch costs the teacher nothing (opd_framework.py:115-129).
RowsAreLabelled ==
  \A s \in Sessions :
    /\ at[s] = "written" /\ ~ Validation(s) => labelled[s] = 1 .. cut[s] /\ todo[s] = {}
    /\ Validation(s) => todo[s] = {} /\ labelled[s] = {}

\* The curriculum is a matter of batches: all sessions of a batch have the same
\* horizon whenever they get their slot, and later batches no shorter one
\* (opd_framework.py:32-39, algorithms/tcod.py:14-16).
CurriculumFollowsBatches ==
  \A s, r \in Sessions :
    horizon[s] > 0 /\ horizon[r] > 0 => (s[1] <= r[1] => horizon[s] <= horizon[r])
===============================================================================
