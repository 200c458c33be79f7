------------------------------ MODULE ReactEval -------------------------------
(***************************************************************************)
(* The ReAct evaluator (eval_entrypoint.py): one driver evaluates several  *)
(* models (jobs) at the same time over one TransferQueue.  A rollout       *)
(* thread per job submits one stage after the other - the quick panel,     *)
(* then the rest - while the job's main loop polls the queue for scores    *)
(* and rewrites result.json.  The whole process may be killed and started  *)
(* again on the same result paths.                                         *)
(*                                                                         *)
(* A key "<uid>_<session>_<index>" is a record; uids are fresh per process *)
(* and per (job, task), so they are the pair here and die with the queue.  *)
(***************************************************************************)
EXTENDS Integers, Sequences, FiniteSets, Functions

CONSTANTS
  Jobs,
  Tasks,
  Quick,        \* the quick panel; {} without --quick-first
  N,            \* --n: sessions per task
  Scores,
  MaxLaunches   \* bound: how often the program is started

ASSUME EvalAssumption ==
  /\ Quick \subseteq Tasks
  /\ N \in Nat \ {0} /\ MaxLaunches \in Nat
  /\ IsFiniteSet(Jobs) /\ IsFiniteSet(Tasks)

VARIABLES
  tq,        \* TransferQueue: set of [job, task, session, index, score]
  session,   \* [Jobs -> [Tasks \X Sessions -> state]]
  pc,        \* [Jobs -> place in _evaluate]
  stage,     \* [Jobs -> index into Stages]
  done,      \* [Jobs -> what future.done() said]
  scores,    \* [Jobs -> task -> session -> score]: in memory
  count,     \* [Jobs -> number of scores at the last save]
  result,    \* [Jobs -> task -> session -> score]: result.json
  quick,     \* [Jobs -> task -> session -> score]: quick_result.json
  launches

vars == <<tq, session, pc, stage, done, scores, count, result, quick, launches>>

Sessions == 1 .. N

\* evaluation_stages
Stages == IF Quick = {} THEN <<Tasks>> ELSE <<Quick, Tasks \ Quick>>

NoScores == [t \in Tasks |-> <<>>]

Idle == [ts \in Tasks \X Sessions |-> "idle"]

Scored(f, t) == Cardinality(DOMAIN f[t])

-------------------------------------------------------------------------------
(* Reading and writing.  An operator marked "Fault:" is a plausible bug in the
   definition that follows it; no specification here uses it. *)

\* A session may be split into several trajectories: the last one is scored.
LastOf(entries) == CHOOSE e \in entries : \A f \in entries : f.index <= e.index

\* The rows whose key starts with the job's uid of the task.
RowsOf(j, t) == {e \in tq : e.job = j /\ e.task = t}

\* _read_scores for one task.
ReadScores(j, t) ==
  LET rows == RowsOf(j, t) IN
  [s \in {e.session : e \in rows} |-> LastOf({e \in rows : e.session = s}).score]

TaskIsComplete(f, t) == Scored(f, t) >= N

\* Only complete tasks are taken over from an earlier process.
TakenOver(f) == [t \in Tasks |-> IF TaskIsComplete(f, t) THEN f[t] ELSE <<>>]

\* Fault: a resumed evaluation runs the whole stage again.
WholeStage(j) == Stages[stage[j]]

Pending(j) == {t \in Stages[stage[j]] : ~ TaskIsComplete(scores[j], t)}

Total(f) == Cardinality({ts \in Tasks \X Sessions : ts[2] \in DOMAIN f[ts[1]]})

Finished(j) == \A ts \in Tasks \X Sessions : session[j][ts] # "running"

-------------------------------------------------------------------------------
(* The driver. *)

Launch ==
  /\ \A j \in Jobs : pc[j] \in {"down", "complete", "failed"}
  /\ launches < MaxLaunches
  /\ launches' = launches + 1
  /\ pc' = [j \in Jobs |-> "stage"]
  /\ stage' = [j \in Jobs |-> 1]
  /\ scores' = [j \in Jobs |-> TakenOver(result[j])]
  /\ result' = scores'
  /\ count' = [j \in Jobs |-> -1] /\ done' = [j \in Jobs |-> FALSE]
  /\ tq' = {} /\ session' = [j \in Jobs |-> Idle]
  /\ UNCHANGED quick

Killed ==
  /\ \E j \in Jobs : pc[j] \notin {"down", "complete", "failed"}
  /\ pc' = [j \in Jobs |-> "down"]
  /\ UNCHANGED <<tq, session, stage, done, scores, count, result, quick, launches>>

\* A stage is submitted to the rollout thread, unless nothing is left of it.
Submit(j) ==
  /\ pc[j] = "stage"
  /\ \/ /\ Pending(j) # {}
        /\ session' = [session EXCEPT ![j] = [ts \in Tasks \X Sessions |->
                         IF ts[1] \in Pending(j) THEN "running" ELSE session[j][ts]]]
        /\ pc' = [pc EXCEPT ![j] = "done?"]
        /\ count' = [count EXCEPT ![j] = -1]
     \/ /\ Pending(j) = {}
        /\ pc' = [pc EXCEPT ![j] = "staged"]
        /\ UNCHANGED <<session, count>>
  /\ UNCHANGED <<tq, stage, done, scores, result, quick, launches>>

AskDone(j) ==
  /\ pc[j] = "done?"
  /\ done' = [done EXCEPT ![j] = Finished(j)]
  /\ pc' = [pc EXCEPT ![j] = "read"]
  /\ UNCHANGED <<tq, session, stage, scores, count, result, quick, launches>>

\* Fault: the loop waits for a score of every session instead of done().
EverySessionScored(j) == \A t \in Stages[stage[j]] : TaskIsComplete(scores[j], t)

\* Fault: done() is asked again after the scores were read.
DoneAfterRead(j) == Finished(j)

\* The answer of future.done() from before the scores were read.
StageIsDone(j) == done[j]

\* scores.update(_read_scores(...))
Read(j) ==
  /\ pc[j] = "read"
  /\ scores' = [scores EXCEPT ![j] = [t \in Tasks |->
                  IF t \in Stages[stage[j]] /\ RowsOf(j, t) # {} THEN ReadScores(j, t) ELSE @[t]]]
  /\ pc' = [pc EXCEPT ![j] = "save"]
  /\ UNCHANGED <<tq, session, stage, done, count, result, quick, launches>>

\* One turn of the poll loop ends: save if anything is new, leave or sleep.
Save(j) ==
  /\ pc[j] = "save"
  /\ \/ /\ Total(scores[j]) # count[j] \/ StageIsDone(j)
        /\ result' = [result EXCEPT ![j] = scores[j]]
        /\ count' = [count EXCEPT ![j] = Total(scores[j])]
     \/ /\ Total(scores[j]) = count[j] /\ ~ StageIsDone(j)
        /\ UNCHANGED <<result, count>>
  /\ \/ ~ StageIsDone(j) /\ pc' = [pc EXCEPT ![j] = "done?"]
     \/ StageIsDone(j) /\ pc' = [pc EXCEPT ![j] = "staged"]
     \/ \* future.result() raises: the rollout as a whole has failed
        StageIsDone(j) /\ pc' = [pc EXCEPT ![j] = "failed"]
  /\ UNCHANGED <<tq, session, stage, done, scores, quick, launches>>

QuickReport(j) == Restrict(scores[j], Quick)

\* The end of a stage: quick_result.json after the first, the last save.
EndStage(j) ==
  /\ pc[j] = "staged"
  /\ IF Quick # {} /\ stage[j] = 1
       THEN quick' = [quick EXCEPT ![j] = QuickReport(j)]
       ELSE UNCHANGED quick
  /\ IF stage[j] < Len(Stages)
       THEN /\ stage' = [stage EXCEPT ![j] = @ + 1]
            /\ pc' = [pc EXCEPT ![j] = "stage"]
            /\ UNCHANGED result
       ELSE /\ result' = [result EXCEPT ![j] = scores[j]]
            /\ pc' = [pc EXCEPT ![j] = "complete"]
            /\ UNCHANGED stage
  /\ UNCHANGED <<tq, session, done, scores, count, launches>>

-------------------------------------------------------------------------------
(* The rollouts (Uni-Agent).  The trajectories of a session arrive together
   (_write_session_trajectories_to_tq), or the session fails. *)

Alive(j) == pc[j] \notin {"down", "failed"}

SessionSucceeds(j, t, s) ==
  /\ Alive(j) /\ session[j][<<t, s>>] = "running"
  /\ session' = [session EXCEPT ![j][<<t, s>>] = "over"]
  /\ \E written \in UNION {[0 .. last -> Scores] : last \in {0, 1}} :
       tq' = tq \cup {[job |-> j, task |-> t, session |-> s, index |-> i, score |-> written[i]] :
                        i \in DOMAIN written}
  /\ UNCHANGED <<pc, stage, done, scores, count, result, quick, launches>>

SessionFails(j, t, s) ==
  /\ Alive(j) /\ session[j][<<t, s>>] = "running"
  /\ session' = [session EXCEPT ![j][<<t, s>>] = "over"]
  /\ UNCHANGED <<tq, pc, stage, done, scores, count, result, quick, launches>>

Init ==
  /\ tq = {} /\ session = [j \in Jobs |-> Idle]
  /\ pc = [j \in Jobs |-> "down"] /\ stage = [j \in Jobs |-> 1]
  /\ done = [j \in Jobs |-> FALSE]
  /\ scores = [j \in Jobs |-> NoScores] /\ count = [j \in Jobs |-> -1]
  /\ result = [j \in Jobs |-> NoScores]
  /\ quick = [j \in Jobs |-> <<>>]
  /\ launches = 0

Driver(j) == Submit(j) \/ AskDone(j) \/ Read(j) \/ Save(j) \/ EndStage(j)

Rollouts(j) == \E t \in Tasks, s \in Sessions : SessionSucceeds(j, t, s) \/ SessionFails(j, t, s)

Next == Launch \/ Killed \/ \E j \in Jobs : Driver(j) \/ Rollouts(j)

Spec == Init /\ [][Next]_vars

\* Driver threads run; a session ends by its own session_timeout_seconds.
FairSpec == Spec /\ \A j \in Jobs : WF_vars(Driver(j)) /\ WF_vars(Rollouts(j))

-------------------------------------------------------------------------------
(* Properties. *)

\* What a job's sessions have scored in this process.
Outcome(j, t, s) == LastOf({e \in tq : e.job = j /\ e.task = t /\ e.session = s}).score

Succeeded(j, t) == {s \in Sessions : \E e \in tq : e.job = j /\ e.task = t /\ e.session = s}

\* The result a finished job leaves is the whole truth: every session that
\* succeeded is in it with its last trajectory's score, whenever the rollout
\* thread ended relative to the poll loop, and no other model's score is.
FinalResultIsTrue ==
  \A j \in Jobs : pc[j] = "complete" =>
    \A t \in Tasks : (\E s \in Sessions : session[j][<<t, s>>] # "idle") =>
      /\ DOMAIN result[j][t] = Succeeded(j, t)
      /\ \A s \in Succeeded(j, t) : result[j][t][s] = Outcome(j, t, s)

\* A step leaves alone what is complete in result.json.
KeepsComplete ==
  \A j \in Jobs, t \in Tasks : TaskIsComplete(result[j], t) => result'[j][t] = result[j][t]

\* A task with all its sessions in result.json keeps them over every restart.
CompleteTasksAreKept == [][KeepsComplete]_vars

\* An evaluation that is not killed ends, complete or with its error.
EvaluationEnds ==
  \A j \in Jobs : pc[j] = "stage" ~> pc[j] \in {"complete", "failed", "down"}
===============================================================================
