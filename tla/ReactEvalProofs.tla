--------------------------- MODULE ReactEvalProofs ----------------------------
(***************************************************************************)
(* What the ReAct evaluator leaves in result.json is true, for any set of  *)
(* models evaluated over one TransferQueue, any bundle, quick panel and    *)
(* number of sessions.                                                     *)
(*                                                                         *)
(* The argument.  A row of the queue is written once, by a session that is *)
(* over from then on; so what a job has read of a session stays the        *)
(* session's outcome (Memory).  A stage is left only when done() answered  *)
(* TRUE before the scores were read, and its tasks are touched by no later *)
(* stage; so at the end of every stage the scores are all there is of it   *)
(* (Settling).  A task that was complete before has no session now, hence  *)
(* no row, and nothing replaces its scores (Memory, Kept).                 *)
(***************************************************************************)
EXTENDS ReactEval, FiniteSetTheorems, TLAPS

States == {"idle", "running", "over"}

Places == {"down", "stage", "done?", "read", "save", "staged", "complete", "failed"}

Row == [job : Jobs, task : Tasks, session : Sessions, index : {0, 1}, score : Scores]

\* The scores of some sessions.
IsRecord(f) == f = [s \in DOMAIN f |-> f[s]] /\ DOMAIN f \subseteq Sessions

\* Every variable the argument needs has its type.
EvalTypeOK ==
  /\ tq \subseteq Row
  /\ session \in [Jobs -> [Tasks \X Sessions -> States]]
  /\ pc \in [Jobs -> Places]
  /\ stage \in [Jobs -> DOMAIN Stages]
  /\ done \in [Jobs -> BOOLEAN]
  /\ DOMAIN scores = Jobs /\ DOMAIN result = Jobs
  /\ scores = [j \in Jobs |-> [t \in Tasks |-> scores[j][t]]]
  /\ result = [j \in Jobs |-> [t \in Tasks |-> result[j][t]]]
  /\ \A j \in Jobs, t \in Tasks : IsRecord(scores[j][t]) /\ IsRecord(result[j][t])

\* No session of the task was started in this process.
Untouched(j, t) == \A s \in Sessions : session[j][<<t, s>>] = "idle"

\* Every session of the task was started in this process.
Touched(j, t) == \A s \in Sessions : session[j][<<t, s>>] # "idle"

\* A row is of a session that is over.
RowsAreFinal == \A e \in tq : session[e.job][<<e.task, e.session>>] = "over"

\* The scores of a task are of an earlier process, all or none of them, or
\* they are outcomes of this process.
Remembered(j, t) ==
  \/ Untouched(j, t) /\ (TaskIsComplete(scores[j], t) \/ scores[j][t] = <<>>)
  \/ /\ Touched(j, t)
     /\ DOMAIN scores[j][t] \subseteq Succeeded(j, t)
     /\ \A s \in DOMAIN scores[j][t] : scores[j][t][s] = Outcome(j, t, s)

Memory == \A j \in Jobs, t \in Tasks : Remembered(j, t)

\* Nothing of the task is under way.
Quiet(j, t) == \A s \in Sessions : session[j][<<t, s>>] # "running"

\* The task's sessions are over, and all they scored is in memory.
Settled(j, t) ==
  /\ Quiet(j, t)
  /\ Touched(j, t) => Succeeded(j, t) \subseteq DOMAIN scores[j][t]

\* A later stage is untouched; every stage but the current one is settled, and
\* the current one is when done() said so before the scores were read.
Settling ==
  \A j \in Jobs, t \in Tasks : pc[j] \notin {"down", "failed"} =>
    /\ \A k \in DOMAIN Stages : t \in Stages[k] /\ (k > stage[j] \/ (k = stage[j] /\ pc[j] = "stage"))
                                   => Untouched(j, t)
    /\ t \notin Stages[stage[j]] => Settled(j, t)
    /\ pc[j] \in {"stage", "staged", "complete"} => Settled(j, t)
    /\ pc[j] = "save" /\ done[j] => Settled(j, t)
    /\ pc[j] = "read" /\ done[j] => Quiet(j, t)

\* A complete task of result.json is the same in memory.
Kept == \A j \in Jobs, t \in Tasks : TaskIsComplete(result[j], t) => scores[j][t] = result[j][t]

\* A finished job has saved what it knows.
SavedLast == \A j \in Jobs : pc[j] = "complete" => result[j] = scores[j]

EvalInv == EvalTypeOK /\ RowsAreFinal /\ Memory /\ Settling /\ Kept /\ SavedLast

-------------------------------------------------------------------------------
(* Counting. *)

\* A task is complete when every session has its score (TaskIsComplete).
LEMMA CompleteMeans ==
  ASSUME NEW f, NEW t, IsRecord(f[t])
  PROVE  TaskIsComplete(f, t) <=> DOMAIN f[t] = Sessions
<1> DEFINE D == DOMAIN f[t]
<1>n. N \in Nat /\ N > 0 BY EvalAssumption
<1>s. IsFiniteSet(Sessions) /\ Cardinality(Sessions) = N
  BY <1>n, FS_Interval DEF Sessions
<1>d. D \in SUBSET Sessions BY DEF IsRecord
<1> HIDE DEF D
<1>1. IsFiniteSet(D) /\ Cardinality(D) <= Cardinality(Sessions)
      /\ (Cardinality(Sessions) = Cardinality(D) => Sessions = D)
  BY <1>s, <1>d, FS_Subset
<1>2. Cardinality(D) \in Nat BY <1>1, FS_CardinalityType
<1>3. Cardinality(D) >= N <=> D = Sessions BY <1>n, <1>s, <1>1, <1>2
<1> QED BY <1>3 DEF TaskIsComplete, Scored, D

\* A task without a score is not complete.
LEMMA EmptyIsIncomplete ==
  ASSUME NEW f, NEW t, f[t] = <<>>
  PROVE  IsRecord(f[t]) /\ ~ TaskIsComplete(f, t)
<1>n. N \in Nat /\ N > 0 BY EvalAssumption
<1>1. DOMAIN f[t] = {} OBVIOUS
<1>2. IsRecord(f[t]) BY <1>1 DEF IsRecord
<1>3. 1 \in Sessions BY <1>n DEF Sessions
<1>4. ~ TaskIsComplete(f, t) BY <1>1, <1>2, <1>3, CompleteMeans
<1> QED BY <1>2, <1>4

\* evaluation_stages: one or two stages, of tasks, no task in both.
LEMMA StagesAre ==
  /\ DOMAIN Stages = 1 .. Len(Stages) /\ Len(Stages) \in {1, 2}
  /\ \A k \in DOMAIN Stages : Stages[k] \subseteq Tasks
  /\ \A k, l \in DOMAIN Stages : k # l => Stages[k] \cap Stages[l] = {}
<1>1. CASE Quick = {}
  <2>1. Stages = <<Tasks>> BY <1>1 DEF Stages
  <2> QED BY <2>1
<1>2. CASE Quick # {}
  <2>1. Stages = <<Quick, Tasks \ Quick>> BY <1>2 DEF Stages
  <2>2. Len(Stages) = 2 /\ Stages[1] = Quick /\ Stages[2] = Tasks \ Quick /\ DOMAIN Stages = 1 .. 2
    BY <2>1
  <2>3. Quick \subseteq Tasks BY EvalAssumption
  <2>4. \A k \in 1 .. 2 : k = 1 \/ k = 2 OBVIOUS
  <2> QED BY <2>2, <2>3, <2>4
<1> QED BY <1>1, <1>2

\* Before the first launch nothing is known and nothing runs.
LEMMA EvalStarts == Init => EvalInv
<1> SUFFICES ASSUME Init PROVE EvalInv OBVIOUS
<1>e. \A j \in Jobs, t \in Tasks : scores[j][t] = <<>> /\ result[j][t] = <<>> BY DEF Init, NoScores
<1>k. \A j \in Jobs, t \in Tasks :
        /\ IsRecord(scores[j][t]) /\ ~ TaskIsComplete(scores[j], t)
        /\ IsRecord(result[j][t]) /\ ~ TaskIsComplete(result[j], t)
  BY <1>e, EmptyIsIncomplete
<1>1. EvalTypeOK
  <2>1. 1 \in DOMAIN Stages BY StagesAre
  <2>2. session \in [Jobs -> [Tasks \X Sessions -> States]] BY DEF Init, Idle, States
  <2>3. DOMAIN scores = Jobs /\ DOMAIN result = Jobs BY DEF Init
  <2>4. scores = [j \in Jobs |-> [t \in Tasks |-> scores[j][t]]]
        /\ result = [j \in Jobs |-> [t \in Tasks |-> result[j][t]]]
    BY DEF Init, NoScores
  <2>5. tq \subseteq Row /\ pc \in [Jobs -> Places] /\ stage \in [Jobs -> DOMAIN Stages] /\ done \in [Jobs -> BOOLEAN]
    BY <2>1 DEF Init, Places
  <2> QED BY <2>2, <2>3, <2>4, <2>5, <1>k DEF EvalTypeOK
<1>2. RowsAreFinal BY DEF Init, RowsAreFinal
<1>3. Memory BY <1>e DEF Init, Idle, Memory, Remembered, Untouched
<1>4. Settling BY DEF Init, Settling
<1>5. Kept BY <1>k DEF Kept
<1>6. SavedLast BY DEF Init, SavedLast
<1> QED BY <1>1, <1>2, <1>3, <1>4, <1>5, <1>6 DEF EvalInv

-------------------------------------------------------------------------------
(* Starting and dying. *)

\* A restart takes over exactly the complete tasks (Launch).
LEMMA LaunchKeeps == EvalInv /\ Launch => EvalInv' /\ KeepsComplete
<1> SUFFICES ASSUME EvalInv, Launch PROVE EvalInv' /\ KeepsComplete OBVIOUS
<1> USE DEF EvalInv
<1>a. \A j \in Jobs, t \in Tasks :
        /\ scores'[j][t] = IF TaskIsComplete(result[j], t) THEN result[j][t] ELSE <<>>
        /\ result'[j][t] = scores'[j][t]
  BY DEF Launch, TakenOver
<1>b. \A j \in Jobs, t \in Tasks : IsRecord(result[j][t]) BY DEF EvalTypeOK
<1>c. \A j \in Jobs, t \in Tasks :
        /\ IsRecord(scores'[j][t])
        /\ TaskIsComplete(scores'[j], t) \/ scores'[j][t] = <<>>
  <2> SUFFICES ASSUME NEW j \in Jobs, NEW t \in Tasks
               PROVE  IsRecord(scores'[j][t]) /\ (TaskIsComplete(scores'[j], t) \/ scores'[j][t] = <<>>)
    OBVIOUS
  <2>1. CASE TaskIsComplete(result[j], t)
    <3>1. scores'[j][t] = result[j][t] BY <2>1, <1>a
    <3>2. TaskIsComplete(scores'[j], t) BY <2>1, <3>1 DEF TaskIsComplete, Scored
    <3> QED BY <3>1, <3>2, <1>b
  <2>2. CASE ~ TaskIsComplete(result[j], t)
    BY <2>2, <1>a, EmptyIsIncomplete
  <2> QED BY <2>1, <2>2
<1>d. session' = [j \in Jobs |-> Idle] /\ pc' = [j \in Jobs |-> "stage"] /\ stage' = [j \in Jobs |-> 1]
      /\ done' = [j \in Jobs |-> FALSE] /\ tq' = {}
  BY DEF Launch
<1>u. \A j \in Jobs, t \in Tasks, s \in Sessions : session'[j][<<t, s>>] = "idle"
  BY <1>d DEF Idle
<1>1. EvalTypeOK'
  <2>1. 1 \in DOMAIN Stages BY StagesAre
  <2>2. session' \in [Jobs -> [Tasks \X Sessions -> States]] BY <1>d DEF Idle, States
  <2>3. DOMAIN scores' = Jobs /\ DOMAIN result' = Jobs BY DEF Launch
  <2>4. scores' = [j \in Jobs |-> [t \in Tasks |-> scores'[j][t]]]
    BY DEF Launch, TakenOver
  <2>5. result' = [j \in Jobs |-> [t \in Tasks |-> result'[j][t]]]
    BY <2>4 DEF Launch
  <2>6. tq' \subseteq Row /\ pc' \in [Jobs -> Places] /\ stage' \in [Jobs -> DOMAIN Stages] /\ done' \in [Jobs -> BOOLEAN]
    BY <2>1, <1>d DEF Places
  <2>7. \A j \in Jobs, t \in Tasks : IsRecord(scores'[j][t]) /\ IsRecord(result'[j][t]) BY <1>a, <1>c
  <2> QED BY <2>2, <2>3, <2>4, <2>5, <2>6, <2>7 DEF EvalTypeOK
<1>2. RowsAreFinal' BY <1>d DEF RowsAreFinal
<1>3. Memory' BY <1>c, <1>u DEF Memory, Remembered, Untouched
<1>4. Settling'
  <2>1. \A j \in Jobs, t \in Tasks : Untouched(j, t)' /\ ~ Touched(j, t)' /\ Quiet(j, t)'
    <3>1. 1 \in Sessions BY EvalAssumption DEF Sessions
    <3> QED BY <3>1, <1>u DEF Untouched, Touched, Quiet
  <2>2. \A j \in Jobs, t \in Tasks : Settled(j, t)' BY <2>1 DEF Settled
  <2> QED BY <2>1, <2>2 DEF Settling
<1>5. Kept' BY <1>a DEF Kept
<1>6. SavedLast' BY <1>d DEF SavedLast
<1>7. KeepsComplete BY <1>a DEF KeepsComplete
<1> QED BY <1>1, <1>2, <1>3, <1>4, <1>5, <1>6, <1>7

\* A killed evaluation leaves its files as they are (Killed).
LEMMA KilledKeeps == EvalInv /\ Killed => EvalInv' /\ KeepsComplete
<1> SUFFICES ASSUME EvalInv, Killed PROVE EvalInv' /\ KeepsComplete OBVIOUS
<1> USE DEF EvalInv, Killed
<1>1. EvalTypeOK' BY DEF EvalTypeOK, Places
<1>2. RowsAreFinal' BY DEF RowsAreFinal
<1>3. Memory' BY DEF Memory, Remembered, Untouched, Touched, Succeeded, Outcome
<1>4. Settling' BY DEF Settling
<1>5. Kept' BY DEF Kept
<1>6. SavedLast' BY DEF SavedLast
<1>7. KeepsComplete BY DEF KeepsComplete
<1> QED BY <1>1, <1>2, <1>3, <1>4, <1>5, <1>6, <1>7

-------------------------------------------------------------------------------
(* The driver. *)

\* The tasks of a stage are submitted once, untouched (Submit).
LEMMA SubmitKeeps ==
  ASSUME NEW i \in Jobs
  PROVE  EvalInv /\ Submit(i) => EvalInv' /\ KeepsComplete
<1> SUFFICES ASSUME EvalInv, Submit(i) PROVE EvalInv' /\ KeepsComplete OBVIOUS
<1> USE DEF EvalInv
<1>u. UNCHANGED <<tq, stage, done, scores, result>> /\ pc[i] = "stage" BY DEF Submit
<1>7. KeepsComplete BY <1>u DEF KeepsComplete
<1>p. pc \in [Jobs -> Places] /\ session \in [Jobs -> [Tasks \X Sessions -> States]]
      /\ stage[i] \in DOMAIN Stages
  BY DEF EvalTypeOK
<1>k. /\ Kept' /\ (pc'[i] # "complete" /\ (\A j \in Jobs : j # i => pc'[j] = pc[j]) => SavedLast')
  BY <1>u DEF Kept, SavedLast
<1>1. CASE Pending(i) # {}
  <2>1. /\ session' = [session EXCEPT ![i] = [ts \in Tasks \X Sessions |->
                         IF ts[1] \in Pending(i) THEN "running" ELSE session[i][ts]]]
        /\ pc' = [pc EXCEPT ![i] = "done?"]
    BY <1>1 DEF Submit
  <2>2. \A j \in Jobs : j # i => pc'[j] = pc[j] /\ session'[j] = session[j]
    BY <2>1, <1>p
  <2>3. pc'[i] = "done?" BY <2>1, <1>p
  <2>4. \A t \in Tasks, s \in Sessions :
          session'[i][<<t, s>>] = IF t \in Pending(i) THEN "running" ELSE session[i][<<t, s>>]
    BY <2>1, <1>p
  <2>5. \A t \in Pending(i) : t \in Stages[stage[i]] /\ t \in Tasks /\ ~ TaskIsComplete(scores[i], t)
    BY <1>p, StagesAre DEF Pending
  <2>6. \A t \in Pending(i) : Untouched(i, t)
    BY <2>5, <1>u, <1>p DEF Settling
  <2>7. \A t \in Pending(i) : scores[i][t] = <<>>
    <3>1. 1 \in Sessions BY EvalAssumption DEF Sessions
    <3> QED BY <2>5, <2>6, <3>1 DEF Memory, Remembered, Untouched, Touched
  <2>a. EvalTypeOK'
    <3>1. session' \in [Jobs -> [Tasks \X Sessions -> States]]
      <4>1. \A ts \in Tasks \X Sessions : session[i][ts] \in States BY <1>p
      <4>2. [ts \in Tasks \X Sessions |->
                         IF ts[1] \in Pending(i) THEN "running" ELSE session[i][ts]]
              \in [Tasks \X Sessions -> States]
        BY <4>1 DEF States
      <4> QED BY <4>2, <2>1, <1>p
    <3>2. pc' \in [Jobs -> Places] BY <2>1, <1>p DEF Places
    <3> QED BY <3>1, <3>2, <1>u DEF EvalTypeOK
  <2>b. RowsAreFinal'
    <3> SUFFICES ASSUME NEW e \in tq PROVE session'[e.job][<<e.task, e.session>>] = "over"
      BY <1>u DEF RowsAreFinal
    <3>1. e.job \in Jobs /\ e.task \in Tasks /\ e.session \in Sessions BY DEF EvalTypeOK, Row
    <3>2. session[e.job][<<e.task, e.session>>] = "over" BY DEF RowsAreFinal
    <3>3. CASE e.job # i BY <3>1, <3>2, <3>3, <2>2
    <3>4. CASE e.job = i
      <4>1. e.task \notin Pending(i) BY <3>1, <3>2, <3>4, <2>6 DEF Untouched
      <4> QED BY <4>1, <3>1, <3>2, <3>4, <2>4
    <3> QED BY <3>3, <3>4
  <2>c. Memory'
    <3> SUFFICES ASSUME NEW j \in Jobs, NEW t \in Tasks PROVE Remembered(j, t)'
      BY DEF Memory
    <3>0. Remembered(j, t) BY DEF Memory
    <3>1. scores'[j][t] = scores[j][t] /\ Succeeded(j, t)' = Succeeded(j, t)
          /\ (TaskIsComplete(scores'[j], t) <=> TaskIsComplete(scores[j], t))
          /\ \A s : Outcome(j, t, s)' = Outcome(j, t, s)
      BY <1>u DEF Succeeded, Outcome, TaskIsComplete, Scored
    <3>2. CASE j # i \/ t \notin Pending(i)
      <4>1. \A s \in Sessions : session'[j][<<t, s>>] = session[j][<<t, s>>]
        BY <3>2, <2>2, <2>4
      <4>2. (Untouched(j, t)' <=> Untouched(j, t)) /\ (Touched(j, t)' <=> Touched(j, t))
        BY <4>1 DEF Untouched, Touched
      <4> QED BY <3>0, <3>1, <4>2 DEF Remembered
    <3>3. CASE j = i /\ t \in Pending(i)
      <4>1. Touched(j, t)' BY <3>3, <2>4 DEF Touched
      <4>2. DOMAIN scores'[j][t] = {} BY <3>3, <3>1, <2>7
      <4> QED BY <4>1, <4>2 DEF Remembered
    <3> QED BY <3>2, <3>3
  <2>d. Settling'
    <3> SUFFICES ASSUME NEW j \in Jobs, NEW t \in Tasks, pc'[j] \notin {"down", "failed"}
                 PROVE  /\ \A k \in DOMAIN Stages :
                             t \in Stages[k] /\ (k > stage'[j] \/ (k = stage'[j] /\ pc'[j] = "stage"))
                               => Untouched(j, t)'
                        /\ t \notin Stages[stage'[j]] => Settled(j, t)'
                        /\ pc'[j] \in {"stage", "staged", "complete"} => Settled(j, t)'
                        /\ pc'[j] = "save" /\ done'[j] => Settled(j, t)'
                        /\ pc'[j] = "read" /\ done'[j] => Quiet(j, t)'
      BY DEF Settling
    <3>1. CASE j # i \/ t \notin Pending(i)
      <4>1. \A s \in Sessions : session'[j][<<t, s>>] = session[j][<<t, s>>]
        BY <3>1, <2>2, <2>4
      <4>2. (Untouched(j, t)' <=> Untouched(j, t)) /\ (Touched(j, t)' <=> Touched(j, t))
            /\ (Quiet(j, t)' <=> Quiet(j, t)) /\ (Settled(j, t)' <=> Settled(j, t))
        BY <4>1, <1>u DEF Untouched, Touched, Quiet, Settled, Succeeded
      <4>3. pc'[j] = pc[j] \/ (pc[j] = "stage" /\ pc'[j] = "done?") BY <1>u, <2>2, <2>3
      <4> QED BY <4>2, <4>3, <1>u DEF Settling
    <3>2. CASE j = i /\ t \in Pending(i)
      <4>1. t \in Stages[stage[i]] BY <3>2, <2>5
      <4>2. \A k \in DOMAIN Stages : t \in Stages[k] => k = stage[i] BY <4>1, <1>p, StagesAre
      <4>3. \A k \in DOMAIN Stages : k \in Int BY StagesAre
      <4> QED BY <4>1, <4>2, <4>3, <3>2, <2>3, <1>u, <1>p
    <3> QED BY <3>1, <3>2
  <2> QED BY <2>a, <2>b, <2>c, <2>d, <2>2, <2>3, <1>k, <1>7
<1>2. CASE Pending(i) = {}
  <2>1. session' = session /\ pc' = [pc EXCEPT ![i] = "staged"]
    BY <1>2 DEF Submit
  <2>2. \A j \in Jobs : j # i => pc'[j] = pc[j] BY <2>1, <1>p
  <2>3. pc'[i] = "staged" BY <2>1, <1>p
  <2>a. EvalTypeOK'
    <3>1. pc' \in [Jobs -> Places] BY <2>1, <1>p DEF Places
    <3> QED BY <3>1, <2>1, <1>u DEF EvalTypeOK
  <2>b. RowsAreFinal' BY <1>u, <2>1 DEF RowsAreFinal
  <2>c. Memory' BY <1>u, <2>1 DEF Memory, Remembered, Untouched, Touched, Succeeded, Outcome, TaskIsComplete, Scored
  <2>d. Settling'
    <3>1. \A j \in Jobs, t \in Tasks :
            /\ Untouched(j, t)' <=> Untouched(j, t)
            /\ Quiet(j, t)' <=> Quiet(j, t)
            /\ Settled(j, t)' <=> Settled(j, t)
      BY <1>u, <2>1 DEF Untouched, Touched, Quiet, Settled, Succeeded
    <3>2. \A j \in Jobs : pc'[j] = pc[j] \/ (j = i /\ pc[j] = "stage" /\ pc'[j] = "staged")
      BY <1>u, <2>2, <2>3
    <3> QED BY <3>1, <3>2, <1>u DEF Settling
  <2> QED BY <2>a, <2>b, <2>c, <2>d, <2>2, <2>3, <1>k, <1>7
<1> QED BY <1>1, <1>2

\* A TRUE of future.done() is about all sessions of the job (AskDone).
LEMMA AskDoneKeeps ==
  ASSUME NEW i \in Jobs
  PROVE  EvalInv /\ AskDone(i) => EvalInv' /\ KeepsComplete
<1> SUFFICES ASSUME EvalInv, AskDone(i) PROVE EvalInv' /\ KeepsComplete OBVIOUS
<1> USE DEF EvalInv
<1>u. UNCHANGED <<tq, session, stage, scores, result>> /\ pc[i] = "done?" BY DEF AskDone
<1>p. pc \in [Jobs -> Places] /\ done \in [Jobs -> BOOLEAN] BY DEF EvalTypeOK
<1>d. pc' = [pc EXCEPT ![i] = "read"] /\ done' = [done EXCEPT ![i] = Finished(i)] BY DEF AskDone
<1>j. /\ \A j \in Jobs : j # i => pc'[j] = pc[j] /\ done'[j] = done[j]
      /\ pc'[i] = "read" /\ done'[i] = Finished(i)
  BY <1>p, <1>d
<1>1. EvalTypeOK'
  <2>1. Finished(i) \in BOOLEAN BY DEF Finished
  <2>2. done' \in [Jobs -> BOOLEAN] BY <2>1, <1>p, <1>d
  <2>3. pc' \in [Jobs -> Places] BY <1>p, <1>d DEF Places
  <2> QED BY <2>2, <2>3, <1>u DEF EvalTypeOK
<1>2. RowsAreFinal' BY <1>u DEF RowsAreFinal
<1>3. Memory' BY <1>u DEF Memory, Remembered, Untouched, Touched, Succeeded, Outcome, TaskIsComplete, Scored
<1>4. Settling'
  <2>1. \A j \in Jobs, t \in Tasks :
          /\ Untouched(j, t)' <=> Untouched(j, t)
          /\ Quiet(j, t)' <=> Quiet(j, t)
          /\ Settled(j, t)' <=> Settled(j, t)
    BY <1>u DEF Untouched, Touched, Quiet, Settled, Succeeded
  <2>2. \A t \in Tasks : Finished(i) => Quiet(i, t) BY DEF Finished, Quiet
  <2>3. \A j \in Jobs : j = i \/ (pc'[j] = pc[j] /\ done'[j] = done[j]) BY <1>j
  <2> QED BY <2>1, <2>2, <2>3, <1>j, <1>u DEF Settling
<1>5. Kept' BY <1>u DEF Kept
<1>6. SavedLast' BY <1>u, <1>j DEF SavedLast
<1>7. KeepsComplete BY <1>u DEF KeepsComplete
<1> QED BY <1>1, <1>2, <1>3, <1>4, <1>5, <1>6, <1>7

\* What _read_scores finds of a task: the outcome of every session with rows.
LEMMA ReadIsOutcome ==
  ASSUME EvalTypeOK, NEW j \in Jobs, NEW t \in Tasks
  PROVE  /\ DOMAIN ReadScores(j, t) = Succeeded(j, t)
         /\ \A s \in Succeeded(j, t) : ReadScores(j, t)[s] = Outcome(j, t, s)
         /\ IsRecord(ReadScores(j, t))
         /\ RowsOf(j, t) = {} <=> Succeeded(j, t) = {}
<1> DEFINE rows == RowsOf(j, t)
           S == {e.session : e \in rows}
<1>1. rows = {e \in tq : e.job = j /\ e.task = t} BY DEF RowsOf
<1>2. \A e \in tq : e.session \in Sessions BY DEF EvalTypeOK, Row
<1>3. S = Succeeded(j, t) BY <1>1, <1>2 DEF Succeeded
<1>4. \A s : {e \in rows : e.session = s} = {e \in tq : e.job = j /\ e.task = t /\ e.session = s}
  BY <1>1
<1>5. ReadScores(j, t) = [s \in S |-> LastOf({e \in rows : e.session = s}).score]
  BY DEF ReadScores
<1>6. rows = {} <=> S = {} OBVIOUS
<1> HIDE DEF rows, S
<1>7. \A s \in S : ReadScores(j, t)[s] = Outcome(j, t, s)
  BY <1>4, <1>5 DEF Outcome
<1>8. DOMAIN ReadScores(j, t) = S BY <1>5
<1>9. IsRecord(ReadScores(j, t))
  <2>1. S \subseteq Sessions BY <1>3 DEF Succeeded
  <2>2. ReadScores(j, t) = [s \in S |-> ReadScores(j, t)[s]] BY <1>5
  <2> QED BY <2>1, <2>2, <1>8 DEF IsRecord
<1>10. RowsOf(j, t) = {} <=> Succeeded(j, t) = {} BY <1>3, <1>6 DEF rows
<1> QED BY <1>3, <1>7, <1>8, <1>9, <1>10

\* Reading the queue makes the memory of a task whole, and never forgets (Read).
LEMMA ReadKeeps ==
  ASSUME NEW i \in Jobs
  PROVE  EvalInv /\ Read(i) => EvalInv' /\ KeepsComplete
<1> SUFFICES ASSUME EvalInv, Read(i) PROVE EvalInv' /\ KeepsComplete OBVIOUS
<1> USE DEF EvalInv
<1>u. UNCHANGED <<tq, session, stage, done, result>> /\ pc[i] = "read" BY DEF Read
<1>p. pc \in [Jobs -> Places] /\ DOMAIN scores = Jobs BY DEF EvalTypeOK
<1>d. /\ pc' = [pc EXCEPT ![i] = "save"]
      /\ scores' = [scores EXCEPT ![i] = [t \in Tasks |->
            IF t \in Stages[stage[i]] /\ RowsOf(i, t) # {} THEN ReadScores(i, t) ELSE scores[i][t]]]
  BY DEF Read
<1>j. /\ \A j \in Jobs : j # i => pc'[j] = pc[j] /\ scores'[j] = scores[j]
      /\ pc'[i] = "save"
      /\ \A t \in Tasks : scores'[i][t] =
            IF t \in Stages[stage[i]] /\ RowsOf(i, t) # {} THEN ReadScores(i, t) ELSE scores[i][t]
  BY <1>p, <1>d
<1>s. \A j \in Jobs, t \in Tasks :
        /\ Untouched(j, t)' <=> Untouched(j, t)
        /\ Touched(j, t)' <=> Touched(j, t)
        /\ Quiet(j, t)' <=> Quiet(j, t)
        /\ Succeeded(j, t)' = Succeeded(j, t)
        /\ \A s : Outcome(j, t, s)' = Outcome(j, t, s)
  BY <1>u DEF Untouched, Touched, Quiet, Succeeded, Outcome
<1>r. \A j \in Jobs, t \in Tasks :
        /\ IsRecord(scores'[j][t])
        /\ Remembered(j, t)'
        /\ DOMAIN scores[j][t] \subseteq DOMAIN scores'[j][t]
        /\ TaskIsComplete(scores[j], t) => scores'[j][t] = scores[j][t]
        /\ j = i /\ t \in Stages[stage[i]] /\ Touched(j, t) => Succeeded(j, t) \subseteq DOMAIN scores'[j][t]
  <2> SUFFICES ASSUME NEW j \in Jobs, NEW t \in Tasks
               PROVE  /\ IsRecord(scores'[j][t])
                      /\ Remembered(j, t)'
                      /\ DOMAIN scores[j][t] \subseteq DOMAIN scores'[j][t]
                      /\ TaskIsComplete(scores[j], t) => scores'[j][t] = scores[j][t]
                      /\ j = i /\ t \in Stages[stage[i]] /\ Touched(j, t)
                           => Succeeded(j, t) \subseteq DOMAIN scores'[j][t]
    OBVIOUS
  <2>r. Remembered(j, t) /\ IsRecord(scores[j][t]) BY DEF Memory, EvalTypeOK
  <2>a. CASE j = i /\ t \in Stages[stage[i]] /\ RowsOf(i, t) # {}
    <3>1. scores'[j][t] = ReadScores(j, t) BY <2>a, <1>j
    <3>2. /\ DOMAIN ReadScores(j, t) = Succeeded(j, t)
          /\ \A s \in Succeeded(j, t) : ReadScores(j, t)[s] = Outcome(j, t, s)
          /\ IsRecord(ReadScores(j, t))
          /\ Succeeded(j, t) # {}
      BY <2>a, ReadIsOutcome
    <3>3. ~ Untouched(j, t)
      <4>1. PICK s \in Sessions : \E e \in tq : e.job = j /\ e.task = t /\ e.session = s
        BY <3>2 DEF Succeeded
      <4>2. session[j][<<t, s>>] = "over" BY <4>1 DEF RowsAreFinal
      <4> QED BY <4>2 DEF Untouched
    <3>4. Touched(j, t) /\ DOMAIN scores[j][t] \subseteq Succeeded(j, t)
          /\ \A s \in DOMAIN scores[j][t] : scores[j][t][s] = Outcome(j, t, s)
      BY <2>r, <3>3 DEF Remembered
    <3>5. Remembered(j, t)'
      <4>1. Touched(j, t)' BY <3>4, <1>s
      <4>2. DOMAIN scores'[j][t] = Succeeded(j, t)' BY <3>1, <3>2, <1>s
      <4>3. \A s \in DOMAIN scores'[j][t] : scores'[j][t][s] = Outcome(j, t, s)'
        BY <3>1, <3>2, <1>s
      <4> QED BY <4>1, <4>2, <4>3 DEF Remembered
    <3>6. ASSUME TaskIsComplete(scores[j], t) PROVE scores'[j][t] = scores[j][t]
      <4>1. DOMAIN scores[j][t] = Sessions BY <3>6, <2>r, CompleteMeans
      <4>2. Succeeded(j, t) = Sessions BY <4>1, <3>4 DEF Succeeded
      <4>3. \A s \in Sessions : scores[j][t][s] = ReadScores(j, t)[s] BY <4>1, <4>2, <3>2, <3>4
      <4>4. scores[j][t] = [s \in Sessions |-> scores[j][t][s]] BY <4>1, <2>r DEF IsRecord
      <4>5. ReadScores(j, t) = [s \in Sessions |-> ReadScores(j, t)[s]] BY <4>2, <3>2 DEF IsRecord
      <4>6. scores[j][t] = ReadScores(j, t)
        <5> DEFINE f == scores[j][t]
                   g == ReadScores(j, t)
        <5>1. f = [s \in Sessions |-> f[s]] /\ g = [s \in Sessions |-> g[s]] /\ \A s \in Sessions : f[s] = g[s]
          BY <4>3, <4>4, <4>5
        <5> HIDE DEF f, g
        <5>2. f = g BY <5>1
        <5> QED BY <5>2 DEF f, g
      <4> QED BY <4>6, <3>1
    <3> QED BY <3>1, <3>2, <3>4, <3>5, <3>6
  <2>b. CASE ~ (j = i /\ t \in Stages[stage[i]] /\ RowsOf(i, t) # {})
    <3>1. scores'[j][t] = scores[j][t] BY <2>b, <1>j
    <3>2. TaskIsComplete(scores'[j], t) <=> TaskIsComplete(scores[j], t)
      BY <3>1 DEF TaskIsComplete, Scored
    <3>3. Remembered(j, t)' BY <2>r, <3>1, <3>2, <1>s DEF Remembered
    <3>4. ASSUME j = i, t \in Stages[stage[i]] PROVE Succeeded(j, t) = {}
      BY <2>b, <3>4, ReadIsOutcome
    <3> QED BY <2>r, <3>1, <3>3, <3>4
  <2> QED BY <2>a, <2>b
<1>1. EvalTypeOK'
  <2>1. pc' \in [Jobs -> Places] BY <1>p, <1>d DEF Places
  <2>2. DOMAIN scores' = Jobs BY <1>p, <1>d
  <2>3. scores' = [j \in Jobs |-> [t \in Tasks |-> scores'[j][t]]]
    <3>1. scores = [j \in Jobs |-> [t \in Tasks |-> scores[j][t]]] BY DEF EvalTypeOK
    <3>2. \A j \in Jobs : scores'[j] = [t \in Tasks |-> scores'[j][t]]
      <4> SUFFICES ASSUME NEW j \in Jobs PROVE scores'[j] = [t \in Tasks |-> scores'[j][t]] OBVIOUS
      <4>1. CASE j # i
        <5>1. scores[j] = [t \in Tasks |-> scores[j][t]] BY <3>1
        <5> QED BY <4>1, <5>1, <1>j
      <4>2. CASE j = i
        <5>1. scores'[i] = [t \in Tasks |->
                IF t \in Stages[stage[i]] /\ RowsOf(i, t) # {} THEN ReadScores(i, t) ELSE scores[i][t]]
          BY <1>d, <1>p
        <5> DEFINE g == [t \in Tasks |->
                IF t \in Stages[stage[i]] /\ RowsOf(i, t) # {} THEN ReadScores(i, t) ELSE scores[i][t]]
        <5>2. g = [t \in Tasks |-> g[t]] OBVIOUS
        <5>3. scores'[i] = g BY <5>1
        <5> HIDE DEF g
        <5> QED BY <4>2, <5>2, <5>3
      <4> QED BY <4>1, <4>2
    <3>3. scores' = [j \in Jobs |-> scores'[j]] BY <1>d, <1>p
    <3> QED BY <3>2, <3>3
  <2> QED BY <2>1, <2>2, <2>3, <1>u, <1>r DEF EvalTypeOK
<1>2. RowsAreFinal' BY <1>u DEF RowsAreFinal
<1>3. Memory' BY <1>r DEF Memory
<1>4. Settling'
  <2>1. \A j \in Jobs, t \in Tasks : Settled(j, t) => Settled(j, t)'
    BY <1>r, <1>s DEF Settled
  <2>2. \A t \in Tasks : done[i] => Settled(i, t)'
    <3> SUFFICES ASSUME NEW t \in Tasks, done[i] PROVE Settled(i, t)' OBVIOUS
    <3>1. Quiet(i, t) /\ (t \notin Stages[stage[i]] => Settled(i, t)) BY <1>u DEF Settling
    <3>2. CASE t \in Stages[stage[i]] BY <3>1, <3>2, <1>r, <1>s DEF Settled
    <3>3. CASE t \notin Stages[stage[i]] BY <3>1, <3>3, <2>1
    <3> QED BY <3>2, <3>3
  <2>3. \A j \in Jobs : j = i \/ (pc'[j] = pc[j] /\ done'[j] = done[j]) BY <1>j, <1>u
  <2> QED BY <2>1, <2>2, <2>3, <1>j, <1>u, <1>s DEF Settling
<1>5. Kept'
  <2> SUFFICES ASSUME NEW j \in Jobs, NEW t \in Tasks, TaskIsComplete(result[j], t)
               PROVE  scores'[j][t] = result[j][t]
    BY <1>u DEF Kept
  <2>1. scores[j][t] = result[j][t] BY DEF Kept
  <2>2. TaskIsComplete(scores[j], t) BY <2>1 DEF TaskIsComplete, Scored
  <2> QED BY <2>1, <2>2, <1>r
<1>6. SavedLast' BY <1>u, <1>j DEF SavedLast
<1>7. KeepsComplete BY <1>u DEF KeepsComplete
<1> QED BY <1>1, <1>2, <1>3, <1>4, <1>5, <1>6, <1>7

\* result.json, when written, becomes what is in memory.
LEMMA SavingKeeps ==
  ASSUME NEW i \in Jobs, EvalTypeOK, Kept,
         result' = [result EXCEPT ![i] = scores[i]] \/ UNCHANGED result, UNCHANGED scores
  PROVE  /\ Kept' /\ KeepsComplete
         /\ DOMAIN result' = Jobs
         /\ result' = [j \in Jobs |-> [t \in Tasks |-> result'[j][t]]]
         /\ \A j \in Jobs, t \in Tasks : IsRecord(result'[j][t])
<1>t. /\ DOMAIN result = Jobs /\ DOMAIN scores = Jobs
      /\ scores = [j \in Jobs |-> [t \in Tasks |-> scores[j][t]]]
      /\ result = [j \in Jobs |-> [t \in Tasks |-> result[j][t]]]
      /\ \A j \in Jobs, t \in Tasks : IsRecord(scores[j][t]) /\ IsRecord(result[j][t])
  BY DEF EvalTypeOK
<1>1. CASE UNCHANGED result BY <1>1, <1>t DEF Kept, KeepsComplete
<1>2. CASE result' = [result EXCEPT ![i] = scores[i]]
  <2>1. \A j \in Jobs : result'[j] = scores[j] \/ result'[j] = result[j] BY <1>2, <1>t
  <2>2. DOMAIN result' = Jobs /\ result' = [j \in Jobs |-> result'[j]] BY <1>2, <1>t
  <2>3. \A j \in Jobs : result[j] = [t \in Tasks |-> result[j][t]] /\ scores[j] = [t \in Tasks |-> scores[j][t]]
    BY <1>t
  <2>4. \A j \in Jobs : result'[j] = [t \in Tasks |-> result'[j][t]] BY <2>1, <2>3
  <2>5. result' = [j \in Jobs |-> [t \in Tasks |-> result'[j][t]]] BY <2>2, <2>4
  <2>6. \A j \in Jobs, t \in Tasks : IsRecord(result'[j][t]) BY <2>1, <1>t
  <2>7. Kept' BY <2>1 DEF Kept
  <2>8. KeepsComplete BY <2>1 DEF Kept, KeepsComplete
  <2> QED BY <2>2, <2>5, <2>6, <2>7, <2>8
<1> QED BY <1>1, <1>2

\* The poll loop leaves a stage only with all of its scores (Save).
LEMMA SaveKeeps ==
  ASSUME NEW i \in Jobs
  PROVE  EvalInv /\ Save(i) => EvalInv' /\ KeepsComplete
<1> SUFFICES ASSUME EvalInv, Save(i) PROVE EvalInv' /\ KeepsComplete OBVIOUS
<1> USE DEF EvalInv
<1>u. UNCHANGED <<tq, session, stage, done, scores>> /\ pc[i] = "save"
      /\ (result' = [result EXCEPT ![i] = scores[i]] \/ UNCHANGED result)
  BY DEF Save
<1>p. pc \in [Jobs -> Places] /\ DOMAIN result = Jobs BY DEF EvalTypeOK
<1>d. \/ pc' = [pc EXCEPT ![i] = "done?"]
      \/ done[i] /\ pc' = [pc EXCEPT ![i] = "staged"]
      \/ done[i] /\ pc' = [pc EXCEPT ![i] = "failed"]
  BY DEF Save, StageIsDone
<1>j. /\ \A j \in Jobs : j # i => pc'[j] = pc[j] /\ result'[j] = result[j]
      /\ pc'[i] = "done?" \/ (pc'[i] = "staged" /\ done[i]) \/ pc'[i] = "failed"
  BY <1>p, <1>d, <1>u
<1>r. /\ Kept' /\ KeepsComplete
      /\ DOMAIN result' = Jobs
      /\ result' = [j \in Jobs |-> [t \in Tasks |-> result'[j][t]]]
      /\ \A j \in Jobs, t \in Tasks : IsRecord(result'[j][t])
  BY <1>u, SavingKeeps
<1>1. EvalTypeOK'
  <2>1. pc' \in [Jobs -> Places] BY <1>p, <1>d DEF Places
  <2> QED BY <2>1, <1>r, <1>u DEF EvalTypeOK
<1>2. RowsAreFinal' BY <1>u DEF RowsAreFinal
<1>3. Memory' BY <1>u DEF Memory, Remembered, Untouched, Touched, Succeeded, Outcome, TaskIsComplete, Scored
<1>4. Settling'
  <2>1. \A j \in Jobs, t \in Tasks :
          /\ Untouched(j, t)' <=> Untouched(j, t)
          /\ Quiet(j, t)' <=> Quiet(j, t)
          /\ Settled(j, t)' <=> Settled(j, t)
    BY <1>u DEF Untouched, Touched, Quiet, Settled, Succeeded
  <2>2. \A j \in Jobs : j = i \/ pc'[j] = pc[j] BY <1>j
  <2> QED BY <2>1, <2>2, <1>j, <1>u DEF Settling
<1>6. SavedLast' BY <1>u, <1>j DEF SavedLast
<1> QED BY <1>1, <1>2, <1>3, <1>4, <1>6, <1>r

\* The next stage is untouched, and all before it is settled (EndStage).
LEMMA EndStageKeeps ==
  ASSUME NEW i \in Jobs
  PROVE  EvalInv /\ EndStage(i) => EvalInv' /\ KeepsComplete
<1> SUFFICES ASSUME EvalInv, EndStage(i) PROVE EvalInv' /\ KeepsComplete OBVIOUS
<1> USE DEF EvalInv
<1>u. UNCHANGED <<tq, session, done, scores>> /\ pc[i] = "staged"
      /\ (result' = [result EXCEPT ![i] = scores[i]] \/ UNCHANGED result)
  BY DEF EndStage
<1>p. pc \in [Jobs -> Places] /\ stage \in [Jobs -> DOMAIN Stages] /\ DOMAIN result = Jobs BY DEF EvalTypeOK
<1>d. \/ stage[i] < Len(Stages) /\ stage' = [stage EXCEPT ![i] = stage[i] + 1]
           /\ pc' = [pc EXCEPT ![i] = "stage"] /\ UNCHANGED result
      \/ stage' = stage /\ pc' = [pc EXCEPT ![i] = "complete"] /\ result' = [result EXCEPT ![i] = scores[i]]
  BY DEF EndStage
<1>j. /\ \A j \in Jobs : j # i => pc'[j] = pc[j] /\ result'[j] = result[j] /\ stage'[j] = stage[j]
      /\ \/ pc'[i] = "stage" /\ stage'[i] = stage[i] + 1
         \/ pc'[i] = "complete" /\ stage'[i] = stage[i] /\ result'[i] = scores[i]
  BY <1>p, <1>d
<1>r. /\ Kept' /\ KeepsComplete
      /\ DOMAIN result' = Jobs
      /\ result' = [j \in Jobs |-> [t \in Tasks |-> result'[j][t]]]
      /\ \A j \in Jobs, t \in Tasks : IsRecord(result'[j][t])
  BY <1>u, SavingKeeps
<1>1. EvalTypeOK'
  <2>1. pc' \in [Jobs -> Places] BY <1>p, <1>d DEF Places
  <2>2. stage' \in [Jobs -> DOMAIN Stages]
    <3>1. stage[i] < Len(Stages) => stage[i] + 1 \in DOMAIN Stages BY <1>p, StagesAre
    <3> QED BY <3>1, <1>d, <1>p
  <2> QED BY <2>1, <2>2, <1>r, <1>u DEF EvalTypeOK
<1>2. RowsAreFinal' BY <1>u DEF RowsAreFinal
<1>3. Memory' BY <1>u DEF Memory, Remembered, Untouched, Touched, Succeeded, Outcome, TaskIsComplete, Scored
<1>4. Settling'
  <2>1. \A j \in Jobs, t \in Tasks :
          /\ Untouched(j, t)' <=> Untouched(j, t)
          /\ Quiet(j, t)' <=> Quiet(j, t)
          /\ Settled(j, t)' <=> Settled(j, t)
    BY <1>u DEF Untouched, Touched, Quiet, Settled, Succeeded
  <2>2. \A j \in Jobs : j = i \/ (pc'[j] = pc[j] /\ stage'[j] = stage[j]) BY <1>j
  <2>3. \A t \in Tasks : Settled(i, t) BY <1>u DEF Settling
  <2>4. \A t \in Tasks, k \in DOMAIN Stages : t \in Stages[k] /\ k > stage[i] => Untouched(i, t)
    BY <1>u DEF Settling
  <2>5. \A k \in DOMAIN Stages : k \in Int BY StagesAre
  <2>6. \A t \in Tasks, k \in DOMAIN Stages :
          t \in Stages[k] /\ (k > stage'[i] \/ (k = stage'[i] /\ pc'[i] = "stage")) => Untouched(i, t)
    BY <2>4, <2>5, <1>j, <1>p
  <2>7. \A t \in Tasks :
          /\ \A k \in DOMAIN Stages : t \in Stages[k] /\ (k > stage'[i] \/ (k = stage'[i] /\ pc'[i] = "stage"))
                                   => Untouched(i, t)'
          /\ Settled(i, t)' /\ Quiet(i, t)'
    BY <2>1, <2>3, <2>6 DEF Settled
  <2> QED BY <2>1, <2>2, <2>7, <1>u DEF Settling
<1>6. SavedLast' BY <1>u, <1>j DEF SavedLast
<1> QED BY <1>1, <1>2, <1>3, <1>4, <1>6, <1>r

-------------------------------------------------------------------------------
(* The sessions. *)

\* A session ends once, with rows or without, and only its own rows appear:
\* what was read of any other session stays its outcome.
LEMMA SessionKeeps ==
  ASSUME NEW i \in Jobs, NEW u \in Tasks, NEW r \in Sessions, NEW new \in SUBSET Row,
         Alive(i), session[i][<<u, r>>] = "running",
         \A e \in new : e.job = i /\ e.task = u /\ e.session = r,
         session' = [session EXCEPT ![i][<<u, r>>] = "over"], tq' = tq \cup new,
         UNCHANGED <<pc, stage, done, scores, result>>
  PROVE  EvalInv => EvalInv' /\ KeepsComplete
<1> SUFFICES ASSUME EvalInv PROVE EvalInv' /\ KeepsComplete OBVIOUS
<1> USE DEF EvalInv
<1>p. session \in [Jobs -> [Tasks \X Sessions -> States]] BY DEF EvalTypeOK
<1>j. \A j \in Jobs, t \in Tasks, s \in Sessions :
        session'[j][<<t, s>>] = IF <<j, t, s>> = <<i, u, r>> THEN "over" ELSE session[j][<<t, s>>]
  BY <1>p
<1>m. ~ Untouched(i, u) /\ ~ Quiet(i, u) BY DEF Untouched, Quiet
<1>s. \A j \in Jobs, t \in Tasks :
        /\ (Untouched(j, t) => Untouched(j, t)') /\ (Touched(j, t) => Touched(j, t)')
        /\ (Quiet(j, t) => Quiet(j, t)')
        /\ (<<j, t>> # <<i, u>> => (Touched(j, t)' => Touched(j, t)))
        /\ Succeeded(j, t) \subseteq Succeeded(j, t)'
        /\ (<<j, t>> # <<i, u>> => Succeeded(j, t)' = Succeeded(j, t))
        /\ \A s \in Succeeded(j, t) : Outcome(j, t, s)' = Outcome(j, t, s)
  <2> SUFFICES ASSUME NEW j \in Jobs, NEW t \in Tasks
               PROVE  /\ (Untouched(j, t) => Untouched(j, t)') /\ (Touched(j, t) => Touched(j, t)')
                      /\ (Quiet(j, t) => Quiet(j, t)')
                      /\ (<<j, t>> # <<i, u>> => (Touched(j, t)' => Touched(j, t)))
                      /\ Succeeded(j, t) \subseteq Succeeded(j, t)'
                      /\ (<<j, t>> # <<i, u>> => Succeeded(j, t)' = Succeeded(j, t))
                      /\ \A s \in Succeeded(j, t) : Outcome(j, t, s)' = Outcome(j, t, s)
    OBVIOUS
  <2>1. Untouched(j, t) => Untouched(j, t)' BY <1>j, <1>m DEF Untouched
  <2>2. Touched(j, t) => Touched(j, t)' BY <1>j DEF Touched
  <2>3. Quiet(j, t) => Quiet(j, t)' BY <1>j DEF Quiet
  <2>4. <<j, t>> # <<i, u>> => (Touched(j, t)' => Touched(j, t)) BY <1>j DEF Touched
  <2>5. Succeeded(j, t) \subseteq Succeeded(j, t)' BY DEF Succeeded
  <2>6. <<j, t>> # <<i, u>> => Succeeded(j, t)' = Succeeded(j, t) BY DEF Succeeded
  <2>7. ASSUME NEW s \in Succeeded(j, t) PROVE Outcome(j, t, s)' = Outcome(j, t, s)
    <3>1. <<j, t, s>> # <<i, u, r>>
      <4>1. PICK e \in tq : e.job = j /\ e.task = t /\ e.session = s BY DEF Succeeded
      <4>2. session[j][<<t, s>>] = "over" BY <4>1 DEF RowsAreFinal
      <4> QED BY <4>2
    <3>2. {e \in tq' : e.job = j /\ e.task = t /\ e.session = s}
            = {e \in tq : e.job = j /\ e.task = t /\ e.session = s}
      BY <3>1
    <3> QED BY <3>2 DEF Outcome
  <2> QED BY <2>1, <2>2, <2>3, <2>4, <2>5, <2>6, <2>7
<1>1. EvalTypeOK'
  <2>1. tq' \subseteq Row BY DEF EvalTypeOK
  <2>2. session' \in [Jobs -> [Tasks \X Sessions -> States]] BY <1>p DEF States
  <2>3. pc' = pc /\ stage' = stage /\ done' = done /\ scores' = scores /\ result' = result OBVIOUS
  <2>4. pc' \in [Jobs -> Places] /\ stage' \in [Jobs -> DOMAIN Stages] /\ done' \in [Jobs -> BOOLEAN]
    BY <2>3 DEF EvalTypeOK
  <2>5. DOMAIN scores' = Jobs /\ DOMAIN result' = Jobs
        /\ \A j \in Jobs, t \in Tasks : IsRecord(scores'[j][t]) /\ IsRecord(result'[j][t])
    BY <2>3 DEF EvalTypeOK
  <2>6. scores' = [j \in Jobs |-> [t \in Tasks |-> scores'[j][t]]]
        /\ result' = [j \in Jobs |-> [t \in Tasks |-> result'[j][t]]]
    BY <2>3, Zenon DEF EvalTypeOK
  <2> QED BY <2>1, <2>2, <2>4, <2>5, <2>6 DEF EvalTypeOK
<1>2. RowsAreFinal'
  <2> SUFFICES ASSUME NEW e \in tq' PROVE session'[e.job][<<e.task, e.session>>] = "over"
    BY DEF RowsAreFinal
  <2>1. e.job \in Jobs /\ e.task \in Tasks /\ e.session \in Sessions BY <1>1 DEF EvalTypeOK, Row
  <2>2. e \in new => e.job = i /\ e.task = u /\ e.session = r OBVIOUS
  <2>3. e \in tq => session[e.job][<<e.task, e.session>>] = "over" BY DEF RowsAreFinal
  <2> QED BY <2>1, <2>2, <2>3, <1>j
<1>3. Memory'
  <2> SUFFICES ASSUME NEW j \in Jobs, NEW t \in Tasks PROVE Remembered(j, t)' BY DEF Memory
  <2>1. Remembered(j, t) BY DEF Memory
  <2>2. TaskIsComplete(scores'[j], t) <=> TaskIsComplete(scores[j], t) BY DEF TaskIsComplete, Scored
  <2>3. CASE Untouched(j, t) /\ (TaskIsComplete(scores[j], t) \/ scores[j][t] = <<>>)
    BY <2>2, <2>3, <1>s DEF Remembered
  <2>4. CASE /\ Touched(j, t)
             /\ DOMAIN scores[j][t] \subseteq Succeeded(j, t)
             /\ \A s \in DOMAIN scores[j][t] : scores[j][t][s] = Outcome(j, t, s)
    <3>1. Touched(j, t)' BY <2>4, <1>s
    <3>2. DOMAIN scores'[j][t] \subseteq Succeeded(j, t)'
      <4>1. Succeeded(j, t) \subseteq Succeeded(j, t)' BY <1>s
      <4> QED BY <4>1, <2>4
    <3>3. \A s \in DOMAIN scores'[j][t] : scores'[j][t][s] = Outcome(j, t, s)'
      <4>1. \A s \in Succeeded(j, t) : Outcome(j, t, s)' = Outcome(j, t, s) BY <1>s
      <4> QED BY <4>1, <2>4
    <3> QED BY <3>1, <3>2, <3>3 DEF Remembered
  <2> QED BY <2>1, <2>3, <2>4 DEF Remembered
<1>4. Settling'
  <2>1. \A j \in Jobs, t \in Tasks : Settled(j, t) => Settled(j, t)'
    <3> SUFFICES ASSUME NEW j \in Jobs, NEW t \in Tasks, Settled(j, t) PROVE Settled(j, t)' OBVIOUS
    <3>1. <<j, t>> # <<i, u>> BY <1>m DEF Settled
    <3> QED BY <3>1, <1>s DEF Settled
  <2> QED BY <2>1, <1>s DEF Settling
<1>5. Kept' BY DEF Kept
<1>6. SavedLast' BY DEF SavedLast
<1>7. KeepsComplete BY DEF KeepsComplete
<1> QED BY <1>1, <1>2, <1>3, <1>4, <1>5, <1>6, <1>7

\* The trajectories of a session arrive together, or none does (Rollouts).
LEMMA RolloutsKeep ==
  ASSUME NEW i \in Jobs
  PROVE  EvalInv /\ Rollouts(i) => EvalInv' /\ KeepsComplete
<1> SUFFICES ASSUME EvalInv, NEW t \in Tasks, NEW s \in Sessions,
                    SessionSucceeds(i, t, s) \/ SessionFails(i, t, s)
             PROVE  EvalInv' /\ KeepsComplete
  BY DEF Rollouts
<1>1. CASE SessionSucceeds(i, t, s)
  <2>1. PICK written \in UNION {[0 .. last -> Scores] : last \in {0, 1}} :
          tq' = tq \cup {[job |-> i, task |-> t, session |-> s, index |-> k, score |-> written[k]] :
                           k \in DOMAIN written}
    BY <1>1 DEF SessionSucceeds
  <2> DEFINE new == {[job |-> i, task |-> t, session |-> s, index |-> k, score |-> written[k]] :
                           k \in DOMAIN written}
  <2>2. PICK last \in {0, 1} : written \in [0 .. last -> Scores] OBVIOUS
  <2>3. \A k \in DOMAIN written : k \in {0, 1} /\ written[k] \in Scores BY <2>2
  <2>4. new \in SUBSET Row BY <2>3 DEF Row
  <2>5. \A e \in new : e.job = i /\ e.task = t /\ e.session = s OBVIOUS
  <2>6. tq' = tq \cup new BY <2>1
  <2> HIDE DEF new
  <2> QED BY <1>1, <2>4, <2>5, <2>6, SessionKeeps DEF SessionSucceeds
<1>2. CASE SessionFails(i, t, s)
  <2> DEFINE new == {}
  <2>1. tq' = tq \cup new BY <1>2 DEF SessionFails
  <2>2. new \in SUBSET Row /\ \A e \in new : e.job = i /\ e.task = t /\ e.session = s OBVIOUS
  <2>3. /\ Alive(i) /\ session[i][<<t, s>>] = "running"
        /\ session' = [session EXCEPT ![i][<<t, s>>] = "over"]
        /\ UNCHANGED <<pc, stage, done, scores, result>>
    BY <1>2 DEF SessionFails
  <2> HIDE DEF new
  <2> QED BY <2>1, <2>2, <2>3, SessionKeeps
<1> QED BY <1>1, <1>2

-------------------------------------------------------------------------------
(* The results. *)

\* Every step keeps the invariant, and what is complete in result.json.
LEMMA EvalSteps == EvalInv /\ [Next]_vars => EvalInv' /\ [KeepsComplete]_vars
<1> SUFFICES ASSUME EvalInv, [Next]_vars PROVE EvalInv' /\ [KeepsComplete]_vars OBVIOUS
<1>1. CASE Launch BY <1>1, LaunchKeeps
<1>2. CASE Killed BY <1>2, KilledKeeps
<1>3. ASSUME NEW j \in Jobs, Driver(j) PROVE EvalInv' /\ KeepsComplete
  BY <1>3, SubmitKeeps, AskDoneKeeps, ReadKeeps, SaveKeeps, EndStageKeeps DEF Driver
<1>4. ASSUME NEW j \in Jobs, Rollouts(j) PROVE EvalInv' /\ KeepsComplete
  BY <1>4, RolloutsKeep
<1>5. CASE UNCHANGED vars
  <2> USE <1>5 DEF vars, EvalInv
  <2>1. EvalTypeOK' BY DEF EvalTypeOK
  <2>2. RowsAreFinal' BY DEF RowsAreFinal
  <2>3. Memory' BY DEF Memory, Remembered, Untouched, Touched, Succeeded, Outcome, TaskIsComplete, Scored
  <2>4. Settling' BY DEF Settling, Settled, Untouched, Touched, Quiet, Succeeded
  <2>5. Kept' BY DEF Kept
  <2>6. SavedLast' BY DEF SavedLast
  <2> QED BY <2>1, <2>2, <2>3, <2>4, <2>5, <2>6
<1> QED BY <1>1, <1>2, <1>3, <1>4, <1>5 DEF Next

\* The inductive invariant of the evaluator.
THEOREM EvalInvariance == Spec => []EvalInv
<1>1. EvalInv /\ [Next]_vars => EvalInv' BY EvalSteps
<1> QED BY EvalStarts, <1>1, PTL DEF Spec

\* Where a job is complete, all it knows of a task that ran is saved and true.
LEMMA InvariantIsTruth == EvalInv => FinalResultIsTrue
<1> SUFFICES ASSUME EvalInv, NEW j \in Jobs, pc[j] = "complete", NEW t \in Tasks,
                    \E s \in Sessions : session[j][<<t, s>>] # "idle"
             PROVE  /\ DOMAIN result[j][t] = Succeeded(j, t)
                    /\ \A s \in Succeeded(j, t) : result[j][t][s] = Outcome(j, t, s)
  BY DEF FinalResultIsTrue
<1>1. ~ Untouched(j, t) BY DEF Untouched
<1>2. /\ Touched(j, t)
      /\ DOMAIN scores[j][t] \subseteq Succeeded(j, t)
      /\ \A s \in DOMAIN scores[j][t] : scores[j][t][s] = Outcome(j, t, s)
  BY <1>1 DEF EvalInv, Memory, Remembered
<1>3. Settled(j, t) BY DEF EvalInv, Settling
<1>4. DOMAIN scores[j][t] = Succeeded(j, t) BY <1>2, <1>3 DEF Settled
<1>5. result[j] = scores[j] BY DEF EvalInv, SavedLast
<1> QED BY <1>2, <1>4, <1>5

\* A finished model's result.json is the whole truth, and its own: whatever
\* other models wrote to the queue, however the poll loop and the rollout
\* thread interleaved, whatever was taken over from an earlier process.
THEOREM ResultsAreTrue == Spec => []FinalResultIsTrue
BY EvalInvariance, InvariantIsTruth, PTL

\* No step of any later process changes a task that is complete in
\* result.json.
THEOREM CompleteTasksStay == Spec => CompleteTasksAreKept
<1>1. EvalInv /\ [Next]_vars => [KeepsComplete]_vars BY EvalSteps
<1> QED BY EvalInvariance, <1>1, PTL DEF Spec, CompleteTasksAreKept
===============================================================================
