------------------------------ MODULE TaskGrading --------------------------------
(***************************************************************************)
(* What a task does with the agent's work (r2e_task.py, swesmith_task.py,  *)
(* swe_bench_task.py with swebench_codex_task.py, deepswe_task.py and      *)
(* scripts/regrade_swebench.py), composed with the container and the agent *)
(* of AgentSandbox: its command of the part "collect" is the collection of *)
(* the patch, or the preparation and the run of the tests.                 *)
(*                                                                         *)
(* Of the repository there are two source files and one with tests.  git,  *)
(* patch and the test commands are external.                               *)
(***************************************************************************)
EXTENDS AgentSandbox, Sequences, FiniteSetsExt

CONSTANTS
  Kinds,       \* tasks: "r2e", "swe_smith", "swe_bench", "deep_swe"
  Edits,       \* bound: what an agent may do to the files, see Work
  Expectations,\* bound: statuses an R2E task may ask for, expected_output_json
  Outputs,     \* bound: lines <<test, status>> a test run may print for its parser
  MaxRegrades  \* bound: runs of regrade_swebench.py

Files == {"a", "b", "tests"}

\* How a changed file's patch would apply to the tree it is graded on; what is
\* not committed is not in HEAD.
Work == [file : [Files -> {"same", "clean", "fuzzy", "broken"}], committed : BOOLEAN]

NoWork == [file |-> [f \in Files |-> "same"], committed |-> FALSE]

Required == {"f2p", "p2p"}

ASSUME GradingAssumption ==
  /\ Kinds \subseteq {"r2e", "swe_smith", "swe_bench", "deep_swe"} /\ Kinds # {}
  /\ Edits \subseteq Work /\ Outputs \subseteq Seq(STRING \X STRING)
  /\ Expectations \subseteq [Required -> {"PASSED", "FAILED", "ERROR"}]
  /\ MaxRegrades \in Nat

VARIABLES
  kind,     \* the task
  expected, \* the statuses in its metadata, R2E only
  work,     \* the files in the agent's container
  stage,    \* of the grading
  patch,    \* the collected change of every file; "same" is not in it
  tree,     \* the files the tests run on: "own", "agent"
  verifier, \* the verifier's container
  printed,  \* what the tests print if nothing stops them
  output,   \* what there is of it when the run has ended
  ending,   \* how it ended
  report,   \* SWE-bench: the output has both markers; DeepSWE: reward.json; or "none"
  reward,   \* TaskResult.reward; -1 before there is one
  regrades

runVars == <<printed, output, ending, report>>
gradeVars == <<kind, expected, work, stage, patch, tree, verifier, runVars, reward, regrades>>
allVars == <<vars, gradeVars>>

NoPatch == [f \in Files |-> "same"]
Own == [f \in Files |-> "own"]
Changed(p) == {f \in Files : p[f] # "same"}

-------------------------------------------------------------------------------
(* Reading a test run.  An operator marked "Fault:" is a plausible bug in the
   definition that follows it; no specification here uses it. *)

\* _parse_r2e_pytest_statuses: a later line about the same test wins.
Statuses(lines) ==
  [t \in {lines[i][1] : i \in DOMAIN lines} |->
     lines[Max({i \in DOMAIN lines : lines[i][1] = t})][2]]

\* score_pytest_output: the maps are equal, so nothing may be missing or added.
PytestReward(statuses) == statuses = expected

\* Statuses score_test_statuses and the SWE-bench grader take for a pass.
Passing == {"PASSED", "XFAIL"}

\* score_test_statuses: a test that was not reported has failed.
SmithReward(statuses) ==
  \A t \in Required : t \in DOMAIN statuses /\ statuses[t] \in Passing

\* A command that was killed, or exits with the killer's code, reports -1.
TimedOut == ending \in {"killed", "exit124"}

\* A test run.  A kill leaves the beginning of what it would have printed.
\* DeepSWE's verifier writes reward.json itself, whatever becomes of it then.
TestRun ==
  \E p \in IF kind = "deep_swe" THEN {<<>>} ELSE Outputs, e \in {"ended", "killed", "exit124"} :
    \E n \in 0 .. Len(p) :
      /\ e # "killed" => n = Len(p)
      /\ printed' = p /\ output' = SubSeq(p, 1, n) /\ ending' = e
      /\ report' \in CASE kind = "swe_bench" -> IF n = Len(p) THEN {"complete", "none"} ELSE {"none"}
                       [] kind = "deep_swe"  -> {"none", "0", "1"}
                       [] OTHER              -> {"none"}

-------------------------------------------------------------------------------
(* Applying the work. *)

\* DeepSWE compares commits; the others stage whatever there is.
Collected ==
  IF kind = "deep_swe" /\ ~ work.committed THEN NoPatch ELSE work.file

\* git apply: all or nothing.
Applies(p) == \A f \in Changed(p) : p[f] = "clean"
Patched(p) == [f \in Files |-> IF f \in Changed(p) THEN "agent" ELSE "own"]

\* patch --batch takes a change it finds applied for a reversed one and undoes
\* it, so what --reject had applied is lost.
FuzzApplies(p) == \A f \in Files : p[f] # "broken"
Fuzzed(p) == [f \in Files |-> IF p[f] = "fuzzy" THEN "agent" ELSE "own"]

\* Fault: the tests stay as the agent left them.
TestsLeft(t) == t

\* The test files come from the project again: `git checkout HEAD -- ...`, or
\* the official evaluation script.
TestsRestored(t) == [t EXCEPT !["tests"] = "own"]

-------------------------------------------------------------------------------
(* The task's first half: AgentSandbox. *)

\* A command of the agent changes files.
AgentEdits ==
  /\ process = "running"
  /\ work = NoWork /\ work' \in Edits
  /\ UNCHANGED <<vars, kind, expected, stage, patch, tree, verifier, runVars, reward, regrades>>

\* The test run in the agent's own container.  R2E runs in the tree as it is;
\* SWE-smith goes to the state with the hidden tests, applies the work there
\* and restores the test files, and raises if it does not apply.
TestInPlace ==
  /\ patch' = Collected
  /\ IF kind = "swe_smith" /\ ~ Applies(Collected)
       THEN stage' = "raised" /\ UNCHANGED <<tree, runVars>>
       ELSE /\ stage' = "judge"
            /\ tree' = IF kind = "swe_smith" THEN TestsRestored(Patched(Collected)) ELSE Patched(Collected)
            /\ TestRun
  /\ UNCHANGED <<kind, expected, work, verifier, reward, regrades>>

\* The patch is taken out, and written down as prediction.json.
TakePatch ==
  /\ patch' = Collected /\ stage' = "collected"
  /\ UNCHANGED <<kind, expected, work, tree, verifier, runVars, reward, regrades>>

Raised ==
  stage' = "raised" /\ UNCHANGED <<kind, expected, work, patch, tree, verifier, runVars, reward, regrades>>

\* A step of AgentSandbox; the result of "collect" decides what comes next.
SandboxStep ==
  /\ Next
  /\ IF pc = "collect" /\ pc' = "leave"
       THEN IF wait = "shield" /\ call = "returned"
              THEN IF kind \in {"r2e", "swe_smith"} THEN TestInPlace ELSE TakePatch
              ELSE Raised
       ELSE IF pc # "ended" /\ pc' = "ended" /\ stage = "agent" THEN Raised
       ELSE UNCHANGED gradeVars

-------------------------------------------------------------------------------
(* The independent verifier. *)

\* The agent's sandbox has been left; SWE-bench grades no empty patch.
StartVerifier ==
  /\ stage = "collected" /\ pc = "ended" /\ ~ removing
  /\ IF kind = "swe_bench" /\ Changed(patch) = {}
       THEN stage' = "done" /\ reward' = 0 /\ UNCHANGED verifier
       ELSE stage' = "apply" /\ verifier' = "up" /\ UNCHANGED reward
  /\ UNCHANGED <<vars, kind, expected, work, patch, tree, runVars, regrades>>

\* The three commands one after the other.
GradedTree(p) ==
  IF kind = "deep_swe" \/ Applies(p) THEN Patched(p) ELSE Fuzzed(p)

Appliable(p) == kind = "deep_swe" \/ Applies(p) \/ FuzzApplies(p)

ApplyPatch ==
  /\ stage = "apply"
  /\ IF Appliable(patch)
       THEN stage' = "test" /\ tree' = TestsRestored(GradedTree(patch)) /\ UNCHANGED verifier
       ELSE stage' = "raised" /\ verifier' = "removed" /\ UNCHANGED tree
  /\ UNCHANGED <<vars, kind, expected, work, patch, runVars, reward, regrades>>

RunTests ==
  /\ stage = "test"
  /\ stage' = "judge" /\ TestRun
  /\ UNCHANGED <<vars, kind, expected, work, patch, tree, verifier, reward, regrades>>

\* Fault: a run that was killed is graded by what it printed.
SilenceOnly == (kind = "swe_bench" /\ output = <<>>) \/ (kind = "deep_swe" /\ report = "none")

\* SWE-bench raises when the run timed out or has no complete output, DeepSWE
\* when there is no valid reward.json, however its run ended; the other two grade
\* what was printed.
Unjudged ==
  \/ kind = "swe_bench" /\ (TimedOut \/ report # "complete")
  \/ kind = "deep_swe" /\ report = "none"

Resolved ==
  CASE kind = "r2e"      -> PytestReward(Statuses(output))
    [] kind = "deep_swe" -> report = "1"
    [] OTHER             -> SmithReward(Statuses(output))

Judge ==
  /\ stage = "judge"
  /\ IF Unjudged
       THEN stage' = "raised" /\ UNCHANGED reward
       ELSE stage' = "done" /\ reward' = IF Resolved THEN 1 ELSE 0
  /\ verifier' = IF verifier = "up" THEN "removed" ELSE verifier
  /\ UNCHANGED <<vars, kind, expected, work, patch, tree, runVars, regrades>>

\* regrade_swebench.py: a task without a score whose prediction was saved.
Regrade ==
  /\ kind = "swe_bench" /\ stage = "raised" /\ verifier = "removed"
  /\ regrades < MaxRegrades
  /\ regrades' = regrades + 1
  /\ stage' = "collected" /\ verifier' = "none"
  /\ printed' = <<>> /\ output' = <<>> /\ ending' = "none" /\ report' = "none"
  /\ UNCHANGED <<vars, kind, expected, work, patch, tree, reward>>

Grading == StartVerifier \/ ApplyPatch \/ RunTests \/ Judge \/ Regrade

GradedInit ==
  /\ Init
  /\ kind \in Kinds /\ work = NoWork
  /\ expected \in IF kind = "r2e" THEN Expectations ELSE {<<>>}
  /\ stage = "agent" /\ patch = NoPatch /\ tree = Own /\ verifier = "none"
  /\ printed = <<>> /\ output = <<>> /\ ending = "none" /\ report = "none"
  /\ reward = -1 /\ regrades = 0

GradedNext == SandboxStep \/ AgentEdits \/ Grading

GradedSpec == GradedInit /\ [][GradedNext]_allVars /\ Fairness

-------------------------------------------------------------------------------
(* Properties. *)

\* What is graded is the agent's work and nothing that came after it: once
\* collected it does not change, a verifier runs only when the container and
\* the processes of the agent are gone, and, R2E apart, on the project's own
\* tests (swe_bench_task.py:134-145, swesmith_task.py:89-104).
GraderIsIndependent ==
  /\ stage \in {"collected", "apply", "test", "judge", "done"} => patch = Collected
  /\ verifier = "up" => container = "removed" /\ process # "running"
  /\ stage \in {"test", "judge", "done"} /\ kind # "r2e" => tree["tests"] = "own"

\* The last of the lines about a test has one of these statuses.
LastWord(lines, t, statuses) ==
  \E i \in DOMAIN lines :
    /\ lines[i][1] = t /\ lines[i][2] \in statuses
    /\ \A j \in DOMAIN lines : j > i => lines[j][1] # t

\* Changes of source files that are not in the tree the tests ran on.
Lost == {f \in Changed(patch) \ {"tests"} : tree[f] # "agent"}

\* A score is about the tests and the agent's work.  R2E's one means that the
\* last word on every test of the metadata is the status it names, a failure
\* included, and that no other test was heard of; SWE-smith's, that the required
\* tests passed last.  SWE-bench's score is the one of the whole run, never of
\* the part a kill left, and DeepSWE's is its verifier's own.  And what was tested
\* has every collected change: work is lost only where git refuses the patch of a
\* SWE-bench task and patch(1) takes back what --reject had applied
\* (r2e_task.py:244-285, swesmith_task.py:49-64,89-104,
\* swe_bench_task.py:129-182, deepswe_task.py:97-104).
VerdictIsEarned ==
  stage = "done" =>
    /\ kind = "r2e" /\ reward = 1 =>
         /\ \A t \in Required : LastWord(output, t, {expected[t]})
         /\ \A i \in DOMAIN output : output[i][1] \in Required
    /\ kind = "swe_smith" /\ reward = 1 => \A t \in Required : LastWord(output, t, Passing)
    /\ kind = "swe_bench" =>
         IF Changed(patch) = {}
           THEN reward = 0
           ELSE report = "complete" /\ (reward = 1 <=> \A t \in Required : LastWord(printed, t, Passing))
    /\ kind = "deep_swe" => report = IF reward = 1 THEN "1" ELSE "0"
    /\ Lost # {} => kind = "swe_bench" /\ ~ Applies(patch)
===============================================================================
