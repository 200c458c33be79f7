\* One model, two sessions a task, a quick panel of one task, one restart.
SPECIFICATION FairSpec
CONSTANTS
  Jobs = {student}
  Tasks = {t1, t2}
  Quick = {t1}
  N = 2
  Scores = {0, 1}
  MaxLaunches = 2
INVARIANTS
  FinalResultIsTrue
PROPERTIES
  CompleteTasksAreKept
  EvaluationEnds
CHECK_DEADLOCK FALSE
