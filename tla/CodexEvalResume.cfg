\* Kills, restarts and chains of continuations over three directories.
SPECIFICATION Spec
CONSTANTS
  Tasks = {t1, t2}
  Dirs = {d1, d2, d3}
  Replicas = {r1, r2}
  TasksPerReplica = 1
  Concurrency = 2
  Identities <- MCIdentities
  Scores = {1}
  MaxLaunches = 3
  None = None
INVARIANTS
  SlotsSuffice
  ResultIsBacked
  EveryResultIsResumable
  SemanticsNeverMixed
  FinishedWorkIsNotRepeated
SYMMETRY MCSymmetry
CHECK_DEADLOCK FALSE
