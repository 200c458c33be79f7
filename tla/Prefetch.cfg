\* Two mini-batches per step, so that a slow row can be overtaken and grow
\* stale; an early checkpoint between regular ones and a final step; one failing
\* session and one crash, from which the run resumes.
SPECIFICATION FairSpec
CONSTANTS
  MiniBatch = 1
  SyncSteps = 2
  TotalSteps = 6
  SaveFreq = 4
  FirstStep = 3
  Threshold = 2
  Prefetch = TRUE
  MaxFailures = 1
  MaxCrashes = 1
INVARIANTS
  SaveNeverRefused
  RowAccounting
  ConsistentCut
PROPERTIES
  TrainingTerminates
  StreamSpec
CHECK_DEADLOCK FALSE
