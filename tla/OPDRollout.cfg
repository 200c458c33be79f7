\* Every algorithm and every mode, two steps with two sessions and one session,
\* and a validation session; two slots, so that sessions wait.
SPECIFICATION Spec
CONSTANTS
  Steps = 2
  Slots = 2
  MaxTurns = 2
  GrowthInterval = 2
  Trajectories = {2}
  MaxFailures = 1
  ContextLimit = 4
  TurnLimit = 2
  RequestLimits = {1, 3}
  PromptLength = 1
  ResponseLength = 4
  Observations = {1, 2}
  NoStart = NoStart
  Sessions <- BatchSessions
INVARIANTS
  ContextIsBounded
  CutTurnsRunNoTools
  EntropyIsOfOwnTurn
  FixedWeights
  RowsAreLabelled
  CurriculumFollowsBatches
CHECK_DEADLOCK FALSE
