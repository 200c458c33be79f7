\* Four steps, saved first at 1, then every second; two actors, a rollout, a kill at any place.
SPECIFICATION Spec
CONSTANTS
  Ranks = {k1, k2}
  Trainer = Trainer
  TotalSteps = 4
  SaveFreq = 2
  FirstStep = 1
  Keep = 2
  ExportFrom = 2
  Gpus = 2
  Actors = {a1, a2}
  Rollouts = {r1}
  NoRank = NoRank
  Modules = {m1, m2}
  MicroBatches = 3
  MaxCrashes = 1
  JobConfigs <- Diagonal
INVARIANTS
  AcceptedIsWhole
  StartupIsAllOrNothing
  BuffersFollowRoles
  GradientsAreReduced
  RolloutsFollowActor
CHECK_DEADLOCK FALSE
