\* Every sequence of entropies, also non-finite ones; splits, rollbacks and
\* rewrites at every place, finalization at every moment.
SPECIFICATION Spec
CONSTANTS
  MaxTurns = 6
  Entropies = {0, 1, NaN}
  NaN = NaN
  Rise = 1
  MaxSplits = 1
  MaxRollbacks = 1
  MaxRewrites = 1
INVARIANTS
  OnlineIsOffline
  DeliveredTurnsAreTrained
  LabelsBelongToTokens
CHECK_DEADLOCK FALSE
