\* A generation that is rolled back, followed by a reply that is not scored.
SPECIFICATION Spec
CONSTANTS
  MaxTurns = 4
  Entropies = {0, 1}
  NaN = NaN
  Rise = 1
  MaxSplits = 0
  MaxRollbacks = 1
  MaxRewrites = 0
INVARIANTS
  PrefixIsFound
CHECK_DEADLOCK FALSE
