SPECIFICATION Spec
CONSTANTS
  Errors = {e1, e2}
  Shards = {s1, s2}
  Components = {c1, c2}
  s1 = s1
  manager = manager
  config = config
  Kinds <- MixedKinds
  None = None
  Threshold = 2
  RepeatLimit = 0
  MaxHistory = 1
  MaxSeconds = 1
SYMMETRY Symmetry
CHECK_DEADLOCK FALSE
INVARIANT TypeOK
INVARIANT ClosedBelowThreshold
INVARIANT EveryFailureCounted
PROPERTY DropsOnlyRecovered
