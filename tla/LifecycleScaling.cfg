SPECIFICATION Safety
CONSTANTS
  Shards = {s1, s2}
  MinShards = 1
  MaxShards = 2
  FailureThreshold = 2
  Actors = {"hc", "scale", "beat"}
SYMMETRY Symmetry
INVARIANT CountWithinBounds
PROPERTY ImplementsPhases
