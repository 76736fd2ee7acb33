SPECIFICATION Spec
CONSTANTS
  Shards = {s1}
  MinShards = 1
  MaxShards = 1
  FailureThreshold = 3
  Actors = {"hc", "beat", "crash", "time"}
PROPERTY DeadShardDetected
