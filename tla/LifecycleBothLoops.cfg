SPECIFICATION Spec
CONSTANTS
  Shards = {s1}
  MinShards = 1
  MaxShards = 1
  FailureThreshold = 2
  Actors = {"sm", "hc", "beat", "crash", "start", "time"}
PROPERTY DeadShardUnhealthy
