SPECIFICATION Spec
CONSTANTS
  Shards = {s1}
  MinShards = 1
  MaxShards = 1
  FailureThreshold = 2
  Actors = {"sm", "beat", "crash", "start", "time", "report", "drain"}
PROPERTY DeadShardDetected
