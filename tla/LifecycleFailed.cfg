SPECIFICATION Safety
CONSTANTS
  Shards = {s1}
  MinShards = 0
  MaxShards = 1
  FailureThreshold = 2
  Actors = {"sm", "scale", "beat", "drain", "recover", "crash", "start"}
INVARIANT TypeOK
INVARIANT CopiesCurrent
PROPERTY FailedIsSticky
PROPERTY RunningOnlyByRecovery
