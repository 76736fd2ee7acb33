SPECIFICATION Spec
CONSTANTS
  ShardIDs = {"a", "b"}
  Resources = {"r1", "r2"}
  Plans <- MixedPlans
  MaxRetries = 2
  MaxConcurrent = 2
  MaxExecutions = 1
  MaxQueue = 3
CHECK_DEADLOCK FALSE
PROPERTY ServesByPriority
PROPERTY ExecutionEnds
