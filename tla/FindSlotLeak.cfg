SPECIFICATION Spec
CONSTANTS
  ShardIDs = {"a", "b"}
  Resources = {"r1", "r2"}
  Plans <- BulkOnly
  MaxRetries = 0
  MaxConcurrent = 1
  MaxExecutions = 2
  MaxQueue = 1
CHECK_DEADLOCK FALSE
PROPERTY QueuedPlanStarts
