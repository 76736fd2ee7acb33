SPECIFICATION Safety
CONSTANTS
  ShardIDs = {"a", "b"}
  Resources = {"r1", "r2"}
  Plans <- ClashingPlans
  MaxRetries = 1
  MaxConcurrent = 1
  MaxExecutions = 3
  MaxQueue = 0
CHECK_DEADLOCK FALSE
INVARIANT TypeOK
INVARIANT Registered
INVARIANT Accounting
PROPERTY HistoryFinal
PROPERTY RetriesRunOut
