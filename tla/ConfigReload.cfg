SPECIFICATION Spec
CONSTANTS
  Specs <- UserSpecs
  MapData <- UserMaps
  Default <- DefaultConfig
  Absent = Absent
  Loaders = {l1, l2}
  Watches = {w1}
  MaxEdits = 2
  None = None
CHECK_DEADLOCK FALSE
INVARIANT TypeOK
INVARIANT OnlyValidInForce
PROPERTY UserConfigKept
PROPERTY ShardConfigWins
PROPERTY EveryChangeReported
