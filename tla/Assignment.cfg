SPECIFICATION Spec
CONSTANTS
  Shards = {1, 2, 3}
  NoShard = 0
  HashSize = 8
  PointsOf <- TwoPoints
  Keys = {k1}
  HashOf <- KeyHash
  Loads = {1, 5}
  Strategies <- AllStrategies
  Updaters = {u1}
INVARIANT TypeOK
INVARIANT RingExact
INVARIANT OwnerIsNearest
INVARIANT SpaceIsShare
INVARIANT RebalanceLawful
PROPERTY MinimalMovement
PROPERTY OwnerGetsResource
PROPERTY RoundRobinVisitsAll
