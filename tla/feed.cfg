SPECIFICATION FeedSpec
CONSTANTS
  INT_MIN <- MCIntMin
  INT_MAX = 3
  QuantityMod = 8
  o1 = o1
  o2 = o2
  o3 = o3
  s1 = s1
  s2 = s2
  s3 = s3
  s4 = s4
  OrderId = {o1, o2, o3, s1, s2, s3, s4}
  NoOrder = NoOrder
  PoolSize = 3
  LimitPrices <- Prices12
  AddQuantities <- Quantity12
  ModifyQuantities <- Quantity12
  AddTypes <- FeedTypes
  RuleSets <- MCRules
  FeedIds = {o1, o2, o3}
  SyntheticIds <- Synthetic
  Snapshots <- MCSnapshots
  CounterMod = 8
  MaxMessages = 1
SYMMETRY Symmetry
INVARIANTS
  FeedTypeOK
  EveryMessageCounted
PROPERTIES
  SnapshotReplacesBook
  FeedDrivesEngine
