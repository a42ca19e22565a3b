SPECIFICATION ClientSpec
CONSTANTS
  INT_MIN <- MCIntMin
  INT_MAX = 5
  QuantityMod = 8
  s1 = s1
  s2 = s2
  s3 = s3
  s4 = s4
  OrderId = {s1, s2, s3, s4}
  NoOrder = NoOrder
  PoolSize = 4
  LimitPrices <- Price
  AddQuantities <- Quantity
  ModifyQuantities = {}
  AddTypes <- Gtc
  RuleSets <- MCRules
  FeedIds = {}
  SyntheticIds <- Synthetic
  Snapshots <- MCSnapshots
  CounterMod = 2
  MaxMessages = 2
  Bodies <- MCBodies
  Scale = 2
  Short <- MCShort
  DisplayLevels = 1
INVARIANTS
  ScreenNeverCrossed
PROPERTIES
  ScreenIsResponse
  KeepsPolling
