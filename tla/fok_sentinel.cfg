SPECIFICATION Spec
CONSTANTS
  INT_MIN <- MCIntMin
  INT_MAX = 3
  QuantityMod = 8
  o1 = o1
  o2 = o2
  o3 = o3
  o4 = o4
  OrderId = {o1, o2, o3}
  NoOrder = NoOrder
  PoolSize = 3
  LimitPrices <- Prices12
  AddQuantities <- Quantity12
  ModifyQuantities <- Quantity12
  AddTypes <- AllTypes
  RuleSets <- OnlyDefault
SYMMETRY Symmetry
INVARIANTS
  NoSentinelTrade
