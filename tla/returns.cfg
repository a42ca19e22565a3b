SPECIFICATION FairSpec
CONSTANTS
  INT_MIN <- MCIntMin
  INT_MAX = 3
  QuantityMod = 8
  o1 = o1
  o2 = o2
  o3 = o3
  o4 = o4
  OrderId = {o1, o2, o3}
  NoOrder = NoOrder
  PoolSize = 3
  LimitPrices <- Price1
  AddQuantities <- Quantity012
  ModifyQuantities <- Quantity01
  AddTypes <- LoopTypes
  RuleSets <- OnlyZeroMin
PROPERTIES
  CallReturns
  StepsRunOut
