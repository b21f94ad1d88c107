SPECIFICATION Spec
CONSTANTS
  Ids <- MCIds
  Prices <- MCPrices
  Quantities <- MCQuantities
  Modulus = 5
INVARIANTS
  TypeOK
  LevelsMatchOrders
  NoDanglingLevel
  SweepMeansLevelCleared
  QueriesTellOrders
PROPERTIES
  ReconstructsExchangeBook
