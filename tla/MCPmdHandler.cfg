SPECIFICATION Spec
CONSTANTS
  Ids <- MCIds
  Prices <- MCPrices
  Modulus = 9
  Symbols <- MCSymbols
  Quantities <- MCQuantities
  MillisPerSecond = 2
  NanosPerMilli = 2
  MaxClock = 4
INVARIANTS
  TypeOK
  Mirrored
  NumbersLeadHome
PROPERTIES
  ThrowsOnlyIfMalformed
  StampedInTime
