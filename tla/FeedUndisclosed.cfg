SPECIFICATION Spec
CONSTANTS
  Ids <- MCIdsAndPosition
  OrderIds <- MCTwo
  Positions <- MCPosition
  Prices <- MCTwo
  Quantities <- MCTwo
  Modulus = 5
  OrderBookIds <- MCOne
  Instruments <- MCOneInstrument
  KeyOf <- MCOneKey
  Symbols <- MCOneInstrument
  DecimalsOf <- MCDecimalsOf
  Agents <- MCOne
  SymbolOf <- MCOneReader
  NanosPerSecond = 2
  MaxClock = 0
  StateNames = {}
  Tails = {""}
  Features = {"undisclosed"}
INVARIANTS
  NoInventedLiquidity
