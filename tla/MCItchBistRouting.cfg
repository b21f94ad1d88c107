SPECIFICATION Spec
CONSTANTS
  Ids <- MCIdAndPosition
  OrderIds <- MCOne
  Positions <- MCPosition
  Prices <- MCOne
  Quantities <- MCTwo
  Modulus = 5
  OrderBookIds <- MCTwo
  Instruments <- MCThree
  KeyOf <- MCThreeKeys
  Symbols <- MCThree
  DecimalsOf <- MCDecimalsOf
  Agents <- MCThreeAgents
  SymbolOf <- MCThreeReaders
  NanosPerSecond = 2
  MaxClock = 2
  StateNames = {"open", "halted"}
  Tails = {"", "?"}
  Features = {}
INVARIANTS
  TypeOK
  Mirrored
  RoutesFollowListing
  InfoFollowsInstrument
  StampedInTime
