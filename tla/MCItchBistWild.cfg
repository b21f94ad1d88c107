SPECIFICATION Spec
CONSTANTS
  Ids <- MCIdAndPosition
  OrderIds <- MCOne
  Positions <- MCPosition
  Prices <- MCOne
  Quantities <- MCOne
  Modulus = 3
  OrderBookIds <- MCOne
  Instruments <- MCInstruments
  KeyOf <- MCOwnKey
  Symbols <- MCInstruments
  DecimalsOf <- MCDecimalsOf
  Agents <- MCTwo
  SymbolOf <- MCTwoReaders
  NanosPerSecond = 2
  MaxClock = 1
  StateNames = {"open"}
  Tails = {""}
  Features = {"sharedIds", "undisclosed", "replace", "crossFills", "idReuse", "late", "malformed"}
INVARIANTS
  AgentsAgree
PROPERTIES
  EveryChangeAnnounced
