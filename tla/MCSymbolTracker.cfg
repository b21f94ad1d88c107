SPECIFICATION TrackerSpec
CONSTANTS
  o1 = o1
  o2 = o2
  o3 = o3
  Ids <- MCOrderIds
  OrderIds <- MCOrderIds
  Positions <- MCNone
  Prices <- MCTwo
  Quantities <- MCTwo
  Modulus = 9
  OrderBookIds <- MCTwo
  Trackers <- MCTrackers
  TrackerOf <- MCTrackerOf
  Instruments <- MCInstruments
  KeyOf <- MCKeyOf
  Symbols <- MCInstruments
  DecimalsOf <- MCDecimalsOf
  Agents <- MCAgents
  SymbolOf <- MCSymbolOf
  NanosPerSecond = 2
  MaxClock = 0
  StateNames = {}
  Tails = {""}
  Features = {}
  MaxQuotes = 4
  MaxTrades = 2
SYMMETRY MCSymmetry
CONSTRAINT MCBounds
INVARIANTS
  TrackerTypeOK
  PrintedTopIsCurrent
  PeaksCoverBook
PROPERTIES
  ChangedTopIsPrinted
  FillsPrinted
  EveryFillReported
