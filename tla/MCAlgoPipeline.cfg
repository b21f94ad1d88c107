SPECIFICATION Spec
CONSTANTS
  Algos <- MCAlgos
  Symbols <- MCSymbols
  SymbolsOf <- MCSymbolsOf
  MaxMessages = 2
  MaxQueries = 1
  Builds <- MCBoth
  MayStop = TRUE
INVARIANTS
  TypeOK
PROPERTIES
  HandlesEventsInStep
  NoWriteDuringTick
  ResultMeansDone
  EveryEventTicked
  Terminates
CHECK_DEADLOCK FALSE
