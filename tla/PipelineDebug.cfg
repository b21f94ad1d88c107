SPECIFICATION Spec
CONSTANTS
  Algos <- MCAlgos
  Symbols <- MCSymbols
  SymbolsOf <- MCSymbolsOf
  MaxMessages = 2
  MaxQueries = 0
  Builds <- MCDebug
  MayStop = FALSE
PROPERTIES
  HandledInItsThread
