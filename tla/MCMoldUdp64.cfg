SPECIFICATION Spec
CONSTANTS
  MaxSeq = 3
  MaxBatch = 2
  MaxLosses = 1
  MaxRepeats = 1
  Callbacks <- MCCallbacks
  Builds <- MCBuilds
  Empties <- MCEmpties
INVARIANTS
  TypeOK
  HandledInOrder
  GapKnown
  NotForgotten
PROPERTIES
  Delivers
  CatchesUp
