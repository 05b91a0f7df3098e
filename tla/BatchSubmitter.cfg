SPECIFICATION FairSpec
CONSTANTS
  MaxPending = 1
  Nil = Nil
  MaxL2 = 3
  MaxReorgs = 1
  MaxStarts = 2
INVARIANTS
  NoBlockLeftOut
  NoTxOutlivesState
PROPERTIES
  EveryStopReturns
  EverythingSafe
CHECK_DEADLOCK FALSE
