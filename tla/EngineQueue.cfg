SPECIFICATION FairSpec
CONSTANTS
  Nil = Nil
  Delay = 1
  SeqWindowSize = 1
  ChannelTimeout = 1
  FinalityLookback = 3
  FinalityDelay = 1
  MaxPayloads = 1
  MaxFinalityLag = 2
  MaxL1 = 5
  MaxL1Reorgs = 1
  MaxEvents = 2
INVARIANTS
  TypeOK
  FinalizedIsDerived
PROPERTIES
  HeadsAsPromised
  SafeCatchesUp
CHECK_DEADLOCK FALSE
