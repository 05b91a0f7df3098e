SPECIFICATION Spec
CONSTANTS
  ChannelTimeout = 2
  MaxChannelDuration = 2
  SubSafetyMargin = 1
  SeqWindowSize = 3
  BlocksPerEpoch = 2
  ChainLength = 3
  L2Blocks <- MCL2Blocks
  Oversized <- MCOversized
  NoTip = NoTip
  MaxLoaded = 2
  MaxChannels = 3
  MaxFrames = 2
  MaxL1 = 4
INVARIANTS
  TypeOK
  FramesAccounted
  NoBlockLost
  ClosedQueueIsFull
  SubmittedNotAbandoned
