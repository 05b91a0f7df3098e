SPECIFICATION ReplaySpec
CONSTANTS
  ChannelIDs = {a, b}
  ChannelTimeout = 2
  MaxChannelBankSize = 6
  CanyonBlock = 0
  MaxFrameNumber = 2
  FrameSizes = {1}
  MaxTxFrames = 1
  MaxL1 = 6
  RepeatedFrames = FALSE
SYMMETRY Symmetry
INVARIANTS
  SameOutputs
