SPECIFICATION Spec
CONSTANTS
  ChannelIDs = {a, b}
  ChannelTimeout = 1
  MaxChannelBankSize = 4
  CanyonBlock = 2
  MaxFrameNumber = 2
  FrameSizes = {1, 2}
  MaxTxFrames = 2
  MaxL1 = 4
SYMMETRY Symmetry
INVARIANTS
  TypeOK
  NoTimedOutLeft
  ReadIsComplete
  SizeNeverUnderflows
