SPECIFICATION Spec
CONSTANTS
  BlockTime = 2
  MaxSequencerDrift = 4
  SeqWindowSize = 2
  EspressoL1ConfDepth = 0
  Ledger <- MCLedger
  L1Times <- MCL1Times
  ChannelTimeout = 2
  MaxBatches = 3
  MaxResets = 1
INVARIANTS SameChain EpochsFilled DerivationKeepsUp
