SPECIFICATION FairSpec
CONSTANTS
  NoBatch = NoBatch
  BlockTime = 2
  MaxSequencerDrift = 2
  SeqWindowSize = 2
  EspressoL1ConfDepth = 1
  BundleKinds = {"user"}
  L1Gaps = {2}
  L1Heads = {0, 2}
  TsSteps <- MCTsSteps
  MaxLedger = 2
  MaxL1 = 3
  MaxReorgs = 1
  MaxL2 = 2
  MaxTime = 6
INVARIANTS
  WindowInv
PROPERTIES
  CoveredWindowIsSealed
