SPECIFICATION Spec
CONSTANTS
  NoBatch = NoBatch
  BlockTime = 2
  MaxSequencerDrift = 4
  SeqWindowSize = 2
  EspressoL1ConfDepth = 0
  BundleKinds = {"user"}
  L1Gaps = {1, 4}
  L1Heads = {0, 2}
  TsSteps <- MCTsSteps
  MaxLedger = 3
  MaxL1 = 3
  MaxReorgs = 0
  MaxL2 = 3
  MaxTime = 6
INVARIANTS
  TypeOK
  SealedNeverDropped
  SealedAcceptedOnceVisible
  WindowsAbut
