SPECIFICATION FairSpec
CONSTANTS
  N = 2
  MaxPending = 2
  SafeAbortNonceTooLowCount = 2
  NumConfirmations = 2
  FeeLimitMultiplier = 1
  Markets <- TwoMarkets
  NonceBits = 8
  Lossy = FALSE
  MaxFaults = 1
INVARIANTS
  ConfirmedStays
  BumpReplaces
PROPERTIES
  EverySendReported
CHECK_DEADLOCK FALSE
