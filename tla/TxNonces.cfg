SPECIFICATION Spec
CONSTANTS
  N = 3
  MaxPending = 2
  SafeAbortNonceTooLowCount = 2
  NumConfirmations = 2
  FeeLimitMultiplier = 1
  Markets <- OneMarket
  NonceBits = 8
  Lossy = TRUE
  MaxFaults = 1
INVARIANTS
  TypeOK
  SharedNonceOnlyWhenFailing
  NoNonceGap
CHECK_DEADLOCK FALSE
