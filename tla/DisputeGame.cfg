SPECIFICATION FairSpec
CONSTANTS
  MaxDepth = 3
  HalfDuration = 2
  MaxOthers = 2
INVARIANTS
  HonestWins
  OurStepsCount
  AncestorExists
PROPERTIES
  EveryGameResolves
CHECK_DEADLOCK FALSE
