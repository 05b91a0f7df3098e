SPECIFICATION SchedulerFairSpec
CONSTANTS
  Games = {1, 2, 3, 4}
  Workers = {w1}
  QueueSize = 1
  Lists = {{1, 2, 3, 4}, {1, 2}}
  MaxLists = 2
INVARIANTS
  OneJobPerGame
PROPERTIES
  FilesKept
  EveryJobProcessed
CHECK_DEADLOCK FALSE
