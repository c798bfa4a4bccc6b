CONSTANTS
  NThreads = 3
  Programs <- OnlyFork
  NItems = 10
SPECIFICATION Spec
INVARIANT UsedOnce
CHECK_DEADLOCK FALSE
