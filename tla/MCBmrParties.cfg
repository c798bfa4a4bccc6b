CONSTANTS
  N = 2
  Chunks = 2
SPECIFICATION Spec
INVARIANTS
  StoresInStep
  NothingNeededLost
PROPERTIES
  Termination
CHECK_DEADLOCK FALSE
