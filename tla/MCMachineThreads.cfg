CONSTANTS
  NThreads = 3
  Programs <- All
  NItems = 8
SPECIFICATION Spec
INVARIANTS
  WakeupsJustified
  LinesApart
  FlatUsedOnce
  RecordComplete
PROPERTIES
  ImplementsPool
  Termination
CHECK_DEADLOCK FALSE
