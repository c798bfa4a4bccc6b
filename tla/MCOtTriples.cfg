CONSTANTS
  Machines <- MCMachines
  NLoops = 2
SPECIFICATION OtSpec
INVARIANT
  SumsMatch
PROPERTY
  EventuallyDone
