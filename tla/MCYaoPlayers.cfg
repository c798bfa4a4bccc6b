CONSTANTS
  r1 = r1
  r2 = r2
  r3 = r3
  r4 = r4
  r5 = r5
  Reg <- MCReg
  Tapes <- MCTapes
  GarblerBatchMin = 2
  EvaluatorBatchMin = 3
  Limit = 2
  Capacity = 2
SPECIFICATION Spec
INVARIANTS
  NoUnderrun
  FramesMatch
  NothingLeftOver
PROPERTIES
  ImplementsYaoGates
  Termination
CHECK_DEADLOCK FALSE
