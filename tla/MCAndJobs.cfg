SPECIFICATION Spec
CHECK_DEADLOCK FALSE
CONSTANTS
  r1 = r1
  r2 = r2
  r3 = r3
  r4 = r4
  r5 = r5
  r6 = r6
  Reg <- MCReg
  Instrs <- MCInstrs
  NThreads = 3
  Threshold = 2
INVARIANTS JobsFit PopFindsItem
PROPERTIES ImplementsBatches Termination
