CONSTANTS
  r1 = r1
  r2 = r2
  r3 = r3
  r4 = r4
  r5 = r5
  Reg <- MCReg
  Tapes <- MCTapes
  GarblerBatchMin = 2
  EvaluatorBatchMin = 3
SPECIFICATION Spec
INVARIANTS
  WireCorrect
  SignalIsExternal
  StreamsInStep
  NeverBothKeys
PROPERTY EvaluatesThePlainCircuit
CHECK_DEADLOCK FALSE
