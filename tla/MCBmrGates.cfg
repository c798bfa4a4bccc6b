CONSTANTS
  r1 = r1
  r2 = r2
  r3 = r3
  N = 2
  Reg <- MCReg
  Tapes <- MCTapes
SPECIFICATION Spec
INVARIANTS
  LabelsFit
  StreamsUsedUp
PROPERTY EvaluatesThePlainCircuit
