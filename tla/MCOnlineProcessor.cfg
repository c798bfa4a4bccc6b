\* Three players, one memory cell of every kind, arithmetic modulo 5.
CONSTANTS
  Q = 5
  N = 3
  NCells = 1
  Seeds = {3}
  Givens = {1, 3}
  Sources <- MCSources
SPECIFICATION Spec
INVARIANTS MacsHold MemoryAsWritten
PROPERTY ImplementsTrusted
