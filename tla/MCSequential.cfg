SPECIFICATION SequentialSpec
CONSTANTS
  Msg = {m1, m2}
  Reset = Reset
  N = 2
  MaxFiles = 3
  Size = 8
  ValueSize = 6
  MaxDemuxBits = 1
  Value = {x1}
  NoValue = NoValue
  NoEntry = NoEntry
  Sigma = 20
  Tau = 20
  Shapes <- SmallShapes
  P = 127
  Kappa = 2
  MaxBits = 4
  Masks = {1, 2}
  Lengths = {2, 3, 4}
  MaxChunk = 4
  MaxLog = 3
  Perms <- SomePerms
  Limb = 8
  Digit = 16
  Primes = {5, 13, 29}
CONSTRAINT FewFiles
INVARIANT LibraryCorrect
INVARIANT InstructionsAgree
INVARIANT ArithmeticCorrect
INVARIANT TriplesCorrect
PROPERTY ImplementsFifo
PROPERTY ImplementsArray
