\* Two inputs from the terminal in a block, the second not needed by the
\* first opening.
CONSTANTS
  Q = 5
  N = 2
  NCells = 0
  Seeds = {3}
  Givens = {1, 3}
  Sources <- LateInput
SPECIFICATION Spec
INVARIANT InputsShared
