CONSTANTS
  N = 4
  MCs = {"mc2", "mcp"}
  OpeningSum = 2
  MaxBroadcast = 2
  PopenMax = 3
  Cases <- MCCases
SPECIFICATION Spec
INVARIANTS
  PairsMatch
  SameChecks
