SPECIFICATION Spec
CONSTANTS
  Modulus = 2
  NaN <- MCNaN
  Eps = 0
  Shapes <- MCShapes
  Patterns <- MCPatterns
  HaveUmfpack = TRUE
  HaveSuperlu = FALSE
  Thrown = Thrown
  SizeBits = 2
  Tolerance = 1
  Numbers <- MCNumbers
  VectorSizes = {0, 1, 2, 3}
INVARIANTS
  ReadsAsPromised
  ReturnedMeansSolved
  LoopsAndNormsAgree
PROPERTY PatternIsKept
CHECK_DEADLOCK FALSE
