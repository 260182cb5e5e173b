CONSTANTS
  Sections = {s1, s2}
  NoTime = NoTime
  MaxTime = 2
  MaxRuns = 2
  MaxScopes = 1
  MaxNesting = 1
  MaxAgain = 2
SPECIFICATION Spec
SYMMETRY Symmetry
INVARIANTS
  NeverOvercounts
