CONSTANTS
  Sections = {s1, s2}
  NoTime = NoTime
  MaxTime = 2
  MaxRuns = 2
  MaxScopes = 1
  MaxNesting = 2
  MaxAgain = 1
SPECIFICATION Spec
SYMMETRY Symmetry
INVARIANTS
  OnlySecondStopsOvercount
PROPERTIES
  EarlierRunsAreFinal
