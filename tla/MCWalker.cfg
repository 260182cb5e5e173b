CONSTANTS
  a = a
  b = b
  i = i
  j = j
  Walkers = {1, 2}
  Codim0 = {f}
  Codim1 = {d}
  Codim0And1 = {g}
  Detector = d
  Entities = {a, b}
  Intersections = {i, j}
  Inside <- MCInside
  DirichletBoundary = {i, j}
  Wheres = {{a, b, i, j}, {a, j}}
  Partitions = {{a}, {b}}
  Workers = {k1, k2}
  MaxFunctors = 3
  MaxFound = 2
SPECIFICATION Spec
INVARIANTS
  AppliedAsAdded
  DetectorDetects
PROPERTIES
  WalkEnds
