CONSTANTS
  Modulus = 3
  Sizes = {0, 1}
  Handles = {x, y, z}
  Backends = {b1, b2, b3}
  NoBackend = NoBackend
  NoVector = NoVector
  Flavour = "eigen"
SPECIFICATION Spec
SYMMETRY Symmetry
CHECK_DEADLOCK FALSE
INVARIANTS
  TypeOK
  HeapMatchesOwners
  ExposedIsExclusive
PROPERTIES
  ValueSemantics
