CONSTANTS
  Threads = {t1, t2, t3}
  Handles = {x, y, z}
  Backends = {b1, b2, b3, b4, b5}
  NoBackend = NoBackend
  NoHandle = NoHandle
  Values = {v1, v2}
  Free = Free
SPECIFICATION Spec
SYMMETRY Symmetry
INVARIANTS
  NoDataRace
  Isolation
  NoLeak
