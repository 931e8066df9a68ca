CONSTANTS
  Pages = {p1, p2, p3}
  Frames = {f1, f2}
  Buffers = {b1, b2}
  Clients = {c1, c2, c3}
  None = None
  k = 2
  MaxCounter = 6
  MaxVersion = 2
SPECIFICATION Spec
SYMMETRY PoolSymmetry
INVARIANTS TypeOK PoolConsistent AcquireSafe FullMeansPinned HandlesValid Coherent
