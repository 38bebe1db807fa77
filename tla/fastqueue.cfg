SPECIFICATION Spec
CONSTANTS
  p1 = p1
  p2 = p2
  p3 = p3
  u1 = u1
  u2 = u2
  u3 = u3
  u4 = u4
  Procs = {p1, p2}
  URLs = {u1, u2, u3, u4}
  NumShards = 2
  Capacity = 1
  MaxBatch = 2
SYMMETRY Symmetry
INVARIANT OnePlace
INVARIANT LenIsRight
INVARIANT CloseReleasesWaiters
PROPERTY ImplementsURLQueue
