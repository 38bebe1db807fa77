SPECIFICATION Spec
CONSTANTS
  p1 = p1
  p2 = p2
  p3 = p3
  c1 = c1
  c2 = c2
  c3 = c3
  Procs = {p1, p2}
  Names = {c1, c2, c3}
INVARIANT DoneOnce
INVARIANT DoneMeansCleanedUp
PROPERTY ShutdownEnds
