CONSTANTS
  p1 = p1
  p2 = p2
  c1 = c1
  c2 = c2
  Procs = {p1, p2}
  Changes = {c1, c2}
  None = None
  MaxRetries = 0
  Sweepers = {}
  MaxStarts = 3
SPECIFICATION Spec
INVARIANTS
  CleanMeansPublished
PROPERTIES
  ImplementsServedView
SYMMETRY Symmetry
CHECK_DEADLOCK FALSE
