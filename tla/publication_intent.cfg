CONSTANTS
  p1 = p1
  p2 = p2
  c1 = c1
  c2 = c2
  Procs = {p1}
  Changes = {c1}
  None = None
  MaxRetries = 1
  Sweepers = {p1}
  MaxStarts = 1
SPECIFICATION Spec
PROPERTIES
  NeedKeptUntilServed
