SPECIFICATION Spec
CONSTANTS
  a = a  b = b  c = c  None = None
  Compiles = {a, b, c}  Global = {a, b}
  StaleAfter = 2  Timeout = 3  Retained = 1
  MaxCommits = 1  MaxFaults = 1
INVARIANT LockProvesNoOtherWriter
CHECK_DEADLOCK FALSE
