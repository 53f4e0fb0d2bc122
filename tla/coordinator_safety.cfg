CONSTANTS
  s1 = s1
  s2 = s2
  Scopes = {s1, s2}
  None = None
  MaxRetries = 1
  MaxStores = 2
  MaxOrphans = 1
SPECIFICATION Spec
INVARIANTS
  TypeOK
  NoForgottenScope
  StopQuiesces
  DiscoveryFailureTracked
PROPERTIES
  GiveUpEarned
SYMMETRY ScopeSymmetry
CHECK_DEADLOCK FALSE
