CONSTANTS
  s1 = s1
  s2 = s2
  Scopes = {s1, s2}
  None = None
  MaxRetries = 0
  MaxStores = 1
  MaxOrphans = 0
SPECIFICATION FairSpec
PROPERTIES
  QueueDrains
  ImplementsScopeWork
CHECK_DEADLOCK FALSE
