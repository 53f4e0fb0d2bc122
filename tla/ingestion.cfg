SPECIFICATION FairSpec
CONSTANTS
  a1 = a1
  a2 = a2
  w1 = w1
  w2 = w2
  k1 = k1
  old = old
  new = new
  other = other
  None = None
  Calls = {a1, a2}
  key <- MCkey
  Objects = {old, new, other}
  Says <- MCSays
  Old = old
  Workers = {w1, w2}
  MaxTries = 3
  MaxFaults = 2
  MaxExpired = 1
  MaxExtra = 1
CHECK_DEADLOCK FALSE
INVARIANTS TypeOK OneEpisodePerContent RetryNotSwallowed CorroborationEarned KnowledgeKept
PROPERTIES StoredIsExtracted SupersessionEarned
