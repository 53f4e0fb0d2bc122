SPECIFICATION FairSpec
CONSTANTS
  c1 = c1
  c2 = c2
  j1 = j1
  None = None
  Consumers = {c1, c2}
  Jobs = {j1}
  MaxAttempts = 2
  Batch = 2
  MaxFaults = 2
  MaxLapses = 1
  MaxReplays = 1
INVARIANTS TypeOK OneHandler SingleCopy NoJobLost DeadLetterEarned
PROPERTY ImplementsAtLeastOnce
