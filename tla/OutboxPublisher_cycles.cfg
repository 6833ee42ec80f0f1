\* Overlapping cycles with faults, and a connection to spare.
SPECIFICATION FairSpec
CONSTANTS
  c1 = c1
  c2 = c2
  Messages = {1, 2}
  Cycles = {c1, c2}
  BatchSize = 2
  MaxAttempts = 2
  PoolSize = 4
  MaxFaults = 2
  MaxLeaks = 1
INVARIANTS
  TypeOK
  PublishedWasSent
  FailedWasTried
  CopiesAreCounted
PROPERTIES
  Settled
