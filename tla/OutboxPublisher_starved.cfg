\* As many open cycles as connections.
SPECIFICATION FairSpec
CONSTANTS
  c1 = c1
  c2 = c2
  Messages = {1, 2}
  Cycles = {c1, c2}
  BatchSize = 2
  MaxAttempts = 2
  PoolSize = 2
  MaxFaults = 0
  MaxLeaks = 0
PROPERTIES
  Delivered
\* The service does stop: each open cycle holds a connection and waits for another.
CHECK_DEADLOCK FALSE
