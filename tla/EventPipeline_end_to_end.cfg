\* One publishing cycle at a time, a worker, a broker that may restart.
SPECIFICATION FairSpec
CONSTANTS
  c1 = c1
  c2 = c2
  Events <- MCEvents
  Wallets = {"a"}
  KnownWallets = {{}}
  Prefetch = 4
  HighAmount = 4
  RapidWithdrawal = 3
  Cycles = {c1}
  BatchSize = 2
  MaxAttempts = 2
  PoolSize = 3
  MaxLeaks = 0
  MaxFaults = 1
  MaxReplays = 1
  MaxCopies = 2
  MaxRestarts = 1
INVARIANTS
  NothingVanishes
  EffectsBounded
PROPERTIES
  AtLeastOnce
