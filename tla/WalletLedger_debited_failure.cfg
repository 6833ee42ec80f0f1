\* A transfer that fails after its debit leaves no record.
SPECIFICATION FairSpec
CONSTANTS
  r1 = r1
  r2 = r2
  s1 = s1
  Wallets = {1, 2}
  Requests = {r1, r2}
  SeedIds = {s1}
  MaxBalance = 3
  Commands <- PoolCommands
  Opening <- MCOpening
  SeedTransfers <- NoSeed
  PoolSize = 2
  MaxFaults = 1
PROPERTIES
  DebitedFailureIsRecorded
