\* Two clients of either read endpoint beside two commands.
SPECIFICATION ReadFairSpec
CONSTANTS
  r1 = r1
  r2 = r2
  d1 = d1
  d2 = d2
  Wallets = {1, 2}
  Requests = {r1, r2}
  SeedIds = {}
  MaxBalance = 2
  Amounts = {1}
  Opening <- MCOpening
  SeedTransfers <- NoSeed
  Clients = {d1, d2}
  Watched = {1}
  TTL = 2
  FillTime = 1
  Limits = {1, 2}
  MaxLimit = 2
INVARIANTS
  CacheTypeOK
  LagBounded
  GoesBackOnlyByRace
  SkippedOnlyByTies
  RepeatedOnlyByCommits
PROPERTIES
  StaleEntriesGo
