\* Handlers that run together, copies together or one after another, a wallet
\* with and without its row, a crash or a failure, a replayed dead letter.
SPECIFICATION FairSpec
CONSTANTS
  Events <- MCEvents
  Deliveries <- WithCopy
  Wallets = {"a"}
  KnownWallets = {{}, {"a"}}
  Prefetch = 2
  SpacedCopies = {FALSE, TRUE}
  HighAmount = 4
  RapidWithdrawal = 3
  MaxFaults = 1
  MaxReplays = 1
INVARIANTS
  TypeOK
  AckedWasApplied
  FlagFollowsTotal
  KnownTotalsExact
  DuplicatesBounded
PROPERTIES
  EveryMessageSettles
