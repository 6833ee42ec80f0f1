\* The first two deposits of a wallet are handled together.
SPECIFICATION Spec
CONSTANTS
  Events <- TwoDeposits
  Deliveries <- TwoMessages
  Wallets = {"a"}
  KnownWallets = {{}}
  Prefetch = 2
  SpacedCopies = {TRUE}
  HighAmount = 4
  RapidWithdrawal = 3
  MaxFaults = 0
  MaxReplays = 0
INVARIANTS
  TotalsExact
