\* A crash between the update and consumed_events.
SPECIFICATION Spec
CONSTANTS
  Events <- TwoDeposits
  Deliveries <- TwoMessages
  Wallets = {"a"}
  KnownWallets = {{}}
  Prefetch = 1
  SpacedCopies = {TRUE}
  HighAmount = 4
  RapidWithdrawal = 3
  MaxFaults = 1
  MaxReplays = 0
INVARIANTS
  AppliedOnce
