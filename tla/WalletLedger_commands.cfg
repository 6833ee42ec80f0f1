\* Two concurrent requests, every operation, two faults.
SPECIFICATION FairSpec
CONSTANTS
  r1 = r1
  r2 = r2
  s1 = s1
  Wallets = {1, 2}
  Requests = {r1, r2}
  SeedIds = {s1}
  MaxBalance = 3
  Commands <- MCCommands
  Opening <- MCOpening
  SeedTransfers <- MCSeed
  PoolSize = 2
  MaxFaults = 2
INVARIANTS
  TypeOK
  LocksExclude
  ReadsStayCurrent
  WaitersClimb
  RefindFinds
  OutboxComplete
  AnswersAreTrue
  AuditTrail
  MoneyConserved
  TransfersMatchLog
  AmountsAsAsked
PROPERTIES
  Implements
  EveryRequestEnds
