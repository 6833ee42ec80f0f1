--------------------------- MODULE MCWalletLedger ---------------------------
(***************************************************************************)
(* Small instances of the wallet service for TLC.                          *)
(***************************************************************************)
EXTENDS WalletAudit

CONSTANTS
  r1, r2,  \* the requests
  s1       \* the transfer row present before the first request

\* Raw amounts: 4 rounds to no unit, 5 and 10 to one, 20 to two; 0 is refused.
Move(op, w, t, raw) == [op |-> op, wallet |-> w, to |-> t, raw |-> raw]

\* Every operation, refusal and rounding, on an existing wallet 1 and a
\* wallet 2 that is created on demand.
MCCommands ==
  {Move("deposit", 1, 1, 10), Move("deposit", 2, 2, 5), Move("deposit", 1, 1, 0),
   Move("withdraw", 1, 1, 20), Move("withdraw", 2, 2, 4),
   Move("transfer", 1, 2, 10), Move("transfer", 2, 1, 10),
   Move("transfer", 1, 2, 20), Move("transfer", 1, 2, 4), Move("transfer", 1, 1, 10)}

MCOpening == [w \in {1} |-> 2]

\* The row the repository's test seeds (src/tests/wallet.service.spec.ts:179).
MCSeed == {[id |-> s1, from |-> 1, to |-> 2, amount |-> 1, status |-> "debited"]}

\* Transfers and a deposit, without a seeded row.
PoolCommands ==
  {Move("transfer", 1, 2, 10), Move("transfer", 2, 1, 10),
   Move("transfer", 1, 2, 20), Move("deposit", 2, 2, 10)}

NoSeed == {}
=============================================================================
