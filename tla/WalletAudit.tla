---------------------------- MODULE WalletAudit ----------------------------
(***************************************************************************)
(* Properties of the wallet service that add up amounts: whether the audit *)
(* log explains the balances, and whether money is conserved.              *)
(***************************************************************************)
EXTENDS WalletLedger, Functions

\* There is a sum over all wallets, and one over the seeded rows.
ASSUME WalletAuditAssumption == IsFiniteSet(Wallets) /\ IsFiniteSet(SeedTransfers)

\* What an event says happened to the balance of its wallet.
Effect(e) ==
  CASE e.type \in {"FundsDeposited", "TransferCompensated"} -> e.amount
    [] e.type = "FundsWithdrawn" -> -e.amount
    [] OTHER -> 0

\* What the events es, taken together, say happened.
Net(es) == SumFunction([e \in es |-> Effect(e)])

\* The balances can be rebuilt from wallet_events (DESIGN.md:7, "Clear audit
\* trail and ability to replay/rebuild read models"), at every moment.
AuditTrail ==
  \A w \in Wallets :
    balance[w] = Abstract!OpeningBalance[w] + Net({e \in events : e.wallet = w})

InFlight(ts) ==
  LET debited == {t \in ts : t.status = "debited"}
  IN  SumFunction([t \in debited |-> t.amount])

\* A deposit or a withdrawal of its own, not one made by a transfer.
External(e) == cmd[e.req].op # "transfer"

\* Money is conserved: balances and debited transfers together change only by
\* external deposits and withdrawals; a transfer, a failed transfer and a
\* compensation neither make nor lose any.
MoneyConserved ==
  SumFunction(balance) + InFlight(transfers)
    = SumFunction(Abstract!OpeningBalance) + InFlight(SeedTransfers)
        + Net({e \in events : External(e)})

\* A transfer row tells what the log tells: credited exactly when the log has
\* its TransferCompleted, and no row is left initiated or failed.
TransfersMatchLog ==
  /\ \A t \in transfers : t.status \in {"debited", "credited", "compensated"}
  /\ {t.id : t \in {x \in transfers : x.status = "credited"}}
       = {e.req : e \in {x \in events : x.type = "TransferCompleted"}}

\* The amount is tested before it is rounded.  Whatever a command then records
\* differs from what was asked by at most half a unit, and although a deposit
\* or a withdrawal may record nothing, a transfer moves money or fails whole.
AmountsAsAsked ==
  /\ \A e \in events : /\ 10 * e.amount - cmd[e.req].raw \in -4 .. 5
                       /\ cmd[e.req].op = "transfer" => e.amount > 0
  /\ \A t \in transfers : t.amount > 0
=============================================================================
