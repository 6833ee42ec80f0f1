------------------------------- MODULE Ledger -------------------------------
(***************************************************************************)
(* What the write path of the wallet service promises: every command takes *)
(* effect in one indivisible step, at most once, and leaves in that same   *)
(* step the events and the outbox messages that account for it.            *)
(***************************************************************************)
EXTENDS WalletTypes

CONSTANTS
  Amounts,       \* amounts commands carry, in units
  Opening,       \* [existing wallets -> balance] before the first request
  SeedTransfers  \* transfer rows before the first request

VARIABLES
  balance,    \* [Wallets -> balance]; a wallet that does not exist has 0
  events,     \* wallet_events
  outbox,     \* the events carried by outbox_messages
  transfers   \* the transfers table

vars == <<balance, events, outbox, transfers>>

OpeningBalance ==
  [w \in Wallets |-> IF w \in DOMAIN Opening THEN Opening[w] ELSE 0]

Init ==
  /\ balance = OpeningBalance
  /\ events = {}
  /\ outbox = {}
  /\ transfers = SeedTransfers

\* The request has not taken effect yet.
Unused(r) == \A e \in events : e.req # r

\* The events es enter the audit log and the outbox together.
Record(es) ==
  /\ events' = events \cup es
  /\ outbox' = outbox \cup es

Deposit(r, w, a) ==
  /\ Unused(r)
  /\ balance[w] + a <= MaxBalance
  /\ balance' = [balance EXCEPT ![w] = @ + a]
  /\ Record({NewEvent(r, "FundsDeposited", w, a)})
  /\ UNCHANGED transfers

Withdraw(r, w, a) ==
  /\ Unused(r)
  /\ a <= balance[w]
  /\ balance' = [balance EXCEPT ![w] = @ - a]
  /\ Record({NewEvent(r, "FundsWithdrawn", w, a)})
  /\ UNCHANGED transfers

TransferEvents(r, f, t, a) ==
  {NewEvent(r, "TransferInitiated", f, a), NewEvent(r, "FundsWithdrawn", f, a),
   NewEvent(r, "FundsDeposited", t, a), NewEvent(r, "TransferCompleted", f, a)}

MakeTransfer(r, f, t, a) ==
  /\ Unused(r)
  /\ f # t
  /\ a > 0
  /\ a <= balance[f]
  /\ balance[t] + a <= MaxBalance
  /\ balance' = [balance EXCEPT ![f] = @ - a, ![t] = @ + a]
  /\ Record(TransferEvents(r, f, t, a))
  /\ transfers' = transfers \cup
       {[id |-> r, from |-> f, to |-> t, amount |-> a, status |-> "credited"]}

\* A transfer whose credit never happened gives its amount back, once.
Compensate(r, x) ==
  /\ Unused(r)
  /\ x.status = "debited"
  /\ balance[x.from] + x.amount <= MaxBalance
  /\ balance' = [balance EXCEPT ![x.from] = @ + x.amount]
  /\ Record({NewEvent(r, "TransferFailed", x.from, x.amount),
             NewEvent(r, "TransferCompensated", x.from, x.amount)})
  /\ transfers' = (transfers \ {x}) \cup {[x EXCEPT !.status = "compensated"]}

TakeEffect(r) ==
  \/ \E w \in Wallets, a \in Amounts : Deposit(r, w, a) \/ Withdraw(r, w, a)
  \/ \E f, t \in Wallets, a \in Amounts : MakeTransfer(r, f, t, a)
  \/ \E x \in transfers : Compensate(r, x)

Next == \E r \in Requests : TakeEffect(r)

Spec == Init /\ [][Next]_vars
=============================================================================
