---------------------------- MODULE WalletTypes ----------------------------
(***************************************************************************)
(* The rows of the wallet schema, as sets of records, and the parameters   *)
(* shared by the abstract ledger and by the service that implements it.    *)
(***************************************************************************)
EXTENDS Integers, FiniteSets, Money

CONSTANTS
  Wallets,    \* wallet ids; numbers, because transfer() compares ids with <=
  Requests,   \* command requests, each served at most once
  SeedIds,    \* ids of transfer rows present before the first request
  MaxBalance  \* largest balance the numeric(20, 4) column can hold, in units

ASSUME WalletTypesAssumption ==
  /\ Wallets \subseteq Nat
  /\ MaxBalance \in Nat
  /\ Requests \cap SeedIds = {}

EventTypes ==
  {"FundsDeposited", "FundsWithdrawn", "TransferInitiated",
   "TransferCompleted", "TransferFailed", "TransferCompensated"}

\* A row of wallet_events.  The request and the type identify the row: a
\* request writes at most one event of each type.  Metadata is left out.
Event == [req : Requests, type : EventTypes, wallet : Wallets, amount : Nat]

NewEvent(r, type, w, a) ==
  [req |-> r, type |-> type, wallet |-> w, amount |-> a]

TransferStatuses == {"initiated", "debited", "credited", "failed", "compensated"}

\* A row of transfers; a request's own transfer is identified by the request.
Transfer ==
  [id : Requests \cup SeedIds, from : Wallets, to : Wallets,
   amount : Nat, status : TransferStatuses]

\* What a client may ask for; "to" only matters to a transfer.
Command ==
  [op : {"deposit", "withdraw", "transfer"},
   wallet : Wallets, to : Wallets, raw : Nat]
=============================================================================
