---------------------------- MODULE ReadClients ----------------------------
(***************************************************************************)
(* Who calls the two read endpoints of WalletController, and about what.   *)
(***************************************************************************)
EXTENDS Ledger

CONSTANTS
  Clients, \* HTTP clients of GET /wallet/:id and GET /wallet/:id/history
  Watched  \* the wallets they ask for

ASSUME ClientsAssumption == Watched \subseteq Wallets

VARIABLE uses \* uses[d]: the endpoint client d calls, "balance" or "history"

UsesInit == uses \in [Clients -> {"balance", "history"}]
=============================================================================
