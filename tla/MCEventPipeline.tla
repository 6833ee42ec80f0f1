-------------------------- MODULE MCEventPipeline --------------------------
(***************************************************************************)
(* Small instances of the event pipeline for TLC.                          *)
(***************************************************************************)
EXTENDS EventPipeline, TLC

CONSTANTS c1, c2

\* A deposit, and an event without analytics.
MCEvents ==
  (1 :> [type |-> "FundsDeposited", wallet |-> "a", amount |-> 1]) @@
  (2 :> [type |-> "TransferCompleted", wallet |-> "a", amount |-> 1])
=============================================================================
