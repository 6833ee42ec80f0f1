-------------------------- MODULE MCEventConsumer --------------------------
(***************************************************************************)
(* Small instances of the event consumer for TLC.                          *)
(***************************************************************************)
EXTENDS EventConsumer

Ev(t, w, a) == [type |-> t, wallet |-> w, amount |-> a]

\* A deposit, and withdrawals under and over the thresholds.
MCEvents ==
  [e1 |-> Ev("FundsDeposited", "a", 2), e2 |-> Ev("FundsWithdrawn", "a", 1),
   e3 |-> Ev("FundsWithdrawn", "a", 2)]

\* Messages for these events, one of which is a copy.
WithCopy == [m1 |-> "e1", m2 |-> "e2", m3 |-> "e3", m4 |-> "e1"]

\* Two deposits to one wallet.
TwoDeposits == [e1 |-> Ev("FundsDeposited", "a", 2), e2 |-> Ev("FundsDeposited", "a", 1)]
TwoMessages == [m1 |-> "e1", m2 |-> "e2"]
=============================================================================
