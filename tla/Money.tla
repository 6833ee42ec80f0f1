------------------------------- MODULE Money -------------------------------
(***************************************************************************)
(* Amounts of money as the service computes them with Decimal.js.          *)
(*                                                                         *)
(* One unit is 0.0001, the scale of every numeric(20, 4) column.  A client *)
(* may send more decimals than that: a raw amount counts tenths of a unit, *)
(* so 4 stands for 0.00004 and 5 for 0.00005.  Balances and recorded       *)
(* amounts are whole units, on which plus, minus and toFixed(4) are exact. *)
(***************************************************************************)
EXTENDS Integers

\* The raw amounts that normalizeAmount refuses.  The test is made on the
\* amount as it was sent, before it is rounded.
NotPositive(raw) == raw <= 0

\* toDecimalPlaces(4, ROUND_HALF_UP) of a positive raw amount, in units.
Normalize(raw) == (raw + 5) \div 10
=============================================================================
