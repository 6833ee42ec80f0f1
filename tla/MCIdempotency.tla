--------------------------- MODULE MCIdempotency ---------------------------
(***************************************************************************)
(* Small instances of the idempotency keys for TLC.                        *)
(***************************************************************************)
EXTENDS Idempotency, TLC

CONSTANTS q1, q2, q3

Interchangeable == Permutations(Requests)
=============================================================================
