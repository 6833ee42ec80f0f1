----------------------------- MODULE MCReadPath -----------------------------
(***************************************************************************)
(* Small instances of the read path for TLC.                               *)
(***************************************************************************)
EXTENDS ReadPath

CONSTANTS r1, r2, d1, d2

MCOpening == [w \in {1} |-> 1]
NoSeed == {}
=============================================================================
