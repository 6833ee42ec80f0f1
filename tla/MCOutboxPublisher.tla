------------------------- MODULE MCOutboxPublisher -------------------------
(***************************************************************************)
(* Small instances of the outbox publisher for TLC.                        *)
(***************************************************************************)
EXTENDS OutboxPublisher

CONSTANTS c1, c2

=============================================================================
