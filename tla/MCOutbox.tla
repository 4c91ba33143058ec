------------------------------ MODULE MCOutbox ------------------------------
(***************************************************************************)
(* Small instances of Outbox for TLC.  As in the code, an event is retried *)
(* well before the lease of the failed attempt would have passed.          *)
(***************************************************************************)
EXTENDS Outbox

CONSTANTS e1, e2, w1, w2

=============================================================================
