------------------------------- MODULE MCEvent -------------------------------
(* Three threads on one event, of either kind. *)
EXTENDS Event

CONSTANTS t1, t2, t3

MCThreads == {t1, t2, t3}
=============================================================================
