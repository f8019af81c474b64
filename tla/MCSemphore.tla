----------------------------- MODULE MCSemphore -----------------------------
(* Three threads and at most three signals, posted and revoked by 1 or 2. *)
EXTENDS Semphore

CONSTANTS t1, t2, t3

MCThreads == {t1, t2, t3}
MCCounts == {-1, 1, 2}
=============================================================================
