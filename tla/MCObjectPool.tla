----------------------------- MODULE MCObjectPool -----------------------------
(* Three threads on one pool: without a limit, with one object, with two. *)
EXTENDS ObjectPool

CONSTANTS t1, t2, t3, a, b, c, d

MCThreads == {t1, t2, t3}
MCObjects == {a, b, c, d}
MCLimits == {-1, 1, 2}
MCHoldings == {-1, 0, 1, 3}
=============================================================================
