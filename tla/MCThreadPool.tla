----------------------------- MODULE MCThreadPool -----------------------------
(* Two threads put two doables into a pool that is created twice. *)
EXTENDS ThreadPool

CONSTANTS p1, p2, d1, d2

MCPutters == {p1, p2}
MCDoables == {d1, d2}
MCNums == {1, 2}
=============================================================================
