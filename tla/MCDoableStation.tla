--------------------------- MODULE MCDoableStation ---------------------------
(* Two threads put up to three doables while the station may be destroyed. *)
EXTENDS DoableStation

CONSTANTS p1, p2, d1, d2, d3

MCPutters == {p1, p2}
MCDoables == {d1, d2, d3}
=============================================================================
