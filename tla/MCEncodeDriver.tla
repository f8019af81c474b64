--------------------------- MODULE MCEncodeDriver ---------------------------
(* Two rounds of three pictures. *)
EXTENDS EncodeDriver
=============================================================================
