--------------------------- MODULE MCDecodeDriver ---------------------------
(* Two rounds of every list of up to three lines; to the driver a jpg is     *)
(* what a file of h265 is, so there is none.                                 *)
EXTENDS DecodeDriver, SequencesExt

MCLists == BoundedSeq({"h264", "h265", "skip", "bad"}, 3)
=============================================================================
