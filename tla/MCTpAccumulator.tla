--------------------------- MODULE MCTpAccumulator ---------------------------
(* One thread dumps while another pushes groups of two and of three points. *)
EXTENDS TpAccumulator

CONSTANTS p1, d1

MCPushers == {p1}
MCDumpers == {d1}
MCGroups == { << <<"rx", 0>>, <<"done", t>> >> : t \in {1, 3} }
            \cup { << <<"rx", 0>>, <<"infer", 1>>, <<"done", 3>> >> }
=============================================================================
