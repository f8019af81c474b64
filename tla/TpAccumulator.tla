---------------------------- MODULE TpAccumulator ----------------------------
(***************************************************************************)
(* vega::VegaTpAccumulator (include/vega_time_pnt.h): push() adds the      *)
(* durations of a group of time points under mtx_; dump() takes the        *)
(* averages under mtx_ and then writes three tables from hdrs_, max_ and   *)
(* min_ without it.  What dump() reads without the mutex it may read in    *)
(* the middle of a push(), so the first push() is two steps: hdrs_ and     *)
(* acc_ are filled, and then copied to max_ and min_.                      *)
(*                                                                         *)
(* A group is a sequence of points <<where, when>>, when an integer.       *)
(***************************************************************************)
EXTENDS Integers, Sequences

CONSTANTS
    Pushers, Dumpers,   \* the threads that push() and that dump()
    Nobody,             \* no pusher: mtx_ is free
    Groups,             \* the groups pushed, sequences of points
    MaxPushes           \* bound on the number of pushes, for model checking

VARIABLES
    mtx,                        \* the pusher in the middle of its first push
    cnter, acc, max, min, hdrs, \* the members
    dpc, ret, i,                \* each dump(): the table it writes, ret, and the line
    pushes                      \* counts push(), for the bound

members == <<cnter, acc, max, min, hdrs>>
dumpers == <<dpc, ret, i>>
vars == <<mtx, members, dumpers, pushes>>

Where(g, k) == g[k][1]
When(g, k) == g[k][2]

\* The total, then each gap.
Durations(g) ==
    [k \in 1 .. Len(g) |->
        IF k = 1 THEN When(g, Len(g)) - When(g, 1) ELSE When(g, k) - When(g, k - 1)]

Headers(g) == [k \in 1 .. Len(g) |-> IF k = 1 THEN "total" ELSE Where(g, k - 1)]

TypeOK ==
    /\ mtx \in Pushers \cup {Nobody}
    /\ cnter \in Nat /\ pushes \in 0 .. MaxPushes
    /\ \A v \in {acc, max, min} : v \in Seq(Int)
    /\ hdrs \in Seq(STRING)
    /\ dpc \in [Dumpers -> {"idle", "avg", "Avg", "Max", "Min"}]
    /\ ret \in [Dumpers -> Seq(Int)] /\ i \in [Dumpers -> Nat]

Init ==
    /\ mtx = Nobody /\ pushes = 0 /\ cnter = 0
    /\ acc = <<>> /\ max = <<>> /\ min = <<>> /\ hdrs = <<>>
    /\ dpc = [d \in Dumpers |-> "idle"]
    /\ ret = [d \in Dumpers |-> <<>>] /\ i = [d \in Dumpers |-> 1]

-----------------------------------------------------------------------------
(* push() *)

Pushes(g) ==
    /\ mtx = Nobody /\ pushes < MaxPushes
    /\ pushes' = pushes + 1
    /\ Len(g) >= 2

PushFirst(p, g) ==
    /\ Pushes(g) /\ acc = <<>>
    /\ hdrs' = Headers(g) /\ acc' = Durations(g) /\ cnter' = 1
    /\ mtx' = p
    /\ UNCHANGED <<max, min, dumpers>>

CopyFirst(p) ==
    /\ mtx = p
    /\ max' = acc /\ min' = acc
    /\ mtx' = Nobody
    /\ UNCHANGED <<cnter, acc, hdrs, dumpers, pushes>>

\* A group with other names or of another length is dropped.
PushAgain(g) ==
    /\ Pushes(g) /\ acc # <<>> /\ Headers(g) = hdrs
    /\ LET dur == Durations(g)
       IN  /\ acc' = [k \in DOMAIN acc |-> acc[k] + dur[k]]
           /\ max' = [k \in DOMAIN max |-> IF max[k] < dur[k] THEN dur[k] ELSE max[k]]
           /\ min' = [k \in DOMAIN min |-> IF min[k] > dur[k] THEN dur[k] ELSE min[k]]
    /\ cnter' = cnter + 1
    /\ UNCHANGED <<mtx, hdrs, dumpers>>

-----------------------------------------------------------------------------
(* dump() *)

Dump(d) ==
    /\ dpc[d] = "idle"
    /\ dpc' = [dpc EXCEPT ![d] = "avg"]
    /\ UNCHANGED <<mtx, members, ret, i, pushes>>

Avg(d) ==
    /\ dpc[d] = "avg" /\ mtx = Nobody
    /\ ret' = [ret EXCEPT ![d] = [k \in DOMAIN acc |-> acc[k] \div cnter]]
    /\ dpc' = [dpc EXCEPT ![d] = "Avg"]
    /\ i' = [i EXCEPT ![d] = 1]
    /\ UNCHANGED <<mtx, members, pushes>>

Line(d) ==
    /\ dpc[d] \in {"Avg", "Max", "Min"} /\ i[d] <= Len(hdrs)
    /\ i' = [i EXCEPT ![d] = @ + 1]
    /\ UNCHANGED <<mtx, members, dpc, ret, pushes>>

TableEnds(d) ==
    /\ dpc[d] \in {"Avg", "Max", "Min"} /\ i[d] > Len(hdrs)
    /\ dpc' = [dpc EXCEPT ![d] =
                  CASE @ = "Avg" -> "Max" [] @ = "Max" -> "Min" [] @ = "Min" -> "idle"]
    /\ i' = [i EXCEPT ![d] = 1]
    /\ UNCHANGED <<mtx, members, ret, pushes>>

Next ==
    \/ \E g \in Groups : PushAgain(g) \/ \E p \in Pushers : PushFirst(p, g)
    \/ \E p \in Pushers : CopyFirst(p)
    \/ \E d \in Dumpers : Dump(d) \/ Avg(d) \/ Line(d) \/ TableEnds(d)

Spec == Init /\ [][Next]_vars

-----------------------------------------------------------------------------
(* Properties *)

Table(d) ==
    CASE dpc[d] = "Avg" -> ret[d] [] dpc[d] = "Max" -> max [] dpc[d] = "Min" -> min

\* dump() writes for every header the average, the maximum and the minimum
\* (line 143): the line it is about to write exists in the table it reads.
DumpInBounds ==
    \A d \in Dumpers :
        dpc[d] \in {"Avg", "Max", "Min"} /\ i[d] <= Len(hdrs) =>
            i[d] <= Len(Table(d))
=============================================================================
