----------------------------- MODULE MCProcessor -----------------------------
(* Instances of Processor: one processor alone, and one that feeds two. *)
EXTENDS Processor, TLC

CONSTANTS p1, p2, p3, a, b, c, d, w1, w2, o1, o2

\* One processor, two workers.  a, b and c are as urgent as each other, d is
\* more urgent; b and c come as a pair.
OneProcessor == {p1}
OneNext == p1 :> <<>>
Home1 == (w1 :> p1) @@ (w2 :> p1)
TwoWorkers == {w1, w2}
OneOwner == {o1}
FourTasks == {a, b, c, d}
FourPrios == (a :> 2) @@ (b :> 2) @@ (c :> 2) @@ (d :> 1)
SinglesAndPair == {<<a>>, <<b, c>>, <<d>>}

\* p1 feeds p2 and p3, and both workers are p1's.  p2 is fed from outside too,
\* so that p1's workers find it full.
ThreeProcessors == {p1, p2, p3}
FanNextOf == (p1 :> <<p2, p3>>) @@ (p2 :> <<>>) @@ (p3 :> <<>>)
FanEntries == {p1, p2}
TwoOwners == {o1, o2}
OneTask == {a}
OnePrio == a :> 1
OneList == {<<a>>}
=============================================================================
