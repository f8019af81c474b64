------------------------------ MODULE TaskBuffer ------------------------------
(***************************************************************************)
(* What zfz::Processor<T> (include/zfz/zfz_processor.hpp) promises to who  *)
(* pushes tasks: each processor is a bounded set of waiting tasks.  A task *)
(* it accepts is waiting, then out with one worker, then handled - or lost *)
(* with a worker that was told to quit.  The list, its size, the sorting,  *)
(* the semaphore, the threads and the locks are gone.                      *)
(***************************************************************************)
EXTENDS Naturals, FiniteSets

CONSTANTS Processors, Tasks, Capacity

VARIABLES waiting, out, handled, lost

vars == <<waiting, out, handled, lost>>

Known(p) == waiting[p] \cup out[p] \cup handled[p] \cup lost[p]

Init ==
    /\ waiting = [p \in Processors |-> {}]
    /\ out = [p \in Processors |-> {}]
    /\ handled = [p \in Processors |-> {}]
    /\ lost = [p \in Processors |-> {}]

\* New tasks come in, if there is room for all of them.
Accept(p, S) ==
    /\ S \cap Known(p) = {}
    /\ Cardinality(waiting[p] \cup S) <= Capacity
    /\ waiting' = [waiting EXCEPT ![p] = @ \cup S]
    /\ UNCHANGED <<out, handled, lost>>

Deliver(p, S) ==
    /\ S \subseteq waiting[p]
    /\ waiting' = [waiting EXCEPT ![p] = @ \ S]
    /\ out' = [out EXCEPT ![p] = @ \cup S]
    /\ UNCHANGED <<handled, lost>>

Handle(p, S) ==
    /\ S \subseteq out[p]
    /\ out' = [out EXCEPT ![p] = @ \ S]
    /\ handled' = [handled EXCEPT ![p] = @ \cup S]
    /\ UNCHANGED <<waiting, lost>>

Lose(p, S) ==
    /\ S \subseteq out[p]
    /\ out' = [out EXCEPT ![p] = @ \ S]
    /\ lost' = [lost EXCEPT ![p] = @ \cup S]
    /\ UNCHANGED <<waiting, handled>>

Next == \E p \in Processors, S \in SUBSET Tasks :
    \/ Accept(p, S) \/ Deliver(p, S) \/ Handle(p, S) \/ Lose(p, S)

Spec == Init /\ [][Next]_vars
=============================================================================
