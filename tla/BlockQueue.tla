----------------------------- MODULE BlockQueue -----------------------------
(***************************************************************************)
(* vega::BlockQueue<T> (include/station/block_queue.h): an unbounded queue *)
(* with a blocking pop().  mutex_ is held except in cond_.wait(), so each  *)
(* stretch under it is one action; push() notifies after it has unlocked,  *)
(* which is a step of its own.                                             *)
(*                                                                         *)
(* ppc[p]: "idle", or "notify" between the unlock and the notify_one().    *)
(* cpc[c]: "idle", "enter" (called pop()), "asleep" (in cond_) or "awake"  *)
(*         (notified or woken for no reason, has to take mutex_ again).    *)
(***************************************************************************)
EXTENDS Integers, Sequences, FiniteSets

CONSTANTS
    Producers,      \* the threads that push, finitely many
    Consumers,      \* the threads that pop, finitely many
    Values,         \* what they push
    MaxPushes       \* bound on the number of pushes, for model checking

VARIABLES
    queue,          \* queue_
    ppc, cpc,       \* where each thread is
    pushed, popped  \* history: what went in and what came out, in order

vars == <<queue, ppc, cpc, pushed, popped>>

Notifying == {p \in Producers : ppc[p] = "notify"}
Asleep == {c \in Consumers : cpc[c] = "asleep"}
Awake == {c \in Consumers : cpc[c] = "awake"}

TypeOK ==
    /\ queue \in Seq(Values)
    /\ ppc \in [Producers -> {"idle", "notify"}]
    /\ cpc \in [Consumers -> {"idle", "enter", "asleep", "awake"}]
    /\ pushed \in Seq(Values)
    /\ popped \in Seq(Values)

Init ==
    /\ queue = <<>>
    /\ ppc = [p \in Producers |-> "idle"]
    /\ cpc = [c \in Consumers |-> "idle"]
    /\ pushed = <<>>
    /\ popped = <<>>

-----------------------------------------------------------------------------
(* push() *)

Push(p, v) ==
    /\ ppc[p] = "idle"
    /\ Len(pushed) < MaxPushes
    /\ queue' = Append(queue, v)
    /\ pushed' = Append(pushed, v)
    /\ ppc' = [ppc EXCEPT ![p] = "notify"]
    /\ UNCHANGED <<cpc, popped>>

NotifyOne_OnlyFirst(p) ==
    /\ ppc[p] = "notify"
    /\ ppc' = [ppc EXCEPT ![p] = "idle"]
    /\ IF Asleep # {} /\ Len(queue) = 1
       THEN \E c \in Asleep : cpc' = [cpc EXCEPT ![c] = "awake"]
       ELSE UNCHANGED cpc
    /\ UNCHANGED <<queue, pushed, popped>>

\* One sleeper wakes, whichever; without a sleeper the notification is lost.
NotifyOne(p) ==
    /\ ppc[p] = "notify"
    /\ ppc' = [ppc EXCEPT ![p] = "idle"]
    /\ IF Asleep # {}
       THEN \E c \in Asleep : cpc' = [cpc EXCEPT ![c] = "awake"]
       ELSE UNCHANGED cpc
    /\ UNCHANGED <<queue, pushed, popped>>

-----------------------------------------------------------------------------
(* pop() and pop(T&) *)

Pop(c) ==
    /\ cpc[c] = "idle"
    /\ cpc' = [cpc EXCEPT ![c] = "enter"]
    /\ UNCHANGED <<queue, ppc, pushed, popped>>

Sleep(c) ==
    /\ cpc[c] \in {"enter", "awake"}
    /\ queue = <<>>
    /\ cpc' = [cpc EXCEPT ![c] = "asleep"]
    /\ UNCHANGED <<queue, ppc, pushed, popped>>

Take_IfForWhile(c) ==
    /\ cpc[c] = "awake" \/ (cpc[c] = "enter" /\ queue # <<>>)
    /\ queue' = SubSeq(queue, 2, Len(queue))
    /\ popped' = Append(popped, IF queue = <<>> THEN "garbage" ELSE Head(queue))
    /\ cpc' = [cpc EXCEPT ![c] = "idle"]
    /\ UNCHANGED <<ppc, pushed>>

Take(c) ==
    /\ cpc[c] \in {"enter", "awake"}
    /\ queue # <<>>
    /\ queue' = Tail(queue)
    /\ popped' = Append(popped, Head(queue))
    /\ cpc' = [cpc EXCEPT ![c] = "idle"]
    /\ UNCHANGED <<ppc, pushed>>

SpuriousWake(c) ==
    /\ cpc[c] = "asleep"
    /\ cpc' = [cpc EXCEPT ![c] = "awake"]
    /\ UNCHANGED <<queue, ppc, pushed, popped>>

-----------------------------------------------------------------------------
PopStep(c) == Sleep(c) \/ Take(c)

Next ==
    \/ \E p \in Producers : NotifyOne(p) \/ \E v \in Values : Push(p, v)
    \/ \E c \in Consumers : Pop(c) \/ PopStep(c) \/ SpuriousWake(c)

\* A thread inside push() or pop() that can run does.
Fairness ==
    /\ \A p \in Producers : WF_vars(NotifyOne(p))
    /\ \A c \in Consumers : WF_vars(PopStep(c))

Spec == Init /\ [][Next]_vars /\ Fairness

-----------------------------------------------------------------------------
(* Properties *)

\* Whatever the producers and consumers, nothing is lost, doubled or reordered.
FifoKept == pushed = popped \o queue

\* No lost wake-up, though push() notifies after it has unlocked: while somebody
\* sleeps, every value in the queue has a consumer on its way or a
\* notification still to come (block_queue.h:19-22, 41-44).
NoLostWakeUp ==
    Asleep # {} => Len(queue) <= Cardinality(Notifying) + Cardinality(Awake)
=============================================================================
