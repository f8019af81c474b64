---------------------------- MODULE DoableStation ----------------------------
(***************************************************************************)
(* vega::DoableStation (include/station/thread_pool.h): one thread that    *)
(* runs the doables put into its BlockQueue.  The queue is the real one,   *)
(* step by step: msgq_ is an instance of BlockQueue whose producers are    *)
(* the putting threads and the destructor, whose one consumer is thread_.  *)
(*                                                                         *)
(* wpc says where work() is: "test" (about to read end_), "pop" (inside    *)
(* msgq_.pop()), "run" (in doable->start()) or "gone".                     *)
(* dpc says where the destructor is: "alive" (not called), "put", "notify" *)
(* (inside its put()), "join" or "done".                                   *)
(***************************************************************************)
EXTENDS Integers, Sequences, FiniteSets

CONSTANTS
    Putters,        \* the threads that call put()
    Doables,        \* what they put, each once
    EndDoable,      \* the doable the destructor puts
    Destructor,     \* the thread that destroys the station
    Worker,         \* thread_
    MaxPuts         \* bound on the number of puts, for model checking

ASSUME PuttersAssumption == IsFiniteSet(Putters) /\ Destructor \notin Putters
ASSUME DoablesAssumption == EndDoable \notin Doables
ASSUME MaxPutsAssumption == MaxPuts \in Nat

VARIABLES
    queue, ppc, cpc, pushed, popped,    \* msgq_ and the threads inside it
    end,            \* end_
    wpc, dpc,       \* where the worker and the destructor are
    ranAtEnd        \* history: how many had been started when end_ was set

queueVars == <<queue, ppc, cpc, pushed, popped>>
vars == <<queueVars, end, wpc, dpc, ranAtEnd>>

\* The destructor's own put is not counted by the bound.
msgq == INSTANCE BlockQueue WITH
    Producers <- Putters \cup {Destructor},
    Consumers <- {Worker},
    Values <- Doables \cup {EndDoable},
    MaxPushes <- MaxPuts + 1

Elems(s) == {s[i] : i \in DOMAIN s}

TypeOK ==
    /\ msgq!TypeOK
    /\ end \in BOOLEAN
    /\ wpc \in {"test", "pop", "run", "gone"}
    /\ dpc \in {"alive", "put", "notify", "join", "done"}
    /\ ranAtEnd \in Nat

\* The constructor has cleared end_ and started the thread.
Init ==
    /\ msgq!Init
    /\ end = FALSE
    /\ wpc = "test"
    /\ dpc = "alive"
    /\ ranAtEnd = 0

-----------------------------------------------------------------------------
(* put() *)

\* Calls of put() may be under way while the station is being destroyed, but
\* nobody calls it afterwards.
Put(p, d) ==
    /\ dpc # "done"
    /\ d \notin Elems(pushed)
    /\ Cardinality(Elems(pushed) \ {EndDoable}) < MaxPuts
    /\ msgq!Push(p, d)
    /\ UNCHANGED <<end, wpc, dpc, ranAtEnd>>

PutReturns(p) ==
    /\ msgq!NotifyOne(p)
    /\ UNCHANGED <<end, wpc, dpc, ranAtEnd>>

-----------------------------------------------------------------------------
(* work() *)

Test_Drains ==
    /\ wpc = "test"
    /\ IF end /\ queue = <<>>
       THEN wpc' = "gone" /\ UNCHANGED queueVars
       ELSE wpc' = "pop" /\ msgq!Pop(Worker)
    /\ UNCHANGED <<end, dpc, ranAtEnd>>

Test ==
    /\ wpc = "test"
    /\ IF end THEN wpc' = "gone" /\ UNCHANGED queueVars
              ELSE wpc' = "pop" /\ msgq!Pop(Worker)
    /\ UNCHANGED <<end, dpc, ranAtEnd>>

Wait ==
    /\ msgq!Sleep(Worker)
    /\ UNCHANGED <<end, wpc, dpc, ranAtEnd>>

Wake ==
    /\ msgq!SpuriousWake(Worker)
    /\ UNCHANGED <<end, wpc, dpc, ranAtEnd>>

\* pop() returns and start() is called: what is popped is run.
Start ==
    /\ msgq!Take(Worker)
    /\ wpc' = "run"
    /\ UNCHANGED <<end, dpc, ranAtEnd>>

\* start() returns.
Finish ==
    /\ wpc = "run"
    /\ wpc' = "test"
    /\ UNCHANGED <<queueVars, end, dpc, ranAtEnd>>

-----------------------------------------------------------------------------
(* ~DoableStation() *)

Destruct ==
    /\ dpc = "alive"
    /\ end' = TRUE
    /\ ranAtEnd' = Len(popped)
    /\ dpc' = "put"
    /\ UNCHANGED <<queueVars, wpc>>

DestructPut_Skips ==
    /\ dpc = "put"
    /\ dpc' = "join"
    /\ UNCHANGED <<queueVars, end, wpc, ranAtEnd>>

DestructPut ==
    /\ dpc = "put"
    /\ msgq!Push(Destructor, EndDoable)
    /\ dpc' = "notify"
    /\ UNCHANGED <<end, wpc, ranAtEnd>>

DestructNotify ==
    /\ dpc = "notify"
    /\ msgq!NotifyOne(Destructor)
    /\ dpc' = "join"
    /\ UNCHANGED <<end, wpc, ranAtEnd>>

Join ==
    /\ dpc = "join"
    /\ wpc = "gone"
    /\ dpc' = "done"
    /\ UNCHANGED <<queueVars, end, wpc, ranAtEnd>>

-----------------------------------------------------------------------------
Work == Test \/ Wait \/ Start \/ Finish

DestructStep == DestructPut \/ DestructNotify \/ Join

Next ==
    \/ \E p \in Putters : PutReturns(p) \/ \E d \in Doables : Put(p, d)
    \/ Work
    \/ Wake
    \/ Destruct
    \/ DestructStep

\* Threads that can run do, and every doable's start() returns.  Nobody has to
\* put anything or to destroy the station.
Fairness ==
    /\ WF_vars(Work) /\ WF_vars(DestructStep)
    /\ \A p \in Putters : WF_vars(PutReturns(p))

Spec == Init /\ [][Next]_vars /\ Fairness

-----------------------------------------------------------------------------
(* Properties *)

\* The doables are started in the order in which they were put, each once, also
\* by a worker that was woken for nothing (block_queue.h:19-22).
FifoKept == msgq!FifoKept

\* After the destructor has set end_, at most one more doable is started: the
\* rest is dropped, but a full queue does not hold up the destruction.
AtMostOneMore == end => Len(popped) <= ranAtEnd + 1

\* The destructor returns, also from a worker asleep in pop().
DestructorReturns == dpc # "alive" ~> dpc = "done"

\* Every doable put is started unless the station is destroyed first.
PutRuns ==
    \A d \in Doables : d \in Elems(pushed) ~> (d \in Elems(popped) \/ end)
=============================================================================
