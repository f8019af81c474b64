-------------------------- MODULE DoableStationProofs --------------------------
(***************************************************************************)
(* Proofs about vega::BlockQueue, for any finite sets of producers and     *)
(* consumers and any number of pushes, and about vega::DoableStation, for  *)
(* any putters, doables and number of puts.  The station takes its queue's *)
(* steps (msgq); Q is the queue alone, with producers and consumers of its *)
(* own.                                                                    *)
(***************************************************************************)
EXTENDS DoableStation, FiniteSetTheorems, SequenceTheorems, TLAPS

CONSTANTS
    Producers, Consumers, Values, MaxPushes     \* of the queue alone

Q == INSTANCE BlockQueue

-----------------------------------------------------------------------------
(* What pop() does to "popped, then queued" *)

LEMMA TakeKeepsOrder ==
    ASSUME NEW S, NEW out \in Seq(S), NEW q \in Seq(S), q # <<>>
    PROVE  /\ Append(out, Head(q)) \o Tail(q) = out \o q
           /\ Head(q) \in S /\ Tail(q) \in Seq(S)
           /\ Append(out, Head(q)) \in Seq(S)
           /\ Len(Append(out, Head(q))) = Len(out) + 1
           /\ Len(Tail(q)) = Len(q) - 1 /\ Len(q) \in Nat
<1>1. /\ Head(q) \in S /\ Tail(q) \in Seq(S)
      /\ Len(Tail(q)) = Len(q) - 1 /\ Len(q) \in Nat
    BY HeadTailProperties
<1>2. Append(out, Head(q)) \o Tail(q) = out \o q
    BY <1>1
<1>3. Append(out, Head(q)) \in Seq(S) /\ Len(Append(out, Head(q))) = Len(out) + 1
    BY <1>1, AppendProperties
<1> QED
    BY <1>1, <1>2, <1>3

-----------------------------------------------------------------------------
(* The queue alone *)

Finite == IsFiniteSet(Producers) /\ IsFiniteSet(Consumers)

QInv == Finite /\ Q!TypeOK /\ Q!FifoKept /\ Q!NoLostWakeUp

\* The queue counts its threads with an operator of its own instance.
LEMMA QSize == \A S : Q!Cardinality(S) = Cardinality(S)
BY Zenon DEF Q!Cardinality, Cardinality

LEMMA Sizes ==
    ASSUME QInv
    PROVE  /\ IsFiniteSet(Q!Notifying) /\ Cardinality(Q!Notifying) \in Nat
           /\ IsFiniteSet(Q!Awake) /\ Cardinality(Q!Awake) \in Nat
           /\ IsFiniteSet(Q!Notifying') /\ Cardinality(Q!Notifying') \in Nat
           /\ IsFiniteSet(Q!Awake') /\ Cardinality(Q!Awake') \in Nat
<1>1. /\ IsFiniteSet(Q!Notifying) /\ IsFiniteSet(Q!Awake)
      /\ IsFiniteSet(Q!Notifying') /\ IsFiniteSet(Q!Awake')
    BY FS_Subset DEF Q!Notifying, Q!Awake, Finite, QInv
<1> QED
    BY <1>1, FS_CardinalityType

\* A push appends one value and owes one notification.
LEMMA PushKeeps ==
    ASSUME QInv, NEW p \in Producers, NEW v \in Values, Q!Push(p, v)
    PROVE  QInv'
<1>1. /\ queue' = Append(queue, v) /\ pushed' = Append(pushed, v)
      /\ UNCHANGED <<cpc, popped>> /\ ppc[p] = "idle"
      /\ ppc' = [ppc EXCEPT ![p] = "notify"]
      /\ queue \in Seq(Values) /\ pushed \in Seq(Values) /\ popped \in Seq(Values)
    BY DEF Q!Push, QInv, Q!TypeOK
<1>2. Q!TypeOK'
    BY <1>1 DEF QInv, Q!TypeOK
<1>3. Q!FifoKept'
    <2>1. pushed = popped \o queue
        BY DEF QInv, Q!FifoKept
    <2>2. popped \in Seq(Values) /\ queue \in Seq(Values) /\ v \in Values
        BY <1>1
    <2>3. Append(popped \o queue, v) = popped \o Append(queue, v)
        BY <2>2
    <2> QED
        BY <1>1, <2>1, <2>3 DEF Q!FifoKept
<1>4. Q!NoLostWakeUp'
    <2>1. Q!Notifying' = Q!Notifying \cup {p} /\ p \notin Q!Notifying
        BY <1>1 DEF Q!Notifying, QInv, Q!TypeOK
    <2>2. Cardinality(Q!Notifying') = Cardinality(Q!Notifying) + 1
        BY <2>1, Sizes, FS_AddElement
    <2>3. Q!Asleep' = Q!Asleep /\ Q!Awake' = Q!Awake
        BY <1>1 DEF Q!Asleep, Q!Awake
    <2>4. Len(queue') = Len(queue) + 1 /\ Len(queue) \in Nat
        BY <1>1
    <2> QED
        BY <2>2, <2>3, <2>4, Sizes, QSize DEF QInv, Q!NoLostWakeUp
<1> QED
    BY <1>2, <1>3, <1>4 DEF QInv

\* The notification is handed to a sleeper, or there is none.
LEMMA NotifyKeeps ==
    ASSUME QInv, NEW p \in Producers, Q!NotifyOne(p)
    PROVE  QInv'
<1>1. /\ UNCHANGED <<queue, pushed, popped>> /\ ppc[p] = "notify"
      /\ ppc' = [ppc EXCEPT ![p] = "idle"] /\ Len(queue) \in Nat
    BY DEF Q!NotifyOne, QInv, Q!TypeOK
<1>2. Q!Notifying' = Q!Notifying \ {p} /\ p \in Q!Notifying
    BY <1>1 DEF Q!Notifying, QInv, Q!TypeOK
<1>3. Cardinality(Q!Notifying') = Cardinality(Q!Notifying) - 1
    BY <1>2, Sizes, FS_RemoveElement
<1>4. Q!TypeOK'
    BY <1>1 DEF Q!NotifyOne, QInv, Q!TypeOK, Q!Asleep
<1>5. Q!FifoKept'
    BY <1>1 DEF QInv, Q!FifoKept
<1>6. CASE Q!Asleep = {}
    <2>1. Q!Asleep' = {}
        BY <1>6 DEF Q!NotifyOne, Q!Asleep
    <2> QED
        BY <1>4, <1>5, <2>1, QSize DEF QInv, Q!NoLostWakeUp
<1>7. CASE Q!Asleep # {}
    <2>1. PICK c \in Q!Asleep : cpc' = [cpc EXCEPT ![c] = "awake"]
        BY <1>7 DEF Q!NotifyOne
    <2>2. Q!Awake' = Q!Awake \cup {c} /\ c \notin Q!Awake
        BY <2>1 DEF Q!Awake, Q!Asleep, QInv, Q!TypeOK
    <2>3. Cardinality(Q!Awake') = Cardinality(Q!Awake) + 1
        BY <2>2, Sizes, FS_AddElement
    <2>4. Q!NoLostWakeUp'
        BY <1>1, <1>3, <1>7, <2>3, Sizes, QSize DEF QInv, Q!NoLostWakeUp
    <2> QED
        BY <1>4, <1>5, <2>4 DEF QInv
<1> QED
    BY <1>6, <1>7

\* A consumer takes the front: one value and at most one roused consumer less.
LEMMA TakeKeeps ==
    ASSUME QInv, NEW c \in Consumers, Q!Take(c)
    PROVE  QInv'
<1>1. /\ queue # <<>> /\ queue' = Tail(queue)
      /\ popped' = Append(popped, Head(queue))
      /\ cpc' = [cpc EXCEPT ![c] = "idle"] /\ cpc[c] \in {"enter", "awake"}
      /\ UNCHANGED <<ppc, pushed>>
      /\ queue \in Seq(Values) /\ popped \in Seq(Values)
    BY DEF Q!Take, QInv, Q!TypeOK
<1>2. /\ Append(popped, Head(queue)) \o Tail(queue) = popped \o queue
      /\ Tail(queue) \in Seq(Values) /\ Append(popped, Head(queue)) \in Seq(Values)
      /\ Len(Tail(queue)) = Len(queue) - 1 /\ Len(queue) \in Nat
    BY <1>1, TakeKeepsOrder
<1>3. Q!TypeOK'
    BY <1>1, <1>2 DEF QInv, Q!TypeOK
<1>4. Q!FifoKept'
    BY <1>1, <1>2 DEF QInv, Q!FifoKept
<1>5. Q!NoLostWakeUp'
    <2>1. Q!Asleep' = Q!Asleep /\ Q!Notifying' = Q!Notifying
        BY <1>1 DEF Q!Asleep, Q!Notifying, QInv, Q!TypeOK
    <2>2. CASE cpc[c] = "awake"
        <3>1. Q!Awake' = Q!Awake \ {c} /\ c \in Q!Awake
            BY <1>1, <2>2 DEF Q!Awake, QInv, Q!TypeOK
        <3>2. Cardinality(Q!Awake') = Cardinality(Q!Awake) - 1
            BY <3>1, Sizes, FS_RemoveElement
        <3> QED
            BY <1>1, <1>2, <2>1, <3>2, Sizes, QSize DEF QInv, Q!NoLostWakeUp
    <2>3. CASE cpc[c] = "enter"
        <3>1. Q!Awake' = Q!Awake
            BY <1>1, <2>3 DEF Q!Awake, QInv, Q!TypeOK
        <3> QED
            BY <1>1, <1>2, <2>1, <3>1, Sizes, QSize DEF QInv, Q!NoLostWakeUp
    <2> QED
        BY <1>1, <2>2, <2>3
<1> QED
    BY <1>3, <1>4, <1>5 DEF QInv

\* The other steps of a consumer; a thread goes to sleep beside an empty queue only.
LEMMA ConsumerKeeps ==
    ASSUME QInv, NEW c \in Consumers, Q!Pop(c) \/ Q!Sleep(c) \/ Q!SpuriousWake(c)
    PROVE  QInv'
<1>1. /\ UNCHANGED <<queue, ppc, pushed, popped>> /\ Q!TypeOK'
      /\ queue \in Seq(Values)
    BY DEF Q!Pop, Q!Sleep, Q!SpuriousWake, QInv, Q!TypeOK
<1>2. Q!FifoKept' /\ Q!Notifying' = Q!Notifying
    BY <1>1 DEF QInv, Q!FifoKept, Q!Notifying
<1>3. CASE Q!Pop(c)
    <2>1. Q!Asleep' = Q!Asleep /\ Q!Awake' = Q!Awake
        BY <1>3 DEF Q!Pop, Q!Asleep, Q!Awake, QInv, Q!TypeOK
    <2> QED
        BY <1>1, <1>2, <2>1, QSize DEF QInv, Q!NoLostWakeUp
<1>4. CASE Q!Sleep(c)
    <2>1. Len(queue') = 0
        BY <1>1, <1>4 DEF Q!Sleep
    <2> QED
        BY <1>1, <1>2, <2>1, Sizes, QSize DEF QInv, Q!NoLostWakeUp
<1>5. CASE Q!SpuriousWake(c)
    <2>1. Q!Awake' = Q!Awake \cup {c} /\ c \notin Q!Awake /\ Q!Asleep # {}
        BY <1>5 DEF Q!SpuriousWake, Q!Awake, Q!Asleep, QInv, Q!TypeOK
    <2>2. Cardinality(Q!Awake') = Cardinality(Q!Awake) + 1
        BY <2>1, Sizes, FS_AddElement
    <2>3. Len(queue) \in Nat
        BY <1>1
    <2> QED
        BY <1>1, <1>2, <2>1, <2>2, <2>3, Sizes, QSize DEF QInv, Q!NoLostWakeUp
<1> QED
    BY <1>3, <1>4, <1>5

LEMMA QInit == Finite /\ Q!Init => QInv
<1> SUFFICES ASSUME Finite, Q!Init PROVE QInv
    OBVIOUS
<1>1. Q!TypeOK /\ Q!FifoKept
    BY DEF Q!Init, Q!TypeOK, Q!FifoKept
<1>2. Q!Asleep = {}
    BY DEF Q!Init, Q!Asleep
<1> QED
    BY <1>1, <1>2, QSize DEF QInv, Q!NoLostWakeUp

LEMMA QStep == QInv /\ [Q!Next]_(Q!vars) => QInv'
<1> SUFFICES ASSUME QInv, [Q!Next]_(Q!vars) PROVE QInv'
    OBVIOUS
<1>1. CASE \E p \in Producers : Q!NotifyOne(p) \/ \E v \in Values : Q!Push(p, v)
    BY <1>1, PushKeeps, NotifyKeeps
<1>2. CASE \E c \in Consumers : Q!Pop(c) \/ Q!PopStep(c) \/ Q!SpuriousWake(c)
    BY <1>2, TakeKeeps, ConsumerKeeps DEF Q!PopStep
<1>3. CASE UNCHANGED Q!vars
    BY <1>3 DEF Q!vars, QInv, Finite, Q!TypeOK, Q!FifoKept, Q!NoLostWakeUp, Q!Notifying, Q!Asleep, Q!Awake
<1> QED
    BY <1>1, <1>2, <1>3 DEF Q!Next

-----------------------------------------------------------------------------
(* The station *)

\* The worker is inside pop() exactly while it is in the queue, end_ is set when
\* the destructor begins, and once it is, the worker starts at most the doable
\* that it is already popping.
IInv ==
    /\ TypeOK
    /\ FifoKept
    /\ wpc = "pop" <=> cpc[Worker] # "idle"
    /\ end <=> dpc # "alive"
    /\ end => Len(popped) <= ranAtEnd + (IF wpc = "pop" THEN 0 ELSE 1)

LEMMA InitHolds == Init => IInv
<1> SUFFICES ASSUME Init PROVE IInv
    OBVIOUS
<1>1. msgq!TypeOK /\ msgq!FifoKept /\ cpc[Worker] = "idle"
    BY DEF Init, msgq!Init, msgq!TypeOK, msgq!FifoKept
<1> QED
    BY <1>1 DEF Init, IInv, TypeOK, FifoKept

\* Every push into msgq_, by whichever thread.
LEMMA PushInto ==
    ASSUME msgq!TypeOK, msgq!FifoKept,
           NEW p \in Putters \cup {Destructor},
           NEW d \in Doables \cup {EndDoable}, msgq!Push(p, d)
    PROVE  msgq!TypeOK' /\ msgq!FifoKept' /\ UNCHANGED <<cpc, popped>>
<1> DEFINE V == Doables \cup {EndDoable}
<1>1. /\ queue' = Append(queue, d) /\ pushed' = Append(pushed, d)
      /\ UNCHANGED <<cpc, popped>>
      /\ ppc' = [ppc EXCEPT ![p] = "notify"]
      /\ queue \in Seq(V) /\ pushed \in Seq(V) /\ popped \in Seq(V) /\ d \in V
    BY DEF msgq!Push, msgq!TypeOK
<1>2. msgq!TypeOK'
    BY <1>1 DEF msgq!TypeOK
<1>3. msgq!FifoKept'
    <2>1. pushed = popped \o queue
        BY DEF msgq!FifoKept
    <2>2. popped \in Seq(V) /\ queue \in Seq(V) /\ d \in V
        BY <1>1
    <2>3. Append(popped \o queue, d) = popped \o Append(queue, d)
        BY <2>2
    <2> QED
        BY <1>1, <2>1, <2>3 DEF msgq!FifoKept
<1> QED
    BY <1>1, <1>2, <1>3

\* Every notification out of put(): a worker in pop() stays in it.
LEMMA NotifyFrom ==
    ASSUME msgq!TypeOK, msgq!FifoKept,
           NEW p \in Putters \cup {Destructor}, msgq!NotifyOne(p)
    PROVE  /\ msgq!TypeOK' /\ msgq!FifoKept' /\ UNCHANGED popped
           /\ cpc'[Worker] # "idle" <=> cpc[Worker] # "idle"
<1>1. /\ UNCHANGED <<queue, pushed, popped>>
      /\ ppc' = [ppc EXCEPT ![p] = "idle"]
      /\ \/ cpc' = cpc
         \/ \E c \in msgq!Asleep : cpc' = [cpc EXCEPT ![c] = "awake"]
    BY DEF msgq!NotifyOne
<1>2. CASE cpc' = cpc
    BY <1>1, <1>2 DEF msgq!TypeOK, msgq!FifoKept
<1>3. CASE \E c \in msgq!Asleep : cpc' = [cpc EXCEPT ![c] = "awake"]
    <2>1. /\ cpc[Worker] = "asleep" /\ cpc' = [cpc EXCEPT ![Worker] = "awake"]
          /\ cpc \in [{Worker} -> {"idle", "enter", "asleep", "awake"}]
        BY <1>3 DEF msgq!Asleep, msgq!TypeOK
    <2>2. /\ cpc' \in [{Worker} -> {"idle", "enter", "asleep", "awake"}]
          /\ cpc'[Worker] = "awake"
        BY <2>1
    <2> QED
        BY <1>1, <2>1, <2>2 DEF msgq!TypeOK, msgq!FifoKept
<1> QED
    BY <1>1, <1>2, <1>3

LEMMA PutKeeps ==
    ASSUME IInv, NEW p \in Putters,
           PutReturns(p) \/ \E d \in Doables : Put(p, d)
    PROVE  IInv'
<1>1. CASE PutReturns(p)
    <2>1. msgq!NotifyOne(p) /\ UNCHANGED <<end, wpc, dpc, ranAtEnd>>
        BY <1>1 DEF PutReturns
    <2>2. /\ msgq!TypeOK' /\ msgq!FifoKept' /\ UNCHANGED popped
          /\ cpc'[Worker] # "idle" <=> cpc[Worker] # "idle"
        BY <2>1, NotifyFrom DEF IInv, TypeOK, FifoKept
    <2> QED
        BY <2>1, <2>2 DEF IInv, TypeOK, FifoKept
<1>2. CASE \E d \in Doables : Put(p, d)
    <2>1. PICK d \in Doables : Put(p, d)
        BY <1>2
    <2>2. msgq!Push(p, d) /\ UNCHANGED <<end, wpc, dpc, ranAtEnd>>
        BY <2>1 DEF Put
    <2>3. msgq!TypeOK' /\ msgq!FifoKept' /\ UNCHANGED <<cpc, popped>>
        BY <2>2, PushInto DEF IInv, TypeOK, FifoKept
    <2> QED
        BY <2>2, <2>3 DEF IInv, TypeOK, FifoKept
<1> QED
    BY <1>1, <1>2

\* work(): end_ is read before pop(), so a set end_ lets no further pop() begin.
LEMMA WorkKeeps ==
    ASSUME IInv, Work \/ Wake
    PROVE  IInv'
<1> DEFINE V == Doables \cup {EndDoable}
<1>0. /\ cpc \in [{Worker} -> {"idle", "enter", "asleep", "awake"}]
      /\ queue \in Seq(V) /\ popped \in Seq(V) /\ Len(popped) \in Nat
      /\ ranAtEnd \in Nat
    BY DEF IInv, TypeOK, msgq!TypeOK
<1>1. CASE Test
    <2>1. CASE end
        BY <1>1, <2>1
        DEF Test, queueVars, IInv, TypeOK, FifoKept, msgq!TypeOK, msgq!FifoKept
    <2>2. CASE ~end
        BY <1>0, <1>1, <2>2
        DEF Test, msgq!Pop, IInv, TypeOK, FifoKept, msgq!TypeOK, msgq!FifoKept
    <2> QED
        BY <2>1, <2>2
<1>2. CASE Wait \/ Wake
    <2>1. /\ UNCHANGED <<queue, ppc, pushed, popped, end, wpc, dpc, ranAtEnd>>
          /\ cpc[Worker] # "idle"
          /\ \/ cpc' = [cpc EXCEPT ![Worker] = "asleep"]
             \/ cpc' = [cpc EXCEPT ![Worker] = "awake"]
        BY <1>2 DEF Wait, Wake, msgq!Sleep, msgq!SpuriousWake
    <2>2. /\ cpc' \in [{Worker} -> {"idle", "enter", "asleep", "awake"}]
          /\ cpc'[Worker] # "idle"
        BY <1>0, <2>1
    <2> QED
        BY <2>1, <2>2 DEF IInv, TypeOK, FifoKept, msgq!TypeOK, msgq!FifoKept
<1>3. CASE Start
    <2>1. /\ queue # <<>> /\ queue' = Tail(queue)
          /\ popped' = Append(popped, Head(queue))
          /\ cpc' = [cpc EXCEPT ![Worker] = "idle"] /\ cpc[Worker] # "idle"
          /\ UNCHANGED <<ppc, pushed, end, dpc, ranAtEnd>> /\ wpc' = "run"
        BY <1>3 DEF Start, msgq!Take
    <2>2. /\ Append(popped, Head(queue)) \o Tail(queue) = popped \o queue
          /\ Tail(queue) \in Seq(V) /\ Append(popped, Head(queue)) \in Seq(V)
          /\ Len(Append(popped, Head(queue))) = Len(popped) + 1
        BY <1>0, <2>1, TakeKeepsOrder
    <2>3. TypeOK' /\ FifoKept'
        BY <1>0, <2>1, <2>2
        DEF IInv, TypeOK, FifoKept, msgq!TypeOK, msgq!FifoKept
    <2>4. cpc'[Worker] = "idle"
        BY <1>0, <2>1
    <2>5. wpc = "pop"
        BY <2>1 DEF IInv
    <2>6. end => Len(popped') <= ranAtEnd + 1
        BY <1>0, <2>1, <2>2, <2>5 DEF IInv
    <2> QED
        BY <2>1, <2>3, <2>4, <2>6 DEF IInv
<1>4. CASE Finish
    BY <1>4
    DEF Finish, queueVars, IInv, TypeOK, FifoKept, msgq!TypeOK, msgq!FifoKept
<1> QED
    BY <1>1, <1>2, <1>3, <1>4 DEF Work

\* The destructor sets end_ at a moment when ranAtEnd doables have been started.
LEMMA DestructKeeps ==
    ASSUME IInv, Destruct \/ DestructStep
    PROVE  IInv'
<1>1. CASE Destruct
    <2>1. Len(popped) \in Nat
        BY DEF IInv, TypeOK, msgq!TypeOK
    <2> QED
        BY <1>1, <2>1
        DEF Destruct, queueVars, IInv, TypeOK, FifoKept, msgq!TypeOK, msgq!FifoKept
<1>2. CASE DestructPut
    <2>1. /\ msgq!Push(Destructor, EndDoable)
          /\ dpc = "put" /\ dpc' = "notify" /\ UNCHANGED <<end, wpc, ranAtEnd>>
        BY <1>2 DEF DestructPut
    <2>2. msgq!TypeOK' /\ msgq!FifoKept' /\ UNCHANGED <<cpc, popped>>
        BY <2>1, PushInto DEF IInv, TypeOK, FifoKept
    <2> QED
        BY <2>1, <2>2 DEF IInv, TypeOK, FifoKept
<1>3. CASE DestructNotify
    <2>1. /\ msgq!NotifyOne(Destructor)
          /\ dpc = "notify" /\ dpc' = "join" /\ UNCHANGED <<end, wpc, ranAtEnd>>
        BY <1>3 DEF DestructNotify
    <2>2. /\ msgq!TypeOK' /\ msgq!FifoKept' /\ UNCHANGED popped
          /\ cpc'[Worker] # "idle" <=> cpc[Worker] # "idle"
        BY <2>1, NotifyFrom DEF IInv, TypeOK, FifoKept
    <2> QED
        BY <2>1, <2>2 DEF IInv, TypeOK, FifoKept
<1>4. CASE Join
    BY <1>4
    DEF Join, queueVars, IInv, TypeOK, FifoKept, msgq!TypeOK, msgq!FifoKept
<1> QED
    BY <1>1, <1>2, <1>3, <1>4 DEF DestructStep

LEMMA StepKeeps == IInv /\ [Next]_vars => IInv'
<1> SUFFICES ASSUME IInv, [Next]_vars PROVE IInv'
    OBVIOUS
<1>1. CASE UNCHANGED vars
    BY <1>1
    DEF vars, queueVars, IInv, TypeOK, FifoKept, msgq!TypeOK, msgq!FifoKept
<1> QED
    BY <1>1, PutKeeps, WorkKeeps, DestructKeeps DEF Next

-----------------------------------------------------------------------------
(* Theorems *)

\* Notifying after the unlock loses no wake-up: while a consumer sleeps, every
\* queued value has a notification still to come or a consumer already roused
\* (block_queue.h:39-45).
THEOREM NoLostWakeUpTheorem == Finite /\ Q!Spec => []Q!NoLostWakeUp
<1>1. QInv => Q!NoLostWakeUp
    BY DEF QInv
<1> QED
    BY <1>1, QInit, QStep, PTL DEF Q!Spec

\* What the consumers have taken, followed by what is queued, is what was
\* pushed, however many push and pop (block_queue.h:17-45).
THEOREM QueueFifoTheorem == Finite /\ Q!Spec => [](Q!TypeOK /\ Q!FifoKept)
<1>1. QInv => Q!TypeOK /\ Q!FifoKept
    BY DEF QInv
<1> QED
    BY <1>1, QInit, QStep, PTL DEF Q!Spec

\* A station starts the doables in the order in which they were put, each once,
\* the one that ends it included (thread_pool.h:183-243).
THEOREM StationFifoTheorem == Spec => []FifoKept
<1>1. IInv => FifoKept
    BY DEF IInv
<1> QED
    BY <1>1, InitHolds, StepKeeps, PTL DEF Spec

\* Whatever is queued when the destructor sets end_, the worker starts at most
\* one doable more: the one its pop() was already after (thread_pool.h:197-203).
THEOREM AtMostOneMoreTheorem == Spec => []AtMostOneMore
<1>1. IInv => AtMostOneMore
    BY DEF IInv, AtMostOneMore, TypeOK, msgq!TypeOK
<1> QED
    BY <1>1, InitHolds, StepKeeps, PTL DEF Spec
=============================================================================
