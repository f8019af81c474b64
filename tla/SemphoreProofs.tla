---------------------------- MODULE SemphoreProofs ----------------------------
(***************************************************************************)
(* Proofs about zfz::Semphore, for any finite set of threads and any       *)
(* bound.  The count of roused threads needs blocked_ to be exact, because *)
(* signal() reads blocked_.  Only the wake-ups depend on release_to()      *)
(* being used to lower signals_, as its name says.                         *)
(***************************************************************************)
EXTENDS Semphore, FiniteSetTheorems, TLAPS

Wakes == ~ReleaseToRaises => NoLostWakeUp

IInv == TypeOK /\ BlockedCounts /\ Wakes

LEMMA DisjointUnion ==
    ASSUME NEW S, NEW T, IsFiniteSet(S), IsFiniteSet(T), S \cap T = {}
    PROVE  /\ IsFiniteSet(S \cup T)
           /\ Cardinality(S \cup T) = Cardinality(S) + Cardinality(T)
<1>1. Cardinality(S \cap T) = 0
    BY FS_EmptySet
<1>2. Cardinality(S) \in Nat /\ Cardinality(T) \in Nat
    BY FS_CardinalityType
<1>3. /\ IsFiniteSet(S \cup T)
      /\ Cardinality(S \cup T)
           = Cardinality(S) + Cardinality(T) - Cardinality(S \cap T)
    BY FS_Union
<1> QED
    BY <1>1, <1>2, <1>3

\* The threads inside wait() are the sleeping and the roused ones.
LEMMA InsideSplit ==
    /\ IsFiniteSet(At("asleep")) /\ Cardinality(At("asleep")) \in Nat
    /\ IsFiniteSet(Roused) /\ Cardinality(Roused) \in Nat
    /\ IsFiniteSet(Inside) /\ Cardinality(Inside) \in Nat
    /\ Inside = At("asleep") \cup Roused
    /\ At("asleep") \cap Roused = {}
    /\ Cardinality(Inside) = Cardinality(At("asleep")) + Cardinality(Roused)
<1>1. IsFiniteSet(At("asleep")) /\ IsFiniteSet(Roused)
    BY FS_Subset, ThreadsAssumption DEF At, Roused
<1>2. Inside = At("asleep") \cup Roused /\ At("asleep") \cap Roused = {}
    BY DEF Inside, Roused, At
<1>3. IsFiniteSet(Inside)
    BY FS_Subset, ThreadsAssumption DEF At, Inside
<1>4. Cardinality(Inside) = Cardinality(At("asleep")) + Cardinality(Roused)
    BY <1>1, <1>2, DisjointUnion
<1> QED
    BY <1>1, <1>2, <1>3, <1>4, FS_CardinalityType

\* A step that moves no thread into or out of wait() and adds no signal.
LEMMA SameThreads ==
    ASSUME IInv, Inside' = Inside, Roused' = Roused, blocked' = blocked,
           signals' \in Nat, signals' <= signals
    PROVE  BlockedCounts' /\ Wakes'
BY InsideSplit DEF IInv, TypeOK, BlockedCounts, Wakes, NoLostWakeUp, Smaller

\* A roused thread leaves: with a signal, or because there is none.
LEMMA RousedLeaves ==
    ASSUME IInv, NEW t \in Roused,
           Inside' = Inside \ {t}, Roused' = Roused \ {t},
           blocked' = blocked - 1,
           \/ signals > 0 /\ signals' = signals - 1
           \/ signals = 0 /\ signals' = 0
    PROVE  BlockedCounts' /\ Wakes' /\ blocked' \in Nat
<1>1. t \in Inside
    BY InsideSplit
<1>2. /\ Cardinality(Inside') = Cardinality(Inside) - 1
      /\ Cardinality(Roused') = Cardinality(Roused) - 1
    BY <1>1, InsideSplit, FS_RemoveElement
<1>3. Cardinality(Inside) >= 1 /\ Cardinality(Roused) >= 1
    <2>1. Cardinality(Roused) # 0
        BY InsideSplit, FS_EmptySet
    <2> QED
        BY <2>1, InsideSplit
<1> QED
    BY <1>2, <1>3, InsideSplit
    DEF IInv, TypeOK, BlockedCounts, Wakes, NoLostWakeUp, Smaller

\* A sleeper is roused without a signal.
LEMMA SleeperRoused ==
    ASSUME IInv, NEW t \in At("asleep"),
           Inside' = Inside, Roused' = Roused \cup {t},
           blocked' = blocked, signals' = signals
    PROVE  BlockedCounts' /\ Wakes'
<1>1. t \notin Roused
    BY InsideSplit
<1>2. Cardinality(Roused') = Cardinality(Roused) + 1
    BY <1>1, InsideSplit, FS_AddElement
<1> QED
    BY <1>2, InsideSplit
    DEF IInv, TypeOK, BlockedCounts, Wakes, NoLostWakeUp, Smaller

\* signal(): every thread it owes a notification is moved out of the wait set.
LEMMA SignalKeeps ==
    ASSUME IInv, NEW n \in Int, Signal(n)
    PROVE  IInv'
<1>1. /\ n \in Nat \ {0} /\ signals' = signals + n
      /\ blocked' = blocked /\ mode' = mode /\ ret' = ret
    BY DEF Signal
<1>2. CASE blocked > 0
    <2>1. PICK S \in SUBSET At("asleep") :
            /\ Cardinality(S)
                 = Smaller(Smaller(blocked, n), Cardinality(At("asleep")))
            /\ pc' = [t \in Threads |-> IF t \in S THEN "awake" ELSE pc[t]]
        BY <1>2 DEF Signal, Notify
    <2>2. TypeOK'
        BY <1>1, <2>1 DEF IInv, TypeOK, At
    <2>3. Inside' = Inside /\ Roused' = Roused \cup S
        BY <2>1 DEF IInv, TypeOK, Inside, Roused, At
    <2>4. IsFiniteSet(S) /\ Roused \cap S = {}
        BY <2>1, InsideSplit, FS_Subset
    <2>5. Cardinality(Roused') = Cardinality(Roused) + Cardinality(S)
        BY <2>3, <2>4, InsideSplit, DisjointUnion
    <2>6. BlockedCounts'
        BY <1>1, <2>3 DEF IInv, BlockedCounts
    <2>7. Wakes'
        BY <1>1, <2>1, <2>5, InsideSplit
        DEF IInv, TypeOK, BlockedCounts, Wakes, NoLostWakeUp, Smaller
    <2> QED
        BY <2>2, <2>6, <2>7 DEF IInv
<1>3. CASE ~(blocked > 0)
    <2>1. pc' = pc /\ blocked = 0
        BY <1>3 DEF Signal, IInv, TypeOK
    <2>2. TypeOK' /\ BlockedCounts'
        BY <1>1, <2>1 DEF IInv, TypeOK, BlockedCounts, Inside, At
    <2>3. Wakes'
        BY <1>1, <2>1, InsideSplit
        DEF IInv, TypeOK, Wakes, NoLostWakeUp, Smaller, Roused, At
    <2> QED
        BY <2>2, <2>3 DEF IInv
<1> QED
    BY <1>2, <1>3

LEMMA InitHolds == Init => IInv
<1> SUFFICES ASSUME Init PROVE IInv
    OBVIOUS
<1>1. TypeOK
    BY MaxSignalsAssumption DEF Init, TypeOK, Modes
<1>2. Inside = {} /\ Roused = {}
    BY DEF Init, Inside, Roused, At
<1>3. BlockedCounts /\ NoLostWakeUp
    BY <1>1, <1>2, FS_EmptySet
    DEF Init, TypeOK, BlockedCounts, NoLostWakeUp, Smaller
<1> QED
    BY <1>1, <1>3 DEF IInv, Wakes

\* One step of one thread.
LEMMA ThreadKeeps ==
    ASSUME IInv, NEW t \in Threads,
           \/ \E m \in Modes : Call(t, m)
           \/ WaitStep(t) \/ Expire(t) \/ SpuriousWake(t)
    PROVE  IInv'
<1>1. CASE \E m \in Modes : Call(t, m)
    <2>1. TypeOK' /\ Inside' = Inside /\ Roused' = Roused
        BY <1>1 DEF IInv, TypeOK, Call, Inside, Roused, At
    <2> QED
        BY <1>1, <2>1, SameThreads DEF Call, IInv, TypeOK
<1>2. CASE EnterTake(t)
    <2>1. TypeOK' /\ Inside' = Inside /\ Roused' = Roused
        BY <1>2 DEF IInv, TypeOK, EnterTake, Return, Inside, Roused, At
    <2> QED
        BY <1>2, <2>1, SameThreads DEF EnterTake, IInv, TypeOK
<1>3. CASE EnterPoll(t)
    <2>1. TypeOK' /\ Inside' = Inside /\ Roused' = Roused
        BY <1>3 DEF IInv, TypeOK, EnterPoll, Return, Inside, Roused, At
    <2> QED
        BY <1>3, <2>1, SameThreads DEF EnterPoll, IInv, TypeOK
<1>4. CASE EnterSleep(t)
    <2>1. /\ TypeOK' /\ Inside' = Inside \cup {t} /\ Roused' = Roused
          /\ t \notin Inside /\ signals = 0
        BY <1>4 DEF IInv, TypeOK, EnterSleep, Inside, Roused, At
    <2>2. Cardinality(Inside') = Cardinality(Inside) + 1
        BY <2>1, InsideSplit, FS_AddElement
    <2>3. BlockedCounts' /\ Wakes'
        BY <1>4, <2>1, <2>2, InsideSplit
        DEF IInv, TypeOK, EnterSleep, BlockedCounts, Wakes, NoLostWakeUp, Smaller
    <2> QED
        BY <2>1, <2>3 DEF IInv
<1>5. CASE WakeTake(t)
    <2>1. /\ t \in Roused /\ Inside' = Inside \ {t} /\ Roused' = Roused \ {t}
          /\ blocked' = blocked - 1 /\ signals > 0 /\ signals' = signals - 1
        BY <1>5 DEF IInv, TypeOK, WakeTake, Return, Inside, Roused, At
    <2>2. BlockedCounts' /\ Wakes' /\ blocked' \in Nat
        BY <2>1, RousedLeaves
    <2>3. TypeOK'
        BY <1>5, <2>1, <2>2 DEF IInv, TypeOK, WakeTake, Return
    <2> QED
        BY <2>2, <2>3 DEF IInv
<1>6. CASE WakeAgain(t)
    <2>1. TypeOK' /\ Inside' = Inside /\ signals = 0 /\ signals' = 0
        BY <1>6 DEF IInv, TypeOK, WakeAgain, Inside, At
    <2>2. IsFiniteSet(Roused')
        BY FS_Subset, ThreadsAssumption DEF Roused, At
    <2>3. Cardinality(Roused') \in Nat
        BY <2>2, FS_CardinalityType
    <2>4. BlockedCounts' /\ Wakes'
        BY <1>6, <2>1, <2>3
        DEF IInv, TypeOK, WakeAgain, BlockedCounts, Wakes, NoLostWakeUp, Smaller
    <2> QED
        BY <2>1, <2>4 DEF IInv
<1>7. CASE WakeGiveUp(t)
    <2>1. /\ t \in Roused /\ Inside' = Inside \ {t} /\ Roused' = Roused \ {t}
          /\ blocked' = blocked - 1 /\ signals = 0 /\ signals' = 0
        BY <1>7 DEF IInv, TypeOK, WakeGiveUp, Return, Inside, Roused, At
    <2>2. BlockedCounts' /\ Wakes' /\ blocked' \in Nat
        BY <2>1, RousedLeaves
    <2>3. TypeOK'
        BY <1>7, <2>1, <2>2 DEF IInv, TypeOK, WakeGiveUp, Return
    <2> QED
        BY <2>2, <2>3 DEF IInv
<1>8. CASE Expire(t) \/ SpuriousWake(t)
    <2>1. /\ TypeOK' /\ t \in At("asleep")
          /\ Inside' = Inside /\ Roused' = Roused \cup {t}
          /\ blocked' = blocked /\ signals' = signals
        BY <1>8
        DEF IInv, TypeOK, Expire, SpuriousWake, Inside, Roused, At
    <2> QED
        BY <2>1, SleeperRoused DEF IInv
<1> QED
    BY <1>1, <1>2, <1>3, <1>4, <1>5, <1>6, <1>7, <1>8 DEF WaitStep

\* release() and reset() only lower signals_; release_to() may raise it only if
\* some caller does that.
LEMMA RevokeKeeps ==
    ASSUME IInv,
           \/ \E n \in Counts : Release(n) \/ ReleaseTo(n)
           \/ Reset
    PROVE  IInv'
<1>1. /\ signals' \in Nat /\ (ReleaseToRaises \/ signals' <= signals)
      /\ UNCHANGED <<blocked, pc, mode, ret>>
    BY CountsAssumption DEF IInv, TypeOK, Release, ReleaseTo, Reset
<1>2. TypeOK' /\ Inside' = Inside /\ Roused' = Roused
    BY <1>1 DEF IInv, TypeOK, Inside, Roused, At
<1>3. BlockedCounts'
    BY <1>1, <1>2 DEF IInv, BlockedCounts
<1>4. CASE signals' <= signals
    BY <1>1, <1>2, <1>4, SameThreads DEF IInv
<1>5. CASE ReleaseToRaises
    BY <1>2, <1>3, <1>5 DEF IInv, Wakes
<1> QED
    BY <1>1, <1>4, <1>5

LEMMA StepKeeps == IInv /\ [Next]_vars => IInv'
<1> SUFFICES ASSUME IInv, [Next]_vars PROVE IInv'
    OBVIOUS
<1>1. CASE \E n \in Counts : Signal(n)
    BY <1>1, SignalKeeps, CountsAssumption
<1>2. CASE \E t \in Threads : \/ \E m \in Modes : Call(t, m)
                              \/ WaitStep(t) \/ Expire(t) \/ SpuriousWake(t)
    BY <1>2, ThreadKeeps
<1>3. CASE (\E n \in Counts : Release(n) \/ ReleaseTo(n)) \/ Reset
    BY <1>3, RevokeKeeps
<1>4. CASE UNCHANGED vars
    BY <1>4
    DEF vars, IInv, TypeOK, BlockedCounts, Wakes, NoLostWakeUp, Inside, Roused, At
<1> QED
    BY <1>1, <1>2, <1>3, <1>4 DEF Next

-----------------------------------------------------------------------------
(* The step-by-step refinement of CountingSemaphore *)

\* The permits stay within the bound, and only a timed wait() runs out.
PromiseInv ==
    /\ TypeOK
    /\ signals <= MaxSignals
    /\ \A t \in Threads : pc[t] = "expired" => mode[t] = "finite"

LEMMA PromiseInvInit == Init => PromiseInv
<1> SUFFICES ASSUME Init PROVE PromiseInv
    OBVIOUS
<1>1. TypeOK
    BY InitHolds DEF IInv
<1> QED
    BY <1>1, MaxSignalsAssumption DEF Init, PromiseInv

LEMMA PromiseInvStep == PromiseInv /\ TypeOK' /\ [Next]_vars => PromiseInv'
<1> SUFFICES ASSUME PromiseInv, TypeOK', [Next]_vars PROVE PromiseInv'
    OBVIOUS
<1>1. CASE \E t \in Threads : \E m \in Modes : Call(t, m)
    BY <1>1 DEF Call, PromiseInv, TypeOK
<1>2. CASE \E t \in Threads : WaitStep(t)
    <2>1. PICK t \in Threads : WaitStep(t)
        BY <1>2
    <2>2. signals' <= signals /\ mode' = mode
        BY <2>1
        DEF WaitStep, EnterTake, EnterPoll, EnterSleep, WakeTake, WakeAgain,
            WakeGiveUp, PromiseInv, TypeOK
    <2>3. \E l \in {"idle", "asleep"} : pc' = [pc EXCEPT ![t] = l]
        BY <2>1
        DEF WaitStep, EnterTake, EnterPoll, EnterSleep, WakeTake, WakeAgain,
            WakeGiveUp, Return
    <2>4. \A u \in Threads : pc'[u] = "expired" => pc[u] = "expired"
        BY <2>3 DEF PromiseInv, TypeOK
    <2> QED
        BY <2>2, <2>4, MaxSignalsAssumption DEF PromiseInv, TypeOK
<1>3. CASE \E t \in Threads : Expire(t) \/ SpuriousWake(t)
    BY <1>3 DEF Expire, SpuriousWake, PromiseInv, TypeOK
<1>4. CASE \E n \in Counts : Signal(n)
    <2>1. PICK n \in Counts : Signal(n)
        BY <1>4
    <2>2. signals' <= MaxSignals /\ mode' = mode
        BY <2>1 DEF Signal
    <2>3. \A t \in Threads : pc'[t] \in {"awake", pc[t]}
        BY <2>1 DEF Signal, Notify, PromiseInv, TypeOK
    <2> QED
        BY <2>2, <2>3 DEF PromiseInv
<1>5. CASE (\E n \in Counts : Release(n) \/ ReleaseTo(n)) \/ Reset
    <2>1. signals' <= MaxSignals /\ UNCHANGED <<pc, mode>>
        BY <1>5, CountsAssumption, MaxSignalsAssumption
        DEF Release, ReleaseTo, Reset, PromiseInv, TypeOK
    <2> QED
        BY <2>1 DEF PromiseInv
<1>6. CASE UNCHANGED vars
    BY <1>6 DEF vars, PromiseInv
<1> QED
    BY <1>1, <1>2, <1>3, <1>4, <1>5, <1>6 DEF Next

\* A move of a thread inside wait() shows nothing.
LEMMA AnswerStays ==
    ASSUME TypeOK, NEW t \in Threads, pc[t] # "idle", NEW l, l # "idle",
           pc' = [pc EXCEPT ![t] = l], ret' = ret
    PROVE  Answer' = Answer
BY DEF Answer, TypeOK

LEMMA AnswerGiven ==
    ASSUME TypeOK, NEW t \in Threads, pc[t] # "idle", NEW r, Return(t, r)
    PROVE  Answer[t] = "waiting" /\ Answer' = [Answer EXCEPT ![t] = r]
BY DEF Answer, TypeOK, Return

LEMMA CallShown ==
    ASSUME TypeOK, NEW t \in Threads, NEW m \in Modes, Call(t, m)
    PROVE  Promise!Next
<1>1. Answer[t] # "waiting" /\ Answer' = [Answer EXCEPT ![t] = "waiting"]
    BY DEF Answer, TypeOK, Call
<1>2. Promise!Call(t, m)
    BY <1>1 DEF Call, Promise!Call
<1> QED
    BY <1>2 DEF Promise!Next, Promise!Patience, Modes

LEMMA WaitShown ==
    ASSUME PromiseInv, NEW t \in Threads, WaitStep(t) \/ Expire(t) \/ SpuriousWake(t)
    PROVE  [Promise!Next]_(Promise!vars)
<1> USE DEF PromiseInv
<1>1. CASE EnterTake(t) \/ WakeTake(t)
    <2>1. Answer[t] = "waiting" /\ Answer' = [Answer EXCEPT ![t] = "SUCCESS"]
        BY <1>1, AnswerGiven DEF EnterTake, WakeTake
    <2>2. Promise!Acquire(t)
        BY <1>1, <2>1 DEF EnterTake, WakeTake, Promise!Acquire
    <2> QED
        BY <2>2 DEF Promise!Next
<1>2. CASE EnterPoll(t) \/ WakeGiveUp(t)
    <2>1. Answer[t] = "waiting" /\ Answer' = [Answer EXCEPT ![t] = "TIME_OUT"]
        BY <1>2, AnswerGiven DEF EnterPoll, WakeGiveUp
    <2>2. mode[t] # "infinite" /\ signals = 0 /\ UNCHANGED <<signals, mode>>
        BY <1>2 DEF EnterPoll, WakeGiveUp, TypeOK
    <2>3. Promise!GiveUp(t)
        BY <2>1, <2>2 DEF Promise!GiveUp
    <2> QED
        BY <2>3 DEF Promise!Next
<1>3. CASE EnterSleep(t) \/ WakeAgain(t) \/ Expire(t) \/ SpuriousWake(t)
    <2>1. Answer' = Answer
        BY <1>3, AnswerStays DEF EnterSleep, WakeAgain, Expire, SpuriousWake
    <2> QED
        BY <1>3, <2>1
        DEF EnterSleep, WakeAgain, Expire, SpuriousWake, Promise!vars
<1> QED
    BY <1>1, <1>2, <1>3 DEF WaitStep

LEMMA PostShown ==
    ASSUME TypeOK, NEW n \in Counts, Signal(n)
    PROVE  Promise!Next
<1>1. pc' = pc \/ \E S \in SUBSET At("asleep") :
            pc' = [t \in Threads |-> IF t \in S THEN "awake" ELSE pc[t]]
    BY DEF Signal, Notify
<1>2. ret' = ret
    BY DEF Signal
<1>3. Answer' = Answer
    BY <1>1, <1>2 DEF Answer, At, TypeOK
<1>4. Promise!Post(n)
    BY <1>3 DEF Signal, Promise!Post
<1> QED
    BY <1>4 DEF Promise!Next

LEMMA RevokeShown ==
    ASSUME PromiseInv, PromiseInv',
           (\E n \in Counts : Release(n) \/ ReleaseTo(n)) \/ Reset
    PROVE  Promise!Next
<1>1. UNCHANGED <<pc, ret, mode>>
    BY DEF Release, ReleaseTo, Reset
<1>2. Answer' = Answer
    BY <1>1 DEF Answer
<1>3. signals' \in 0 .. MaxSignals
    BY MaxSignalsAssumption DEF PromiseInv, TypeOK
<1>4. Promise!Revoke
    BY <1>1, <1>2, <1>3 DEF Promise!Revoke
<1> QED
    BY <1>4 DEF Promise!Next

LEMMA StepShown ==
    PromiseInv /\ PromiseInv' /\ [Next]_vars => [Promise!Next]_(Promise!vars)
<1> SUFFICES ASSUME PromiseInv, PromiseInv', [Next]_vars
             PROVE  [Promise!Next]_(Promise!vars)
    OBVIOUS
<1>0. TypeOK
    BY DEF PromiseInv
<1>1. CASE UNCHANGED vars
    BY <1>1 DEF vars, Promise!vars, Answer
<1>2. CASE \E t \in Threads : \E m \in Modes : Call(t, m)
    BY <1>0, <1>2, CallShown
<1>3. CASE \E t \in Threads : WaitStep(t) \/ Expire(t) \/ SpuriousWake(t)
    BY <1>3, WaitShown
<1>4. CASE \E n \in Counts : Signal(n)
    BY <1>0, <1>4, PostShown
<1>5. CASE (\E n \in Counts : Release(n) \/ ReleaseTo(n)) \/ Reset
    BY <1>5, RevokeShown
<1> QED
    BY <1>1, <1>2, <1>3, <1>4, <1>5 DEF Next

LEMMA InitShown == Init => Promise!Init
BY DEF Init, Promise!Init, Answer

-----------------------------------------------------------------------------
\* As long as no caller raises signals_ with release_to(), wait() and signal()
\* lose no wake-up, for every number of threads, every signal count and every
\* mix of time-outs: zfz_semphore.hpp:99-106 notifies enough.
THEOREM NoLostWakeUpTheorem ==
    ASSUME ~ReleaseToRaises
    PROVE  Spec => []NoLostWakeUp
<1>1. IInv => NoLostWakeUp
    BY DEF IInv, Wakes
<1> QED
    BY <1>1, InitHolds, StepKeeps, PTL DEF Spec

\* blocked_ counts the threads in cv_ or on their way out of it, always.
THEOREM BlockedCountsTheorem == Spec => []BlockedCounts
<1>1. IInv => BlockedCounts
    BY DEF IInv
<1> QED
    BY <1>1, InitHolds, StepKeeps, PTL DEF Spec

\* Neither signals_ nor blocked_ ever goes below zero, whatever is revoked and
\* whoever leaves (zfz_semphore.hpp:66-85, 109-142).
THEOREM TypeTheorem == Spec => []TypeOK
<1>1. IInv => TypeOK
    BY DEF IInv
<1> QED
    BY <1>1, InitHolds, StepKeeps, PTL DEF Spec

\* The class does what CountingSemaphore promises, step by step, also when
\* release_to() raises: each success takes one permit, a time-out is answered
\* only when there is none, and never to an endless wait.
THEOREM PromiseTheorem == Spec => PromiseKept
<1>1. IInv => TypeOK
    BY DEF IInv
<1> QED
    BY <1>1, InitHolds, StepKeeps, PromiseInvInit, PromiseInvStep, InitShown,
       StepShown, PTL
    DEF Spec, PromiseKept, Promise!Steps
=============================================================================
