----------------------------- MODULE EventProofs -----------------------------
(***************************************************************************)
(* Proofs about zfz::Event, for any finite set of threads and both kinds   *)
(* of event.  As in SemphoreProofs the wake-up argument needs blocked_ to  *)
(* be exact, because set() notifies nobody when it reads 0.                *)
(***************************************************************************)
EXTENDS Event, FiniteSetTheorems, TLAPS

IInv == TypeOK /\ BlockedCounts /\ NoLostWakeUp

LEMMA InsideFinite ==
    /\ IsFiniteSet(Inside) /\ Cardinality(Inside) \in Nat
    /\ Inside = At("asleep") \cup Roused
<1>1. IsFiniteSet(Inside)
    BY FS_Subset, ThreadsAssumption DEF At, Inside
<1> QED
    BY <1>1, FS_CardinalityType DEF Inside, Roused

\* A step that leaves the condition variable and the signal alone.
LEMMA SameThreads ==
    ASSUME IInv, Inside' = Inside, At("asleep")' = At("asleep"),
           Roused' = Roused, blocked' = blocked, signal' => signal,
           manual' = manual
    PROVE  BlockedCounts' /\ NoLostWakeUp'
BY DEF IInv, BlockedCounts, NoLostWakeUp

LEMMA RousedLeaves ==
    ASSUME IInv, NEW t \in Roused, Inside' = Inside \ {t}, blocked' = blocked - 1
    PROVE  BlockedCounts' /\ blocked' \in Nat
<1>1. t \in Inside
    BY InsideFinite
<1>2. Cardinality(Inside') = Cardinality(Inside) - 1
    BY <1>1, InsideFinite, FS_RemoveElement
<1>3. IsFiniteSet(Inside')
    BY InsideFinite, FS_Subset
<1>4. Cardinality(Inside') \in Nat
    BY <1>3, FS_CardinalityType
<1> QED
    BY <1>2, <1>4 DEF IInv, BlockedCounts

\* set(): when somebody is inside, the notification finds a sleeper if there is one.
LEMMA SetKeeps ==
    ASSUME IInv, Set
    PROVE  IInv'
<1>1. signal' = TRUE /\ manual' = manual /\ blocked' = blocked /\ mode' = mode /\ ret' = ret
    BY DEF Set
<1>2. CASE blocked > 0
    <2>1. PICK S \in SUBSET At("asleep") :
            /\ Notified(S)
            /\ pc' = [t \in Threads |-> IF t \in S THEN "awake" ELSE pc[t]]
        BY <1>2 DEF Set
    <2>2. TypeOK'
        BY <1>1, <2>1 DEF IInv, TypeOK, At
    <2>3. /\ Inside' = Inside /\ At("asleep")' = At("asleep") \ S
          /\ Roused' = Roused \cup S
        BY <2>1 DEF IInv, TypeOK, Inside, Roused, At
    <2>4. BlockedCounts'
        BY <1>1, <2>3 DEF IInv, BlockedCounts
    <2>5. At("asleep")' = {} \/ (~manual /\ Roused' # {})
        BY <2>1, <2>3 DEF Notified
    <2> QED
        BY <1>1, <2>2, <2>4, <2>5 DEF IInv, NoLostWakeUp
<1>3. CASE ~(blocked > 0)
    <2>1. pc' = pc /\ blocked = 0
        BY <1>3 DEF Set, IInv, TypeOK
    <2>2. Inside = {}
        BY <2>1, InsideFinite, FS_EmptySet DEF IInv, BlockedCounts
    <2>3. TypeOK' /\ Inside' = Inside /\ At("asleep")' = At("asleep")
        BY <1>1, <2>1 DEF IInv, TypeOK, Inside, At
    <2>4. At("asleep") = {}
        BY <2>2, InsideFinite
    <2> QED
        BY <1>1, <2>3, <2>4 DEF IInv, BlockedCounts, NoLostWakeUp
<1> QED
    BY <1>2, <1>3

LEMMA ThreadKeeps ==
    ASSUME IInv, NEW t \in Threads,
           \/ \E m \in Modes : Call(t, m)
           \/ WaitStep(t) \/ Expire(t) \/ SpuriousWake(t)
    PROVE  IInv'
<1>1. CASE \E m \in Modes : Call(t, m)
    <2>1. /\ TypeOK' /\ Inside' = Inside /\ Roused' = Roused
          /\ At("asleep")' = At("asleep")
        BY <1>1 DEF IInv, TypeOK, Call, Inside, Roused, At
    <2> QED
        BY <1>1, <2>1, SameThreads DEF Call, IInv
<1>2. CASE EnterPass(t) \/ EnterPoll(t)
    <2>1. /\ TypeOK' /\ Inside' = Inside /\ Roused' = Roused
          /\ At("asleep")' = At("asleep")
        BY <1>2
        DEF IInv, TypeOK, EnterPass, EnterPoll, Consume, Return, Inside, Roused, At
    <2>2. signal' => signal
        BY <1>2 DEF EnterPass, EnterPoll
    <2> QED
        BY <1>2, <2>1, <2>2, SameThreads DEF EnterPass, EnterPoll, IInv
<1>3. CASE EnterSleep(t)
    <2>1. /\ TypeOK' /\ Inside' = Inside \cup {t} /\ t \notin Inside
          /\ blocked' = blocked + 1 /\ signal' = FALSE
        BY <1>3 DEF IInv, TypeOK, EnterSleep, Inside, At
    <2>2. Cardinality(Inside') = Cardinality(Inside) + 1
        BY <2>1, InsideFinite, FS_AddElement
    <2> QED
        BY <2>1, <2>2 DEF IInv, BlockedCounts, NoLostWakeUp
<1>4. CASE WakePass(t)
    <2>1. /\ t \in Roused /\ Inside' = Inside \ {t}
          /\ At("asleep")' = At("asleep") /\ blocked' = blocked - 1
          /\ signal /\ signal' = manual /\ manual' = manual
        BY <1>4 DEF IInv, TypeOK, WakePass, Consume, Return, Inside, Roused, At
    <2>2. BlockedCounts' /\ blocked' \in Nat
        BY <2>1, RousedLeaves
    <2>3. TypeOK'
        BY <1>4, <2>1, <2>2
        DEF IInv, TypeOK, WakePass, Return
    <2> QED
        BY <2>1, <2>2, <2>3 DEF IInv, NoLostWakeUp
<1>5. CASE WakeGiveUp(t)
    <2>1. /\ t \in Roused /\ Inside' = Inside \ {t}
          /\ blocked' = blocked - 1 /\ signal' = FALSE
        BY <1>5 DEF IInv, TypeOK, WakeGiveUp, Return, Inside, Roused, At
    <2>2. BlockedCounts' /\ blocked' \in Nat
        BY <2>1, RousedLeaves
    <2>3. TypeOK'
        BY <1>5, <2>1, <2>2 DEF IInv, TypeOK, WakeGiveUp, Return
    <2> QED
        BY <2>1, <2>2, <2>3 DEF IInv, NoLostWakeUp
<1>6. CASE WakeAgain(t)
    <2>1. TypeOK' /\ Inside' = Inside /\ blocked' = blocked /\ signal' = FALSE
        BY <1>6 DEF IInv, TypeOK, WakeAgain, Inside, At
    <2> QED
        BY <2>1 DEF IInv, BlockedCounts, NoLostWakeUp
<1>7. CASE Expire(t) \/ SpuriousWake(t)
    <2>1. /\ TypeOK' /\ Inside' = Inside /\ blocked' = blocked
          /\ signal' = signal /\ manual' = manual /\ Roused \subseteq Roused'
          /\ At("asleep")' \subseteq At("asleep")
        BY <1>7 DEF IInv, TypeOK, Expire, SpuriousWake, Inside, Roused, At
    <2> QED
        BY <2>1 DEF IInv, BlockedCounts, NoLostWakeUp
<1> QED
    BY <1>1, <1>2, <1>3, <1>4, <1>5, <1>6, <1>7 DEF WaitStep

LEMMA InitHolds == Init => IInv
<1> SUFFICES ASSUME Init PROVE IInv
    OBVIOUS
<1>1. TypeOK
    BY DEF Init, TypeOK, Modes
<1>2. Inside = {} /\ At("asleep") = {}
    BY DEF Init, Inside, At
<1> QED
    BY <1>1, <1>2, FS_EmptySet DEF Init, IInv, BlockedCounts, NoLostWakeUp

LEMMA StepKeeps == IInv /\ [Next]_vars => IInv'
<1> SUFFICES ASSUME IInv, [Next]_vars PROVE IInv'
    OBVIOUS
<1>1. CASE Set
    BY <1>1, SetKeeps
<1>2. CASE \E t \in Threads : \/ \E m \in Modes : Call(t, m)
                              \/ WaitStep(t) \/ Expire(t) \/ SpuriousWake(t)
    BY <1>2, ThreadKeeps
<1>3. CASE Reset \/ UNCHANGED vars
    <2>1. UNCHANGED <<manual, blocked, pc, mode, ret>> /\ signal' \in {FALSE, signal}
        BY <1>3 DEF Reset, vars
    <2>2. /\ TypeOK' /\ Inside' = Inside /\ Roused' = Roused
          /\ At("asleep")' = At("asleep")
        BY <2>1 DEF IInv, TypeOK, Inside, Roused, At
    <2> QED
        BY <2>1, <2>2, SameThreads DEF IInv, TypeOK
<1> QED
    BY <1>1, <1>2, <1>3 DEF Next

-----------------------------------------------------------------------------
(* The step-by-step refinement of SignalFlag *)

\* Only a timed wait() runs out.
PromiseInv ==
    /\ TypeOK
    /\ \A t \in Threads : pc[t] = "expired" => mode[t] = "finite"

LEMMA PromiseInvInit == Init => PromiseInv
<1> SUFFICES ASSUME Init PROVE PromiseInv
    OBVIOUS
<1>1. TypeOK
    BY InitHolds DEF IInv
<1> QED
    BY <1>1 DEF Init, PromiseInv

LEMMA PromiseInvStep == PromiseInv /\ TypeOK' /\ [Next]_vars => PromiseInv'
<1> SUFFICES ASSUME PromiseInv, TypeOK', [Next]_vars PROVE PromiseInv'
    OBVIOUS
<1>1. CASE \E t \in Threads : \E m \in Modes : Call(t, m)
    BY <1>1 DEF Call, PromiseInv, TypeOK
<1>2. CASE \E t \in Threads : WaitStep(t)
    <2>1. PICK t \in Threads : WaitStep(t)
        BY <1>2
    <2>2. /\ mode' = mode
          /\ \E l \in {"idle", "asleep"} : pc' = [pc EXCEPT ![t] = l]
        BY <2>1
        DEF WaitStep, EnterPass, EnterPoll, EnterSleep, WakePass, WakeAgain,
            WakeGiveUp, Return
    <2>3. \A u \in Threads : pc'[u] = "expired" => pc[u] = "expired"
        BY <2>2 DEF PromiseInv, TypeOK
    <2> QED
        BY <2>2, <2>3 DEF PromiseInv
<1>3. CASE \E t \in Threads : Expire(t) \/ SpuriousWake(t)
    BY <1>3 DEF Expire, SpuriousWake, PromiseInv, TypeOK
<1>4. CASE Set
    <2>1. mode' = mode /\ \A t \in Threads : pc'[t] \in {"awake", pc[t]}
        BY <1>4 DEF Set, PromiseInv, TypeOK
    <2> QED
        BY <2>1 DEF PromiseInv
<1>5. CASE Reset \/ UNCHANGED vars
    BY <1>5 DEF Reset, vars, PromiseInv
<1> QED
    BY <1>1, <1>2, <1>3, <1>4, <1>5 DEF Next

\* A move of a thread inside wait() shows nothing.
LEMMA AnswerStays ==
    ASSUME TypeOK, NEW t \in Threads, pc[t] # "idle", NEW l, l # "idle",
           pc' = [pc EXCEPT ![t] = l], ret' = ret
    PROVE  Answer' = Answer
BY DEF Answer, TypeOK

LEMMA AnswerGiven ==
    ASSUME TypeOK, NEW t \in Threads, pc[t] # "idle", NEW r, Return(t, r)
    PROVE  Answer[t] = "waiting" /\ Answer' = [Answer EXCEPT ![t] = r]
BY DEF Answer, TypeOK, Return

LEMMA CallShown ==
    ASSUME TypeOK, NEW t \in Threads, NEW m \in Modes, Call(t, m)
    PROVE  Promise!Next
<1>1. Answer[t] # "waiting" /\ Answer' = [Answer EXCEPT ![t] = "waiting"]
    BY DEF Answer, TypeOK, Call
<1>2. Promise!Call(t, m)
    BY <1>1 DEF Call, Promise!Call
<1> QED
    BY <1>2 DEF Promise!Next, Promise!Patience, Modes

LEMMA WaitShown ==
    ASSUME PromiseInv, NEW t \in Threads, WaitStep(t) \/ Expire(t) \/ SpuriousWake(t)
    PROVE  [Promise!Next]_(Promise!vars)
<1> USE DEF PromiseInv
<1>1. CASE EnterPass(t) \/ WakePass(t)
    <2>1. Answer[t] = "waiting" /\ Answer' = [Answer EXCEPT ![t] = "SUCCESS"]
        BY <1>1, AnswerGiven DEF EnterPass, WakePass
    <2>2. Promise!Pass(t)
        BY <1>1, <2>1 DEF EnterPass, WakePass, Consume, Promise!Pass
    <2> QED
        BY <2>2 DEF Promise!Next
<1>2. CASE EnterPoll(t) \/ WakeGiveUp(t)
    <2>1. Answer[t] = "waiting" /\ Answer' = [Answer EXCEPT ![t] = "TIME_OUT"]
        BY <1>2, AnswerGiven DEF EnterPoll, WakeGiveUp
    <2>2. mode[t] # "infinite" /\ ~signal /\ UNCHANGED <<manual, signal, mode>>
        BY <1>2 DEF EnterPoll, WakeGiveUp, TypeOK
    <2>3. Promise!GiveUp(t)
        BY <2>1, <2>2 DEF Promise!GiveUp
    <2> QED
        BY <2>3 DEF Promise!Next
<1>3. CASE EnterSleep(t) \/ WakeAgain(t) \/ Expire(t) \/ SpuriousWake(t)
    <2>1. Answer' = Answer
        BY <1>3, AnswerStays DEF EnterSleep, WakeAgain, Expire, SpuriousWake
    <2> QED
        BY <1>3, <2>1
        DEF EnterSleep, WakeAgain, Expire, SpuriousWake, Promise!vars
<1> QED
    BY <1>1, <1>2, <1>3 DEF WaitStep

LEMMA FlagShown ==
    ASSUME TypeOK, Set \/ Reset
    PROVE  Promise!Next
<1>1. pc' = pc \/ \E S \in SUBSET At("asleep") :
            pc' = [t \in Threads |-> IF t \in S THEN "awake" ELSE pc[t]]
    BY DEF Set, Reset
<1>2. ret' = ret
    BY DEF Set, Reset
<1>3. Answer' = Answer
    BY <1>1, <1>2 DEF Answer, At, TypeOK
<1>4. Promise!Raise \/ Promise!Lower
    BY <1>3 DEF Set, Reset, Promise!Raise, Promise!Lower
<1> QED
    BY <1>4 DEF Promise!Next

LEMMA StepShown == PromiseInv /\ [Next]_vars => [Promise!Next]_(Promise!vars)
<1> SUFFICES ASSUME PromiseInv, [Next]_vars PROVE [Promise!Next]_(Promise!vars)
    OBVIOUS
<1>0. TypeOK
    BY DEF PromiseInv
<1>1. CASE UNCHANGED vars
    BY <1>1 DEF vars, Promise!vars, Answer
<1>2. CASE \E t \in Threads : \E m \in Modes : Call(t, m)
    BY <1>0, <1>2, CallShown
<1>3. CASE \E t \in Threads : WaitStep(t) \/ Expire(t) \/ SpuriousWake(t)
    BY <1>3, WaitShown
<1>4. CASE Set \/ Reset
    BY <1>0, <1>4, FlagShown
<1> QED
    BY <1>1, <1>2, <1>3, <1>4 DEF Next

LEMMA InitShown == Init => Promise!Init
BY DEF Init, Promise!Init, Answer

-----------------------------------------------------------------------------
\* set() loses no wake-up, whatever threads wait with whatever time-outs: while
\* the event is up, a thread is asleep in cv_ only beside an auto-reset waiter
\* that is already roused (zfz_event.hpp:106-122).
THEOREM NoLostWakeUpTheorem == Spec => []NoLostWakeUp
<1>1. IInv => NoLostWakeUp
    BY DEF IInv
<1> QED
    BY <1>1, InitHolds, StepKeeps, PTL DEF Spec

\* blocked_ counts the threads in cv_ or on their way out of it, always.
THEOREM BlockedCountsTheorem == Spec => [](TypeOK /\ BlockedCounts)
<1>1. IInv => TypeOK /\ BlockedCounts
    BY DEF IInv
<1> QED
    BY <1>1, InitHolds, StepKeeps, PTL DEF Spec

\* The class does what SignalFlag promises, step by step: nobody passes a lowered
\* event, an auto-reset signal lets one waiter through, and a time-out is
\* answered only while the event is down, never to an endless wait.
THEOREM PromiseTheorem == Spec => PromiseKept
<1>1. IInv => TypeOK
    BY DEF IInv
<1> QED
    BY <1>1, InitHolds, StepKeeps, PromiseInvInit, PromiseInvStep, InitShown,
       StepShown, PTL
    DEF Spec, PromiseKept, Promise!Steps
=============================================================================
