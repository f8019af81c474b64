-------------------------------- MODULE Event --------------------------------
(***************************************************************************)
(* zfz::Event (include/zfz/zfz_event.hpp): a manual- or auto-reset event   *)
(* made of a mutex, a condition variable, signal_ and blocked_.            *)
(*                                                                         *)
(* As in Semphore, lock_ is held except inside cv_, and pc[t] is           *)
(*    "idle", "enter", "asleep", "awake" (notified) or "expired".          *)
(***************************************************************************)
EXTENDS Integers, FiniteSets

CONSTANTS
    Threads         \* the threads that call wait()

ASSUME ThreadsAssumption == IsFiniteSet(Threads)

VARIABLES
    manual,         \* manual_reset_, fixed by the constructor
    signal,         \* signal_
    blocked,        \* blocked_
    pc,             \* where each thread is
    mode,           \* the time_out_ms of each thread's last wait()
    ret             \* what its last wait() returned

vars == <<manual, signal, blocked, pc, mode, ret>>

Modes == {"zero", "finite", "infinite"}

At(l) == {t \in Threads : pc[t] = l}

Inside == At("asleep") \cup At("awake") \cup At("expired")
Roused == At("awake") \cup At("expired")

TypeOK ==
    /\ manual \in BOOLEAN
    /\ signal \in BOOLEAN
    /\ blocked \in Nat
    /\ pc \in [Threads -> {"idle", "enter", "asleep", "awake", "expired"}]
    /\ mode \in [Threads -> Modes]
    /\ ret \in [Threads -> {"NONE", "SUCCESS", "TIME_OUT"}]

Init ==
    /\ manual \in BOOLEAN
    /\ signal \in BOOLEAN
    /\ blocked = 0
    /\ pc = [t \in Threads |-> "idle"]
    /\ mode = [t \in Threads |-> "infinite"]
    /\ ret = [t \in Threads |-> "NONE"]

-----------------------------------------------------------------------------
(* wait() *)

Call(t, m) ==
    /\ pc[t] = "idle"
    /\ pc' = [pc EXCEPT ![t] = "enter"]
    /\ mode' = [mode EXCEPT ![t] = m]
    /\ UNCHANGED <<manual, signal, blocked, ret>>

Return(t, r) ==
    /\ pc' = [pc EXCEPT ![t] = "idle"]
    /\ ret' = [ret EXCEPT ![t] = r]

\* A successful wait() takes an auto-reset event's signal with it.
Consume == signal' = manual

EnterPass(t) ==
    /\ pc[t] = "enter"
    /\ signal
    /\ Consume
    /\ Return(t, "SUCCESS")
    /\ UNCHANGED <<manual, blocked, mode>>

EnterPoll(t) ==
    /\ pc[t] = "enter"
    /\ ~signal
    /\ mode[t] = "zero"
    /\ Return(t, "TIME_OUT")
    /\ UNCHANGED <<manual, signal, blocked, mode>>

EnterSleep_CountedOnce(t) ==
    /\ pc[t] = "enter"
    /\ ~signal
    /\ mode[t] # "zero"
    /\ blocked' = 1
    /\ pc' = [pc EXCEPT ![t] = "asleep"]
    /\ UNCHANGED <<manual, signal, mode, ret>>

EnterSleep(t) ==
    /\ pc[t] = "enter"
    /\ ~signal
    /\ mode[t] # "zero"
    /\ blocked' = blocked + 1
    /\ pc' = [pc EXCEPT ![t] = "asleep"]
    /\ UNCHANGED <<manual, signal, mode, ret>>

WakePass_KeepsSignal(t) ==
    /\ pc[t] \in {"awake", "expired"}
    /\ signal
    /\ blocked' = blocked - 1
    /\ Return(t, "SUCCESS")
    /\ UNCHANGED <<manual, signal, mode>>

WakePass(t) ==
    /\ pc[t] \in {"awake", "expired"}
    /\ signal
    /\ blocked' = blocked - 1
    /\ Consume
    /\ Return(t, "SUCCESS")
    /\ UNCHANGED <<manual, mode>>

\* Woken, but the signal was taken or reset first: back to sleep.
WakeAgain(t) ==
    /\ pc[t] = "awake"
    /\ ~signal
    /\ pc' = [pc EXCEPT ![t] = "asleep"]
    /\ UNCHANGED <<manual, signal, blocked, mode, ret>>

WakeGiveUp(t) ==
    /\ pc[t] = "expired"
    /\ ~signal
    /\ blocked' = blocked - 1
    /\ Return(t, "TIME_OUT")
    /\ UNCHANGED <<manual, signal, mode>>

\* The condition variable itself: a time-out, or a wake-up for no reason.
Expire(t) ==
    /\ pc[t] = "asleep"
    /\ mode[t] = "finite"
    /\ pc' = [pc EXCEPT ![t] = "expired"]
    /\ UNCHANGED <<manual, signal, blocked, mode, ret>>

SpuriousWake(t) ==
    /\ pc[t] = "asleep"
    /\ pc' = [pc EXCEPT ![t] = "awake"]
    /\ UNCHANGED <<manual, signal, blocked, mode, ret>>

-----------------------------------------------------------------------------
(* set(), reset() *)

\* notify_all() empties the wait set, notify_one() takes one sleeper from it.
Notified(S) ==
    IF manual \/ At("asleep") = {} THEN S = At("asleep")
                                        ELSE \E t \in At("asleep") : S = {t}

Set_NotifyOne ==
    /\ signal' = TRUE
    /\ IF blocked > 0 /\ At("asleep") # {}
       THEN \E t \in At("asleep") : pc' = [pc EXCEPT ![t] = "awake"]
       ELSE UNCHANGED pc
    /\ UNCHANGED <<manual, blocked, mode, ret>>

Set ==
    /\ signal' = TRUE
    /\ IF blocked > 0
       THEN \E S \in SUBSET At("asleep") :
            /\ Notified(S)
            /\ pc' = [t \in Threads |-> IF t \in S THEN "awake" ELSE pc[t]]
       ELSE UNCHANGED pc
    /\ UNCHANGED <<manual, blocked, mode, ret>>

Reset ==
    /\ signal' = FALSE
    /\ UNCHANGED <<manual, blocked, pc, mode, ret>>

-----------------------------------------------------------------------------
WaitStep(t) ==
    \/ EnterPass(t) \/ EnterPoll(t) \/ EnterSleep(t)
    \/ WakePass(t) \/ WakeAgain(t) \/ WakeGiveUp(t)

Next ==
    \/ \E t \in Threads :
        \/ \E m \in Modes : Call(t, m)
        \/ WaitStep(t) \/ Expire(t) \/ SpuriousWake(t)
    \/ Set
    \/ Reset

\* A thread that can run does, and the clock reaches every deadline.
Fairness ==
    \A t \in Threads : WF_vars(WaitStep(t)) /\ SF_vars(Expire(t))

Spec == Init /\ [][Next]_vars /\ Fairness

-----------------------------------------------------------------------------
(* Properties *)

\* blocked_ is the number of threads that sleep or still have to leave: set()
\* notifies nobody when it reads 0.
BlockedCounts == blocked = Cardinality(Inside)

\* No lost wake-up: while the event is signalled nobody sleeps, except beside
\* an auto-reset waiter that is roused and will pass the signal or the count on.
NoLostWakeUp ==
    signal => \/ At("asleep") = {}
              \/ ~manual /\ Roused # {}

\* What each caller of wait() knows: it is inside, or its last answer.
Answer == [t \in Threads |-> IF pc[t] = "idle" THEN ret[t] ELSE "waiting"]

Promise == INSTANCE SignalFlag WITH
    flag <- signal, state <- Answer, patience <- mode

\* Every step of the class is one that SignalFlag allows: wait() succeeds only on
\* a signal, an auto-reset signal lets one waiter through, a time-out means that
\* there was no signal.
PromiseKept == Promise!Steps

\* No sleeper is left beside a raised event for good, and a wait with a time-out
\* ends.
WaitersServed == Promise!Serves /\ Promise!Answers
=============================================================================
