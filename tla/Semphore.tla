------------------------------ MODULE Semphore ------------------------------
(***************************************************************************)
(* zfz::Semphore (include/zfz/zfz_semphore.hpp): a counting semaphore made *)
(* of a mutex, a condition variable, signals_ and blocked_.                *)
(*                                                                         *)
(* Every method holds lock_ from its first to its last line except while   *)
(* it sleeps in cv_, so each stretch between two sleeps is one action.     *)
(* pc[t] says where thread t is:                                           *)
(*    "idle"     outside the semaphore                                     *)
(*    "enter"    called wait(), has not taken lock_ yet                    *)
(*    "asleep"   in the wait set of cv_                                    *)
(*    "awake"    notified (or woken spuriously), has to take lock_ again   *)
(*    "expired"  its wait_for() ran out, has to take lock_ again           *)
(***************************************************************************)
EXTENDS Integers, FiniteSets

CONSTANTS
    Threads,        \* the threads that call wait()
    MaxSignals,     \* bound on signals_, for model checking
    Counts,         \* the counts passed to signal(), release(), release_to()
    ReleaseToRaises \* may a caller raise signals_ with release_to()?

ASSUME ThreadsAssumption == IsFiniteSet(Threads)
ASSUME MaxSignalsAssumption == MaxSignals \in Nat
ASSUME CountsAssumption == Counts \subseteq Int
ASSUME ReleaseToAssumption == ReleaseToRaises \in BOOLEAN

VARIABLES
    signals,        \* signals_
    blocked,        \* blocked_
    pc,             \* where each thread is
    mode,           \* the time_out_ms of each thread's last wait()
    ret             \* what its last wait() returned

vars == <<signals, blocked, pc, mode, ret>>

\* time_out_ms is 0, positive, or negative for ever.
Modes == {"zero", "finite", "infinite"}

At(l) == {t \in Threads : pc[t] = l}

\* The threads counted by blocked_, and those of them already on their way out.
Inside == At("asleep") \cup At("awake") \cup At("expired")
Roused == At("awake") \cup At("expired")

TypeOK ==
    /\ signals \in Nat
    /\ blocked \in Nat
    /\ pc \in [Threads -> {"idle", "enter", "asleep", "awake", "expired"}]
    /\ mode \in [Threads -> Modes]
    /\ ret \in [Threads -> {"NONE", "SUCCESS", "TIME_OUT"}]

Init ==
    /\ signals \in 0 .. MaxSignals
    /\ blocked = 0
    /\ pc = [t \in Threads |-> "idle"]
    /\ mode = [t \in Threads |-> "infinite"]
    /\ ret = [t \in Threads |-> "NONE"]

-----------------------------------------------------------------------------
(* wait() *)

Call(t, m) ==
    /\ pc[t] = "idle"
    /\ pc' = [pc EXCEPT ![t] = "enter"]
    /\ mode' = [mode EXCEPT ![t] = m]
    /\ UNCHANGED <<signals, blocked, ret>>

\* The thread leaves wait() with answer r.
Return(t, r) ==
    /\ pc' = [pc EXCEPT ![t] = "idle"]
    /\ ret' = [ret EXCEPT ![t] = r]

EnterTake(t) ==
    /\ pc[t] = "enter"
    /\ signals > 0
    /\ signals' = signals - 1
    /\ Return(t, "SUCCESS")
    /\ UNCHANGED <<blocked, mode>>

EnterPoll(t) ==
    /\ pc[t] = "enter"
    /\ signals <= 0
    /\ mode[t] = "zero"
    /\ Return(t, "TIME_OUT")
    /\ UNCHANGED <<signals, blocked, mode>>

EnterSleep(t) ==
    /\ pc[t] = "enter"
    /\ signals <= 0
    /\ mode[t] # "zero"
    /\ blocked' = blocked + 1
    /\ pc' = [pc EXCEPT ![t] = "asleep"]
    /\ UNCHANGED <<signals, mode, ret>>

\* The predicate of cv_.wait()/wait_for() holds, woken or timed out.
WakeTake(t) ==
    /\ pc[t] \in {"awake", "expired"}
    /\ signals > 0
    /\ blocked' = blocked - 1
    /\ signals' = signals - 1
    /\ Return(t, "SUCCESS")
    /\ UNCHANGED mode

\* Woken, but another thread took the permit first: back to sleep.
WakeAgain(t) ==
    /\ pc[t] = "awake"
    /\ signals <= 0
    /\ pc' = [pc EXCEPT ![t] = "asleep"]
    /\ UNCHANGED <<signals, blocked, mode, ret>>

WakeGiveUp_NoPredicate(t) ==
    /\ pc[t] = "expired"
    /\ blocked' = blocked - 1
    /\ Return(t, "TIME_OUT")
    /\ UNCHANGED <<signals, mode>>

WakeGiveUp(t) ==
    /\ pc[t] = "expired"
    /\ signals <= 0
    /\ blocked' = blocked - 1
    /\ Return(t, "TIME_OUT")
    /\ UNCHANGED <<signals, mode>>

\* The condition variable itself: a time-out, or a wake-up for no reason.
Expire(t) ==
    /\ pc[t] = "asleep"
    /\ mode[t] = "finite"
    /\ pc' = [pc EXCEPT ![t] = "expired"]
    /\ UNCHANGED <<signals, blocked, mode, ret>>

SpuriousWake(t) ==
    /\ pc[t] = "asleep"
    /\ pc' = [pc EXCEPT ![t] = "awake"]
    /\ UNCHANGED <<signals, blocked, mode, ret>>

-----------------------------------------------------------------------------
(* signal(), release(), release_to(), reset() *)

Smaller(a, b) == IF a < b THEN a ELSE b

\* n calls of notify_one(): each moves one sleeper, whichever, if there is one.
Notify(n) ==
    \E S \in SUBSET At("asleep") :
        /\ Cardinality(S) = Smaller(n, Cardinality(At("asleep")))
        /\ pc' = [t \in Threads |-> IF t \in S THEN "awake" ELSE pc[t]]

Signal_NotifyOnce(count) ==
    /\ count > 0
    /\ signals + count <= MaxSignals
    /\ signals' = signals + count
    /\ IF blocked > 0 THEN Notify(1) ELSE UNCHANGED pc
    /\ UNCHANGED <<blocked, mode, ret>>

Signal(count) ==
    /\ count > 0
    /\ signals + count <= MaxSignals
    /\ signals' = signals + count
    /\ IF blocked > 0 THEN Notify(Smaller(blocked, count)) ELSE UNCHANGED pc
    /\ UNCHANGED <<blocked, mode, ret>>

Release_NoClamp(count) ==
    /\ count > 0
    /\ signals' = signals - count
    /\ UNCHANGED <<blocked, pc, mode, ret>>

Release(count) ==
    /\ count > 0
    /\ signals' = IF signals - count < 0 THEN 0 ELSE signals - count
    /\ UNCHANGED <<blocked, pc, mode, ret>>

\* release_to() writes signals_ and notifies nobody, so a caller that raises
\* signals_ with it leaves sleepers asleep; nothing in the repository does.
ReleaseTo(count) ==
    /\ count <= signals \/ (ReleaseToRaises /\ count <= MaxSignals)
    /\ signals' = IF count < 0 THEN 0 ELSE count
    /\ UNCHANGED <<blocked, pc, mode, ret>>

Reset ==
    /\ signals' = 0
    /\ UNCHANGED <<blocked, pc, mode, ret>>

-----------------------------------------------------------------------------
WaitStep(t) ==
    \/ EnterTake(t) \/ EnterPoll(t) \/ EnterSleep(t)
    \/ WakeTake(t) \/ WakeAgain(t) \/ WakeGiveUp(t)

Next ==
    \/ \E t \in Threads : 
        \/ \E m \in Modes : Call(t, m)
        \/ WaitStep(t) \/ Expire(t) \/ SpuriousWake(t)
    \/ \E n \in Counts : Signal(n) \/ Release(n)
    \/ Reset
    \/ \E n \in Counts : ReleaseTo(n)

\* A thread that can run does, and the clock reaches every deadline.
Fairness ==
    \A t \in Threads : WF_vars(WaitStep(t)) /\ SF_vars(Expire(t))

Spec == Init /\ [][Next]_vars /\ Fairness

-----------------------------------------------------------------------------
(* Properties *)

\* blocked_ is the number of threads that sleep or still have to leave: a
\* smaller value would make signal() skip a notification it owes.
BlockedCounts == blocked = Cardinality(Inside)

\* No lost wake-up: of the threads inside wait(), as many as there are signals
\* are already roused, whatever barged in, timed out or was revoked meanwhile.
NoLostWakeUp == Cardinality(Roused) >= Smaller(signals, blocked)

\* What each caller of wait() knows: it is inside, or its last answer.
Answer == [t \in Threads |-> IF pc[t] = "idle" THEN ret[t] ELSE "waiting"]

Promise == INSTANCE CountingSemaphore WITH
    permits <- signals, state <- Answer, patience <- mode

\* Every step of the class is one that CountingSemaphore allows: one permit per
\* success, a time-out only when there was nothing to take, none of an endless wait.
PromiseKept == Promise!Steps

\* No sleeper is left beside a signal for good, and a wait with a time-out ends.
WaitersServed == Promise!Serves /\ Promise!Answers
=============================================================================
