-------------------------- MODULE CountingSemaphore --------------------------
(***************************************************************************)
(* What zfz::Semphore (include/zfz/zfz_semphore.hpp) promises its callers: *)
(* a number of permits, the callers inside wait(), and the answer each of  *)
(* them got.  The mutex, the condition variable and blocked_ are gone.     *)
(***************************************************************************)
EXTENDS Integers

CONSTANTS
    Threads,        \* the threads that call wait()
    MaxSignals,     \* bound on the permits, for model checking
    Counts          \* the counts passed to signal(), release(), release_to()

VARIABLES
    permits,        \* the permits on offer
    state,          \* state[t]: "waiting", or the last answer wait() gave t
    patience        \* patience[t]: the time_out_ms of t's last wait()

vars == <<permits, state, patience>>

Patience == {"zero", "finite", "infinite"}

Init ==
    /\ permits \in 0 .. MaxSignals
    /\ state = [t \in Threads |-> "NONE"]
    /\ patience = [t \in Threads |-> "infinite"]

Call(t, m) ==
    /\ state[t] # "waiting"
    /\ state' = [state EXCEPT ![t] = "waiting"]
    /\ patience' = [patience EXCEPT ![t] = m]
    /\ UNCHANGED permits

\* A permit is taken by exactly one waiter.
Acquire(t) ==
    /\ state[t] = "waiting"
    /\ permits > 0
    /\ permits' = permits - 1
    /\ state' = [state EXCEPT ![t] = "SUCCESS"]
    /\ UNCHANGED patience

\* A waiter leaves with nothing only when it agreed to and there is nothing.
GiveUp(t) ==
    /\ state[t] = "waiting"
    /\ patience[t] # "infinite"
    /\ permits = 0
    /\ state' = [state EXCEPT ![t] = "TIME_OUT"]
    /\ UNCHANGED <<permits, patience>>

Post(n) ==
    /\ n > 0
    /\ permits + n <= MaxSignals
    /\ permits' = permits + n
    /\ UNCHANGED <<state, patience>>

\* release(), release_to() and reset() revoke permits; release_to() may add.
Revoke ==
    /\ \E n \in 0 .. MaxSignals : permits' = n
    /\ UNCHANGED <<state, patience>>

Next ==
    \/ \E t \in Threads, m \in Patience : Call(t, m)
    \/ \E t \in Threads : Acquire(t) \/ GiveUp(t)
    \/ \E n \in Counts : Post(n)
    \/ Revoke

\* What a caller sees of any single step.
Steps == Init /\ [][Next]_vars

Waiting == {t \in Threads : state[t] = "waiting"}

\* While there are permits every waiter gets through, and a patience has an end.
Serves ==
    \A t \in Threads : (t \in Waiting /\ permits > 0) ~> (t \notin Waiting \/ permits = 0)

Answers ==
    \A t \in Threads :
        (t \in Waiting /\ patience[t] # "infinite") ~> t \notin Waiting

Spec == Steps /\ Serves /\ Answers
=============================================================================
