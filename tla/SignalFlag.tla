----------------------------- MODULE SignalFlag -----------------------------
(***************************************************************************)
(* What zfz::Event (include/zfz/zfz_event.hpp) promises: a flag that       *)
(* threads wait for.  A manual-reset event stays up until reset(); an      *)
(* auto-reset event lets one waiter through per time it is raised.         *)
(***************************************************************************)
CONSTANTS
    Threads         \* the threads that call wait()

VARIABLES
    manual,         \* is it a manual-reset event?
    flag,           \* is the event signalled?
    state,          \* state[t]: "waiting", or the last answer wait() gave t
    patience        \* patience[t]: the time_out_ms of t's last wait()

vars == <<manual, flag, state, patience>>

Patience == {"zero", "finite", "infinite"}

Init ==
    /\ manual \in BOOLEAN
    /\ flag \in BOOLEAN
    /\ state = [t \in Threads |-> "NONE"]
    /\ patience = [t \in Threads |-> "infinite"]

Call(t, m) ==
    /\ state[t] # "waiting"
    /\ state' = [state EXCEPT ![t] = "waiting"]
    /\ patience' = [patience EXCEPT ![t] = m]
    /\ UNCHANGED <<manual, flag>>

Pass(t) ==
    /\ state[t] = "waiting"
    /\ flag
    /\ flag' = manual
    /\ state' = [state EXCEPT ![t] = "SUCCESS"]
    /\ UNCHANGED <<manual, patience>>

GiveUp(t) ==
    /\ state[t] = "waiting"
    /\ patience[t] # "infinite"
    /\ ~flag
    /\ state' = [state EXCEPT ![t] = "TIME_OUT"]
    /\ UNCHANGED <<manual, flag, patience>>

Raise == flag' = TRUE /\ UNCHANGED <<manual, state, patience>>

Lower == flag' = FALSE /\ UNCHANGED <<manual, state, patience>>

Next ==
    \/ \E t \in Threads, m \in Patience : Call(t, m)
    \/ \E t \in Threads : Pass(t) \/ GiveUp(t)
    \/ Raise
    \/ Lower

\* What a caller sees of any single step.
Steps == Init /\ [][Next]_vars

Waiting == {t \in Threads : state[t] = "waiting"}

\* While the flag stays up every waiter gets through, and a patience has an end.
Serves ==
    \A t \in Threads : (t \in Waiting /\ flag) ~> (t \notin Waiting \/ ~flag)

Answers ==
    \A t \in Threads :
        (t \in Waiting /\ patience[t] # "infinite") ~> t \notin Waiting

Spec == Steps /\ Serves /\ Answers
=============================================================================
