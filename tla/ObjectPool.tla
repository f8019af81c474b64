----------------------------- MODULE ObjectPool -----------------------------
(***************************************************************************)
(* zfz::ObjectPool<T> (include/zfz/zfz_object_pool.hpp): objects that are  *)
(* handed out by pop(), come back by push() and wait for reuse in between. *)
(* A pool may limit how many are available; pop() then waits.              *)
(*                                                                         *)
(* lock_ is never held across a wait, so each stretch under it is one      *)
(* action.  available_event_ is the manual-reset flag that SignalFlag      *)
(* promises.  pc[t] says where thread t is in pop():                       *)
(*    "out"      not in pop()                                              *)
(*    "wait"     in available_event_.wait()                                *)
(*    "recheck"  past it, has not taken lock_ yet                          *)
(*    "direct"   found no limit, has not taken lock_ yet                   *)
(* An object is given back by whoever drops the last shared_ptr to it, on  *)
(* any thread, so push() belongs to no thread of the model.                *)
(***************************************************************************)
EXTENDS Integers, Sequences, FiniteSets

CONSTANTS
    Threads,        \* the threads that call pop()
    Objects,        \* the addresses new T() can return
    Limits,         \* the counts set_available_count() may be given at the start
    Holding,        \* max_holding_count_ as the class initialises it
    Holdings,       \* the counts passed to set_max_holding_count()
    MaxAvailable    \* bound on available_count_, for model checking

ASSUME ObjectsAssumption == IsFiniteSet(Objects)
ASSUME LimitsAssumption == Limits \subseteq Int
ASSUME HoldingAssumption == Holding \in Nat /\ Holdings \subseteq Int
ASSUME BoundAssumption == MaxAvailable \in Nat

VARIABLES
    idle,           \* object_list_
    limit,          \* max_available_count_
    available,      \* available_count_; negative: no limit
    holding,        \* max_holding_count_
    event,          \* available_event_ is signalled
    pc,             \* where each thread is
    used,           \* the objects that are handed out
    trimmed         \* history: reset() or set_max_holding_count() was called

vars == <<idle, limit, available, holding, event, pc, used, trimmed>>

Elems(s) == {s[i] : i \in DOMAIN s}

TypeOK ==
    /\ idle \in Seq(Objects)
    /\ limit \in Int
    /\ available \in Int
    /\ holding \in Nat
    /\ event \in BOOLEAN
    /\ pc \in [Threads -> {"out", "wait", "recheck", "direct"}]
    /\ used \in SUBSET Objects
    /\ trimmed \in BOOLEAN

\* The pool has been constructed and set_available_count() has been called;
\* that leaves the event, which the constructor set, alone.
Init ==
    /\ limit \in Limits
    /\ idle = <<>>
    /\ available = limit
    /\ holding = Holding
    /\ event = TRUE
    /\ pc = [t \in Threads |-> "out"]
    /\ used = {}
    /\ trimmed = FALSE

-----------------------------------------------------------------------------
(* pop() *)

\* The sign of available_count_ is read without lock_.
Enter(t) ==
    /\ pc[t] = "out"
    /\ pc' = [pc EXCEPT ![t] = IF available >= 0 THEN "wait" ELSE "direct"]
    /\ UNCHANGED <<idle, limit, available, holding, event, used, trimmed>>

Pass(t) ==
    /\ pc[t] = "wait"
    /\ event
    /\ pc' = [pc EXCEPT ![t] = "recheck"]
    /\ UNCHANGED <<idle, limit, available, holding, event, used, trimmed>>

StillLeft_NotLast == available > 1

StillLeft == available > 0

\* Another thread was faster.
TooLate(t) ==
    /\ pc[t] = "recheck"
    /\ ~StillLeft
    /\ pc' = [pc EXCEPT ![t] = "wait"]
    /\ UNCHANGED <<idle, limit, available, holding, event, used, trimmed>>

Reuse_LeavesListed ==
    /\ idle # <<>>
    /\ used' = used \cup {Head(idle)}
    /\ UNCHANGED idle

Reuse ==
    /\ idle # <<>>
    /\ used' = used \cup {Head(idle)}
    /\ idle' = Tail(idle)

\* new T() returns an address that no living object has.
Create ==
    /\ idle = <<>>
    /\ \E o \in Objects \ used : used' = used \cup {o}
    /\ UNCHANGED idle

MayTake_Unchecked(t) == pc[t] \in {"recheck", "direct"}

MayTake(t) ==
    \/ pc[t] = "recheck" /\ StillLeft
    \/ pc[t] = "direct"

Taken_EventStaysUp ==
    /\ available' = IF available >= 0 THEN available - 1 ELSE available
    /\ UNCHANGED event

Taken ==
    /\ available' = IF available >= 0 THEN available - 1 ELSE available
    /\ event' = (event /\ ~(available >= 0 /\ available - 1 <= 0))

Take(t) ==
    /\ MayTake(t)
    /\ Reuse \/ Create
    /\ Taken
    /\ pc' = [pc EXCEPT ![t] = "out"]
    /\ UNCHANGED <<limit, holding, trimmed>>

-----------------------------------------------------------------------------
(* push(), reset(), set_max_holding_count() *)

Back_OnlyIfKept ==
    /\ available' = IF available >= 0 /\ Len(idle) < holding
                    THEN available + 1 ELSE available
    /\ event' = (event \/ available' = 1)

Back ==
    /\ available' = IF available >= 0 THEN available + 1 ELSE available
    /\ event' = (event \/ (available >= 0 /\ available + 1 = 1))

\* The object is kept for reuse while there is room, else deleted.
Push(o) ==
    /\ o \in used
    /\ used' = used \ {o}
    /\ idle' = IF Len(idle) < holding THEN Append(idle, o) ELSE idle
    /\ Back
    /\ UNCHANGED <<limit, holding, pc, trimmed>>

\* The first n idle objects are deleted, and counted as available again
\* although idle objects never stopped being available.
Delete(n) ==
    /\ available + n <= MaxAvailable
    /\ idle' = SubSeq(idle, n + 1, Len(idle))
    /\ available' = IF available >= 0 THEN available + n ELSE available
    /\ event' = (event \/ (available >= 0 /\ available + n = n /\ n > 0))
    /\ trimmed' = TRUE
    /\ UNCHANGED <<limit, pc, used>>

Reset ==
    /\ Delete(Len(idle))
    /\ UNCHANGED holding

SetMaxHoldingCount(count) ==
    /\ count >= 0
    /\ holding' = count
    /\ Delete(IF Len(idle) > count THEN Len(idle) - count ELSE 0)

-----------------------------------------------------------------------------
PopStep(t) == Pass(t) \/ TooLate(t) \/ Take(t)

Next ==
    \/ \E t \in Threads : Enter(t) \/ PopStep(t)
    \/ \E o \in Objects : Push(o)
    \/ Reset
    \/ \E count \in Holdings : SetMaxHoldingCount(count)

\* A thread in pop() that can run does; nobody has to call pop() or push().
Fairness == \A t \in Threads : WF_vars(PopStep(t))

Spec == Init /\ [][Next]_vars /\ Fairness

-----------------------------------------------------------------------------
(* Properties *)

\* The event is down exactly while a limited pool has nothing left: pop() never
\* spins on it and never sleeps beside an object (zfz_object_pool.hpp:141-148,
\* 181-188, 205-212).  An unlimited pool leaves it up.
EventMatches == event <=> available # 0

\* No object is in the pool twice, or in the pool and handed out.
NoDoubleHandOut ==
    /\ \A i, j \in DOMAIN idle : idle[i] = idle[j] => i = j
    /\ Elems(idle) \cap used = {}

\* A limited pool loses no permit: what is not handed out is available.
PermitsKept == limit >= 0 => available + Cardinality(used) >= limit

\* get_used_count() counts the objects handed out, until somebody trims.
UsedCounted == ~trimmed /\ limit >= 0 => limit - available = Cardinality(used)

\* A pool that nobody has trimmed never has more than its limit handed out,
\* although pop() decides whether to wait from an unlocked read
\* (zfz_object_pool.hpp:116).
UsedWithinLimit == ~trimmed /\ limit >= 0 => Cardinality(used) <= limit

\* What set_available_count() promises of any pool, trimmed or not: at most
\* the given number of objects is handed out (zfz_object_pool.hpp:108).
LimitObeyed == limit >= 0 => Cardinality(used) <= limit

\* No pop() stays inside while a limited pool keeps an object available and
\* new T() has an address left.
PopMeetsObject ==
    \A t \in Threads : []<>(available <= 0 \/ used = Objects \/ pc[t] = "out")
=============================================================================
