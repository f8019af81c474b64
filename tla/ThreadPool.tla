----------------------------- MODULE ThreadPool -----------------------------
(***************************************************************************)
(* vega::ThreadPool (include/station/thread_pool.h): create() starts       *)
(* threads that run the doables put into one concurrent queue, destroy()   *)
(* ends them, and the pool may be created again.                           *)
(*                                                                         *)
(* One thread, the owner, calls create() and destroy(); opc says where:    *)
(*    "idle"   in neither                                                  *)
(*    "create" in the loop over createSingle()                             *)
(*    "drain"  destroy() is emptying q_                                    *)
(*    "join"   destroy() is joining the threads                            *)
(* wpc[w], for the thread with seq w: "none", "test" (about to read end_), *)
(* "deq" (in wait_dequeue_timed()), "run" (in start()), "gone" (returned). *)
(* mpc, for monitor_: "none", "test", "sleep" or "gone".                   *)
(* ppc[p], for a thread that calls put(): "idle", or "put" between reading *)
(* end_ and enqueue().                                                     *)
(* q_ is a moodycamel queue: it keeps no order between producers, so it is *)
(* a set.  end_ is a plain bool read without a lock; every loop calls into *)
(* another library between two reads, so each read is a load of its own.   *)
(***************************************************************************)
EXTENDS Integers, FiniteSets

CONSTANTS
    Putters,        \* the threads that call put()
    Doables,        \* what they put, each once
    Nums,           \* the num passed to create()
    MaxCreates      \* bound on the calls of create(), for model checking

ASSUME NumsAssumption ==
    Nums \subseteq Nat \ {0} /\ \E n \in Nums : \A m \in Nums : m <= n
ASSUME DoablesAssumption == "none" \notin Doables /\ IsFiniteSet(Doables)
ASSUME MaxCreatesAssumption == MaxCreates \in Nat

VARIABLES
    end,            \* end_
    pool,           \* the length of pool_
    q,              \* q_
    wpc, job,       \* each thread: where it is and its obj
    mpc,            \* monitor_
    opc, num, withMonitor,              \* the owner and its arguments
    ppc, putting,   \* each putter and its doable
    creates,        \* counts create(), for the bound
    accepted, refused, ran, drained,    \* history: what became of each doable
    raced           \* history: accepted by a put() that destroy() overtook

Slots == 0 .. (CHOOSE n \in Nums : \A m \in Nums : m <= n) - 1

poolVars == <<end, pool, q, creates>>
workerVars == <<wpc, job>>
ownerVars == <<opc, num, withMonitor>>
putterVars == <<ppc, putting>>
history == <<accepted, refused, ran, drained, raced>>
vars == <<poolVars, workerVars, mpc, ownerVars, putterVars, history>>

Jobs == Doables \cup {"none"}

TypeOK ==
    /\ end \in BOOLEAN /\ pool \in Nat /\ q \subseteq Doables /\ creates \in Nat
    /\ wpc \in [Slots -> {"none", "test", "deq", "run", "gone"}]
    /\ job \in [Slots -> Jobs]
    /\ \A w \in Slots : wpc[w] = "run" <=> job[w] # "none"
    /\ mpc \in {"none", "test", "sleep", "gone"}
    /\ opc \in {"idle", "create", "drain", "join"}
    /\ num \in Nat /\ withMonitor \in BOOLEAN
    /\ ppc \in [Putters -> {"idle", "put"}] /\ putting \in [Putters -> Jobs]
    /\ accepted \subseteq Doables /\ refused \subseteq Doables
    /\ ran \subseteq Doables /\ drained \subseteq Doables
    /\ raced \subseteq Doables

Init ==
    /\ end = TRUE /\ pool = 0 /\ q = {} /\ creates = 0
    /\ wpc = [w \in Slots |-> "none"] /\ job = [w \in Slots |-> "none"]
    /\ mpc = "none"
    /\ opc = "idle" /\ num = 0 /\ withMonitor = FALSE
    /\ ppc = [p \in Putters |-> "idle"] /\ putting = [p \in Putters |-> "none"]
    /\ accepted = {} /\ refused = {} /\ ran = {} /\ drained = {} /\ raced = {}

-----------------------------------------------------------------------------
(* put() *)

New(d) == /\ d \notin accepted \cup refused
          /\ \A p \in Putters : putting[p] # d

\* end_ reads false.
PutBegin(p, d) ==
    /\ ppc[p] = "idle" /\ New(d) /\ ~end
    /\ ppc' = [ppc EXCEPT ![p] = "put"]
    /\ putting' = [putting EXCEPT ![p] = d]
    /\ UNCHANGED <<poolVars, workerVars, mpc, ownerVars, history>>

PutRefused(p, d) ==
    /\ ppc[p] = "idle" /\ New(d) /\ end
    /\ refused' = refused \cup {d}
    /\ UNCHANGED <<poolVars, workerVars, mpc, ownerVars, putterVars>>
    /\ UNCHANGED <<accepted, ran, drained, raced>>

PutEnqueue(p) ==
    /\ ppc[p] = "put"
    /\ q' = q \cup {putting[p]}
    /\ accepted' = accepted \cup {putting[p]}
    /\ ppc' = [ppc EXCEPT ![p] = "idle"]
    /\ putting' = [putting EXCEPT ![p] = "none"]
    /\ UNCHANGED <<end, pool, creates, workerVars, mpc, ownerVars>>
    /\ UNCHANGED <<refused, ran, drained, raced>>

\* enqueue() found no memory: DG_ERR_SERVICE_NOT_AVAILABLE.
PutFails(p) ==
    /\ ppc[p] = "put"
    /\ refused' = refused \cup {putting[p]}
    /\ ppc' = [ppc EXCEPT ![p] = "idle"]
    /\ putting' = [putting EXCEPT ![p] = "none"]
    /\ UNCHANGED <<poolVars, workerVars, mpc, ownerVars>>
    /\ UNCHANGED <<accepted, ran, drained, raced>>

-----------------------------------------------------------------------------
(* create() *)

\* A pool that has threads is left as it is ("Duplicate create thread pool").
CreateBegin(n, m) ==
    /\ opc = "idle" /\ creates < MaxCreates /\ pool = 0
    /\ end' = FALSE
    /\ opc' = "create" /\ num' = n /\ withMonitor' = m
    /\ creates' = creates + 1
    /\ UNCHANGED <<pool, q, workerVars, mpc, putterVars, history>>

CreateSingle ==
    /\ opc = "create" /\ pool < num
    /\ wpc' = [wpc EXCEPT ![pool] = "test"]
    /\ pool' = pool + 1
    /\ UNCHANGED <<end, q, creates, job, mpc, ownerVars, putterVars, history>>

CreateEnd ==
    /\ opc = "create" /\ pool = num
    /\ mpc' = IF withMonitor THEN "test" ELSE mpc
    /\ opc' = "idle"
    /\ UNCHANGED <<poolVars, workerVars, num, withMonitor, putterVars, history>>

-----------------------------------------------------------------------------
(* destroy() *)

DestroyBegin_KeepsEnd ==
    /\ opc = "idle"
    /\ opc' = "drain"
    /\ UNCHANGED <<poolVars, workerVars, mpc, num, withMonitor, putterVars>>
    /\ UNCHANGED history

DestroyBegin ==
    /\ opc = "idle"
    /\ end' = TRUE
    /\ opc' = "drain"
    /\ raced' = raced \cup ({putting[p] : p \in Putters} \ {"none"})
    /\ UNCHANGED <<pool, q, creates, workerVars, mpc, num, withMonitor>>
    /\ UNCHANGED <<putterVars, accepted, refused, ran, drained>>

\* try_dequeue() found one.
Drain ==
    /\ opc = "drain"
    /\ \E d \in q : q' = q \ {d} /\ drained' = drained \cup {d}
    /\ UNCHANGED <<end, pool, creates, workerVars, mpc, ownerVars, putterVars>>
    /\ UNCHANGED <<accepted, refused, ran, raced>>

DrainEnd_Early ==
    /\ opc = "drain"
    /\ opc' = "join"
    /\ UNCHANGED <<poolVars, workerVars, mpc, num, withMonitor, putterVars>>
    /\ UNCHANGED history

\* try_dequeue() found none.
DrainEnd ==
    /\ opc = "drain" /\ q = {}
    /\ opc' = "join"
    /\ UNCHANGED <<poolVars, workerVars, mpc, num, withMonitor, putterVars>>
    /\ UNCHANGED history

Joinable_NotLast == \A w \in Slots : w < pool - 1 => wpc[w] = "gone"

Joinable == \A w \in Slots : w < pool => wpc[w] = "gone"

\* The threads are joined in turn, then the monitor; pool_ is cleared last.
Join ==
    /\ opc = "join"
    /\ Joinable
    /\ mpc \in {"none", "gone"}
    /\ wpc' = [w \in Slots |-> IF w < pool /\ wpc[w] = "gone" THEN "none" ELSE wpc[w]]
    /\ mpc' = "none"
    /\ pool' = 0
    /\ opc' = "idle"
    /\ UNCHANGED <<end, q, creates, job, num, withMonitor, putterVars, history>>

-----------------------------------------------------------------------------
(* work(), monitor() *)

Test(w) ==
    /\ wpc[w] = "test"
    /\ wpc' = [wpc EXCEPT ![w] = IF end THEN "gone" ELSE "deq"]
    /\ UNCHANGED <<poolVars, job, mpc, ownerVars, putterVars, history>>

Dequeue_Peeks(w) ==
    /\ wpc[w] = "deq"
    /\ \E d \in q : job' = [job EXCEPT ![w] = d]
    /\ wpc' = [wpc EXCEPT ![w] = "run"]
    /\ UNCHANGED <<poolVars, mpc, ownerVars, putterVars, history>>

Dequeue(w) ==
    /\ wpc[w] = "deq"
    /\ \E d \in q : q' = q \ {d} /\ job' = [job EXCEPT ![w] = d]
    /\ wpc' = [wpc EXCEPT ![w] = "run"]
    /\ UNCHANGED <<end, pool, creates, mpc, ownerVars, putterVars, history>>

\* 50 ms without a doable.
DequeueTimeOut(w) ==
    /\ wpc[w] = "deq" /\ q = {}
    /\ wpc' = [wpc EXCEPT ![w] = "test"]
    /\ UNCHANGED <<poolVars, job, mpc, ownerVars, putterVars, history>>

Finish_Returns(w) ==
    /\ wpc[w] = "run"
    /\ ran' = ran \cup {job[w]}
    /\ job' = [job EXCEPT ![w] = "none"]
    /\ wpc' = [wpc EXCEPT ![w] = "gone"]
    /\ UNCHANGED <<poolVars, mpc, ownerVars, putterVars>>
    /\ UNCHANGED <<accepted, refused, drained, raced>>

\* start() returns.
Finish(w) ==
    /\ wpc[w] = "run"
    /\ ran' = ran \cup {job[w]}
    /\ job' = [job EXCEPT ![w] = "none"]
    /\ wpc' = [wpc EXCEPT ![w] = "test"]
    /\ UNCHANGED <<poolVars, mpc, ownerVars, putterVars>>
    /\ UNCHANGED <<accepted, refused, drained, raced>>

\* One round of the monitor only writes the log.
Monitor ==
    /\ mpc \in {"test", "sleep"}
    /\ mpc' = IF mpc = "sleep" THEN "test" ELSE IF end THEN "gone" ELSE "sleep"
    /\ UNCHANGED <<poolVars, workerVars, ownerVars, putterVars, history>>

-----------------------------------------------------------------------------
Owner == CreateSingle \/ CreateEnd \/ Drain \/ DrainEnd \/ Join

Worker(w) == Test(w) \/ Dequeue(w) \/ DequeueTimeOut(w) \/ Finish(w)

Next ==
    \/ \E p \in Putters : PutEnqueue(p) \/ PutFails(p)
    \/ \E p \in Putters, d \in Doables : PutBegin(p, d) \/ PutRefused(p, d)
    \/ \E n \in Nums, m \in BOOLEAN : CreateBegin(n, m)
    \/ DestroyBegin
    \/ Owner
    \/ \E w \in Slots : Worker(w)
    \/ Monitor

\* Threads that can run do, and every doable's start() returns.  Nobody has to
\* put anything, or to create or destroy the pool.
Fairness ==
    /\ WF_vars(Owner) /\ WF_vars(Monitor)
    /\ \A w \in Slots : WF_vars(Worker(w))
    /\ \A p \in Putters : WF_vars(PutEnqueue(p) \/ PutFails(p))

Spec == Init /\ [][Next]_vars /\ Fairness

-----------------------------------------------------------------------------
(* Properties *)

Down == opc = "idle" /\ pool = 0

\* Between destroy() and the next create() no thread of the pool exists.
QuietWhenDown ==
    Down => /\ \A w \in Slots : wpc[w] = "none"
            /\ mpc = "none"

\* put() answers OK for a doable that is then queued, run or drained, and never
\* two of these (thread_pool.h:85-88, 101-115, 151-166).
Accounted ==
    /\ accepted = q \cup ran \cup drained \cup ({job[w] : w \in Slots} \ {"none"})
    /\ q \cap (ran \cup drained) = {} /\ ran \cap drained = {}
    /\ \A w \in Slots : job[w] \notin q \cup ran \cup drained
    /\ \A v, w \in Slots : v # w /\ job[v] # "none" => job[v] # job[w]

\* What a destroyed pool still holds was put by a put() that destroy() overtook:
\* put() reads end_ and enqueues in two steps.  The next create() runs it.
LeftOverRaced == Down => q \subseteq raced

\* destroy() returns.
DestroyReturns == opc \in {"drain", "join"} ~> opc = "idle"

\* A doable that is queued while the pool stays up is run.
QueuedRuns ==
    \A d \in Doables : (d \in q /\ pool > 0) ~> (d \in ran \/ end)
=============================================================================
