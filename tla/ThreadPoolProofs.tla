--------------------------- MODULE ThreadPoolProofs ---------------------------
(***************************************************************************)
(* Proofs about vega::ThreadPool, for any putters and doables and pools of *)
(* any size.  Why a destroyed pool is quiet: a thread is always one of the *)
(* pool_ that destroy() joins.  Why only overtaken puts leave anything:    *)
(* once end_ is set, every put() still on its way began before, and the    *)
(* queue was empty when destroy() began to join.                           *)
(***************************************************************************)
EXTENDS ThreadPool, TLAPS

ThreadsInPool ==
    /\ \A w \in Slots : wpc[w] # "none" => w < pool
    /\ mpc # "none" => pool > 0
    /\ opc = "create" => num \in Nums /\ pool <= num

\* A doable on its way into the queue is with one putter and nowhere else.
OnItsWay ==
    /\ \A p \in Putters :
          /\ ppc[p] = "put" <=> putting[p] # "none"
          /\ putting[p] \notin accepted \cup refused
    /\ \A p1, p2 \in Putters :
          p1 # p2 /\ putting[p1] # "none" => putting[p1] # putting[p2]

\* While end_ is set no put() is under way but those that destroy() overtook.
Overtaken ==
    /\ opc \in {"drain", "join"} \/ Down => end
    /\ end => \A p \in Putters : putting[p] # "none" => putting[p] \in raced
    /\ opc = "join" \/ Down => q \subseteq raced

IInv == TypeOK /\ ThreadsInPool /\ OnItsWay /\ Accounted /\ Overtaken

LEMMA SlotsAreNumbers == Slots \subseteq Nat
<1>1. PICK n \in Nums : \A m \in Nums : m <= n
    BY NumsAssumption
<1>2. (CHOOSE k \in Nums : \A m \in Nums : m <= k) \in Nums
    BY <1>1
<1> QED
    BY <1>2, NumsAssumption DEF Slots

LEMMA InitIInv == Init => IInv
<1> SUFFICES ASSUME Init PROVE IInv
    OBVIOUS
<1>1. TypeOK
    BY DEF Init, TypeOK, Jobs
<1>2. ThreadsInPool
    BY DEF Init, ThreadsInPool
<1>3. OnItsWay
    BY DEF Init, OnItsWay
<1>4. Accounted
    <2>1. {job[w] : w \in Slots} \ {"none"} = {}
        BY DEF Init
    <2> QED
        BY <2>1 DEF Init, Accounted
<1>5. Overtaken
    BY DEF Init, Overtaken
<1> QED
    BY <1>1, <1>2, <1>3, <1>4, <1>5 DEF IInv

\* put() touches neither the threads nor what they run.
LEMMA PutKeeps ==
    ASSUME IInv, NEW p \in Putters,
           \/ PutEnqueue(p) \/ PutFails(p)
           \/ \E d \in Doables : PutBegin(p, d) \/ PutRefused(p, d)
    PROVE  IInv'
<1>1. ThreadsInPool'
    BY DEF IInv, ThreadsInPool, PutEnqueue, PutFails, PutBegin, PutRefused,
           poolVars, workerVars, ownerVars
<1>2. CASE PutEnqueue(p)
    <2>1. putting[p] \in Doables /\ putting[p] \notin accepted \cup {"none"}
        BY <1>2 DEF PutEnqueue, IInv, TypeOK, OnItsWay, Jobs
    <2>2. TypeOK'
        BY <1>2, <2>1 DEF PutEnqueue, IInv, TypeOK, Jobs, workerVars, ownerVars
    <2>3. OnItsWay'
        BY <1>2, <2>1, DoablesAssumption DEF PutEnqueue, IInv, TypeOK, OnItsWay, Jobs
    <2>4. Accounted'
        BY <1>2, <2>1 DEF PutEnqueue, IInv, Accounted, workerVars
    <2>5. Overtaken'
        BY <1>2, <2>1 DEF PutEnqueue, IInv, TypeOK, Overtaken, Down, ownerVars
    <2> QED
        BY <1>1, <2>2, <2>3, <2>4, <2>5 DEF IInv
<1>3. CASE PutFails(p)
    <2>1. putting[p] \in Doables /\ putting[p] # "none"
        BY <1>3 DEF PutFails, IInv, TypeOK, OnItsWay, Jobs
    <2>2. TypeOK'
        BY <1>3, <2>1 DEF PutFails, IInv, TypeOK, Jobs, poolVars, workerVars, ownerVars
    <2>3. OnItsWay'
        BY <1>3, <2>1, DoablesAssumption DEF PutFails, IInv, TypeOK, OnItsWay, Jobs
    <2>4. Accounted'
        BY <1>3 DEF PutFails, IInv, Accounted, poolVars, workerVars
    <2>5. Overtaken'
        BY <1>3, <2>1 DEF PutFails, IInv, TypeOK, Overtaken, Down, poolVars, ownerVars
    <2> QED
        BY <1>1, <2>2, <2>3, <2>4, <2>5 DEF IInv
<1>4. ASSUME NEW d \in Doables, PutBegin(p, d)
      PROVE  IInv'
    <2>1. d # "none"
        BY DoablesAssumption
    <2>2. TypeOK'
        BY <1>4 DEF PutBegin, IInv, TypeOK, Jobs, poolVars, workerVars, ownerVars, history
    <2>3. OnItsWay'
        BY <1>4, <2>1 DEF PutBegin, New, IInv, TypeOK, OnItsWay, history
    <2>4. Accounted'
        BY <1>4 DEF PutBegin, IInv, Accounted, poolVars, workerVars, history
    <2>5. Overtaken'
        BY <1>4 DEF PutBegin, IInv, Overtaken, Down, poolVars, ownerVars, history
    <2> QED
        BY <1>1, <2>2, <2>3, <2>4, <2>5 DEF IInv
<1>5. ASSUME NEW d \in Doables, PutRefused(p, d)
      PROVE  IInv'
    <2>1. TypeOK' /\ Accounted' /\ Overtaken'
        BY <1>5 DEF PutRefused, IInv, TypeOK, Accounted, Overtaken, Down,
                    poolVars, workerVars, ownerVars, putterVars
    <2>2. OnItsWay'
        BY <1>5 DEF PutRefused, New, IInv, OnItsWay, putterVars
    <2> QED
        BY <1>1, <2>1, <2>2 DEF IInv
<1> QED
    BY <1>2, <1>3, <1>4, <1>5

\* create() and destroy()
LEMMA OwnerKeeps ==
    ASSUME IInv,
           \/ \E n \in Nums, m \in BOOLEAN : CreateBegin(n, m)
           \/ DestroyBegin \/ Owner
    PROVE  IInv'
<1>1. ASSUME NEW n \in Nums, NEW m \in BOOLEAN, CreateBegin(n, m)
      PROVE  IInv'
    <2>0. withMonitor' \in BOOLEAN /\ end' \in BOOLEAN
        BY <1>1, Zenon DEF CreateBegin
    <2>1. TypeOK'
        BY <1>1, <2>0, NumsAssumption
           DEF CreateBegin, IInv, TypeOK, workerVars, putterVars, history
    <2>2. ThreadsInPool'
        BY <1>1, NumsAssumption DEF CreateBegin, IInv, TypeOK, ThreadsInPool, workerVars
    <2>3. OnItsWay' /\ Accounted' /\ Overtaken'
        BY <1>1 DEF CreateBegin, IInv, OnItsWay, Accounted, Overtaken, Down,
                    workerVars, putterVars, history
    <2> QED
        BY <2>1, <2>2, <2>3 DEF IInv
<1>2. CASE CreateSingle
    <2>1. \A w \in Slots : w = pool => wpc[w] = "none" /\ job[w] = "none"
        BY DEF IInv, TypeOK, ThreadsInPool
    <2>2. TypeOK'
        <3>1. /\ wpc' \in [Slots -> {"none", "test", "deq", "run", "gone"}]
              /\ \A w \in Slots : wpc'[w] = IF w = pool THEN "test" ELSE wpc[w]
            BY <1>2 DEF CreateSingle, IInv, TypeOK
        <3>2. \A w \in Slots : wpc'[w] = "run" <=> job'[w] # "none"
            BY <1>2, <2>1, <3>1 DEF CreateSingle, IInv, TypeOK
        <3> QED
            BY <1>2, <3>1, <3>2
               DEF CreateSingle, IInv, TypeOK, ownerVars, putterVars, history
    <2>3. ThreadsInPool'
        BY <1>2, SlotsAreNumbers, NumsAssumption
           DEF CreateSingle, IInv, TypeOK, ThreadsInPool, ownerVars
    <2>4. OnItsWay' /\ Accounted' /\ Overtaken'
        BY <1>2 DEF CreateSingle, IInv, OnItsWay, Accounted, Overtaken, Down,
                    ownerVars, putterVars, history
    <2> QED
        BY <2>2, <2>3, <2>4 DEF IInv
<1>3. CASE CreateEnd
    <2>0. pool = num /\ opc = "create"
        BY <1>3, Zenon DEF CreateEnd
    <2>1. pool > 0 /\ opc = "create"
        <3>1. num \in Nums
            BY <2>0 DEF IInv, ThreadsInPool
        <3> QED
            BY <2>0, <3>1, NumsAssumption
    <2>2. TypeOK'
        <3>1. mpc' \in {"test", mpc}
            BY <1>3, Zenon DEF CreateEnd
        <3>2. UNCHANGED <<poolVars, workerVars, num, withMonitor, putterVars, history>>
              /\ opc' = "idle"
            BY <1>3, Zenon DEF CreateEnd
        <3> QED
            BY <3>1, <3>2 DEF IInv, TypeOK, poolVars, workerVars, putterVars, history
    <2>3. ThreadsInPool'
        BY <1>3, <2>1 DEF CreateEnd, IInv, ThreadsInPool, poolVars, workerVars
    <2>4. OnItsWay' /\ Accounted' /\ Overtaken'
        BY <1>3, <2>1 DEF CreateEnd, IInv, OnItsWay, Accounted, Overtaken, Down,
                          poolVars, workerVars, putterVars, history
    <2> QED
        BY <2>2, <2>3, <2>4 DEF IInv
<1>4. CASE DestroyBegin
    <2>1. TypeOK'
        BY <1>4 DEF DestroyBegin, IInv, TypeOK, Jobs, workerVars, putterVars
    <2>2. ThreadsInPool' /\ OnItsWay' /\ Accounted'
        BY <1>4 DEF DestroyBegin, IInv, ThreadsInPool, OnItsWay, Accounted,
                    workerVars, putterVars
    <2>3. Overtaken'
        BY <1>4 DEF DestroyBegin, IInv, Overtaken, Down, putterVars
    <2> QED
        BY <2>1, <2>2, <2>3 DEF IInv
<1>5. CASE Drain
    <2>1. PICK d \in q : q' = q \ {d} /\ drained' = drained \cup {d}
        BY <1>5 DEF Drain
    <2>2. TypeOK'
        BY <1>5, <2>1 DEF Drain, IInv, TypeOK, workerVars, ownerVars, putterVars
    <2>3. ThreadsInPool' /\ OnItsWay' /\ Overtaken'
        BY <1>5, <2>1 DEF Drain, IInv, ThreadsInPool, OnItsWay, Overtaken, Down,
                          workerVars, ownerVars, putterVars
    <2>4. Accounted'
        BY <1>5, <2>1 DEF Drain, IInv, Accounted, workerVars
    <2> QED
        BY <2>2, <2>3, <2>4 DEF IInv
<1>6. CASE DrainEnd
    BY <1>6 DEF DrainEnd, IInv, TypeOK, ThreadsInPool, OnItsWay, Accounted, Overtaken,
                Down, poolVars, workerVars, putterVars, history
<1>7. CASE Join
    <2>1. \A w \in Slots : wpc'[w] = "none" /\ job[w] = "none"
        BY <1>7 DEF Join, Joinable, IInv, TypeOK, ThreadsInPool
    <2>2. TypeOK'
        BY <1>7, <2>1 DEF Join, IInv, TypeOK, putterVars, history
    <2>3. ThreadsInPool'
        BY <1>7, <2>1 DEF Join, IInv, ThreadsInPool
    <2>4. OnItsWay' /\ Accounted' /\ Overtaken'
        BY <1>7 DEF Join, IInv, OnItsWay, Accounted, Overtaken, Down, putterVars, history
    <2> QED
        BY <2>2, <2>3, <2>4 DEF IInv
<1> QED
    BY <1>1, <1>2, <1>3, <1>4, <1>5, <1>6, <1>7 DEF Owner

\* work() and monitor()
LEMMA WorkerKeeps ==
    ASSUME IInv, NEW w \in Slots, Worker(w)
    PROVE  IInv'
<1>1. OnItsWay' /\ pool' = pool /\ opc' = opc /\ num' = num /\ mpc' = mpc
    BY DEF Worker, Test, Dequeue, DequeueTimeOut, Finish, IInv, OnItsWay,
           poolVars, ownerVars, putterVars, history
<1>2. ThreadsInPool'
    BY <1>1 DEF Worker, Test, Dequeue, DequeueTimeOut, Finish, IInv, TypeOK, ThreadsInPool
<1>3. Overtaken'
    BY DEF Worker, Test, Dequeue, DequeueTimeOut, Finish, IInv, Overtaken, Down,
           poolVars, ownerVars, putterVars, history
<1>4. CASE Test(w) \/ DequeueTimeOut(w)
    <2>1. TypeOK' /\ Accounted'
        BY <1>4 DEF Test, DequeueTimeOut, IInv, TypeOK, Accounted,
                    poolVars, ownerVars, putterVars, history
    <2> QED
        BY <1>1, <1>2, <1>3, <2>1 DEF IInv
<1>5. CASE Dequeue(w)
    <2>1. PICK d \in q : q' = q \ {d} /\ job' = [job EXCEPT ![w] = d]
        BY <1>5 DEF Dequeue
    <2>2. d \in Doables /\ d # "none" /\ job[w] = "none"
        BY <1>5, <2>1, DoablesAssumption DEF Dequeue, IInv, TypeOK
    <2>3. TypeOK'
        BY <1>5, <2>1, <2>2 DEF Dequeue, IInv, TypeOK, Jobs, ownerVars, putterVars, history
    <2>4. {job'[v] : v \in Slots} \ {"none"} = ({job[v] : v \in Slots} \ {"none"}) \cup {d}
        BY <2>1, <2>2 DEF IInv, TypeOK
    <2>5. Accounted'
        BY <1>5, <2>1, <2>2, <2>4 DEF Dequeue, IInv, TypeOK, Accounted, history
    <2> QED
        BY <1>1, <1>2, <1>3, <2>3, <2>5 DEF IInv
<1>6. CASE Finish(w)
    <2>1. job[w] \in Doables /\ job[w] # "none"
        BY <1>6 DEF Finish, IInv, TypeOK, Jobs
    <2>2. TypeOK'
        BY <1>6, <2>1 DEF Finish, IInv, TypeOK, Jobs, poolVars, ownerVars, putterVars
    <2>3. {job'[v] : v \in Slots} \ {"none"} =
              ({job[v] : v \in Slots} \ {"none"}) \ {job[w]}
        BY <1>6, <2>1 DEF Finish, IInv, TypeOK, Accounted
    <2>4. Accounted'
        <3>1. /\ q' = q /\ accepted' = accepted /\ drained' = drained
              /\ ran' = ran \cup {job[w]}
              /\ \A v \in Slots : job'[v] = IF v = w THEN "none" ELSE job[v]
            BY <1>6 DEF Finish, IInv, TypeOK, poolVars
        <3>2. job[w] \notin q \cup ran \cup drained
            BY DEF IInv, Accounted
        <3>3. accepted' = q' \cup ran' \cup drained' \cup ({job'[v] : v \in Slots} \ {"none"})
            BY <2>1, <2>3, <3>1 DEF IInv, Accounted
        <3>4. "none" \notin q' \cup ran' \cup drained'
            BY <2>2, DoablesAssumption DEF TypeOK
        <3> QED
            BY <2>1, <3>1, <3>2, <3>3, <3>4 DEF IInv, Accounted
    <2> QED
        BY <1>1, <1>2, <1>3, <2>2, <2>4 DEF IInv
<1> QED
    BY <1>4, <1>5, <1>6 DEF Worker

LEMMA StepIInv == IInv /\ [Next]_vars => IInv'
<1> SUFFICES ASSUME IInv, [Next]_vars PROVE IInv'
    OBVIOUS
<1>1. CASE \E p \in Putters : PutEnqueue(p) \/ PutFails(p)
    BY <1>1, PutKeeps
<1>2. CASE \E p \in Putters, d \in Doables : PutBegin(p, d) \/ PutRefused(p, d)
    BY <1>2, PutKeeps
<1>3. CASE \/ \E n \in Nums, m \in BOOLEAN : CreateBegin(n, m)
           \/ DestroyBegin \/ Owner
    BY <1>3, OwnerKeeps
<1>4. CASE \E w \in Slots : Worker(w)
    BY <1>4, WorkerKeeps
<1>5. CASE Monitor
    BY <1>5 DEF Monitor, IInv, TypeOK, ThreadsInPool, OnItsWay, Accounted, Overtaken, Down,
                poolVars, workerVars, ownerVars, putterVars, history
<1>6. CASE UNCHANGED vars
    BY <1>6 DEF vars, IInv, TypeOK, ThreadsInPool, OnItsWay, Accounted, Overtaken, Down,
                poolVars, workerVars, ownerVars, putterVars, history
<1> QED
    BY <1>1, <1>2, <1>3, <1>4, <1>5, <1>6 DEF Next

LEMMA Invariance == Spec => []IInv
BY InitIInv, StepIInv, PTL DEF Spec

\* put() answers OK for a doable that is then in exactly one place: queued, held
\* by one thread, run or drained, through any number of pools.
THEOREM AccountedTheorem == Spec => []Accounted
<1>1. IInv => Accounted
    BY DEF IInv
<1> QED
    BY <1>1, Invariance, PTL

\* Between destroy() and the next create() no thread of the pool exists.
THEOREM QuietTheorem == Spec => []QuietWhenDown
<1>1. IInv => QuietWhenDown
    BY SlotsAreNumbers DEF IInv, TypeOK, ThreadsInPool, QuietWhenDown, Down
<1> QED
    BY <1>1, Invariance, PTL

\* What a destroyed pool still holds was put by a put() that destroy() overtook.
THEOREM LeftOverTheorem == Spec => []LeftOverRaced
<1>1. IInv => LeftOverRaced
    BY DEF IInv, Overtaken, LeftOverRaced
<1> QED
    BY <1>1, Invariance, PTL
=============================================================================
