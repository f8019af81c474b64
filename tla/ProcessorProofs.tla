---------------------------- MODULE ProcessorProofs ----------------------------
(***************************************************************************)
(* Proofs about zfz::Processor<T>, for every graph of processors, any      *)
(* finite set of workers, any queue and batch size: its types, the counts  *)
(* of queue and semaphore, the threads, the order of the queue, where the  *)
(* tasks are, and the buffer they make of it.                              *)
(***************************************************************************)
EXTENDS Processor, FiniteSetTheorems, SequenceTheorems, TLAPS

\* What an owner in the middle of a call has to go on with.
CallGood(c, s) ==
    /\ s # "idle" => c.proc \in Processors
    /\ s \in {"signal", "join"} => c.targets # <<>>
    /\ s \in {"await", "end"} => c.left > 0

CallOK == \A o \in Owners : CallGood(call[o], opc[o])

TypeInv == TypeOK /\ CallOK

-----------------------------------------------------------------------------
(* The operators on sequences *)

LEMMA SortKeepsLength ==
    ASSUME NEW s \in Seq(Tasks), NEW q \in StableSorts(s)
    PROVE  q \in Seq(Tasks) /\ Len(q) = Len(s)
<1>1. PICK f \in [DOMAIN s -> DOMAIN s] : q = [i \in DOMAIN s |-> s[f[i]]]
    BY DEF StableSorts
<1>2. DOMAIN s = 1 .. Len(s) /\ Len(s) \in Nat
    OBVIOUS
<1>3. \A i \in 1 .. Len(s) : s[f[i]] \in Tasks
    BY <1>2
<1>4. q \in [1 .. Len(s) -> Tasks]
    BY <1>1, <1>2, <1>3
<1> QED
    BY <1>2, <1>4, SeqDef, LenProperties

LEMMA SortedQueueType ==
    ASSUME QueueTypes, NEW p \in Processors, NEW q \in SortedQueue(p)
    PROVE  q \in Seq(Tasks) /\ Len(q) = Len(queue[p])
BY SortKeepsLength DEF SortedQueue, QueueTypes

LEMMA LoweredType ==
    ASSUME NEW n \in Nat, NEW k \in Nat
    PROVE  Lowered(n, k) \in Nat /\ Lowered(n, k) >= n - k
BY DEF Lowered

LEMMA SplitType ==
    ASSUME NEW q \in Seq(Tasks), BatchSize \in 0 .. Len(q)
    PROVE  /\ SubSeq(q, 1, BatchSize) \in Seq(Tasks)
           /\ Rest(q) \in Seq(Tasks)
           /\ Len(Rest(q)) = Len(q) - BatchSize
<1>1. \A i \in 1 .. Len(q) : q[i] \in Tasks
    OBVIOUS
<1>2. SubSeq(q, 1, BatchSize) \in Seq(Tasks)
    BY <1>1, SubSeqProperties
<1>3. /\ Rest(q) \in Seq(Tasks)
      /\ Len(Rest(q)) = IF BatchSize + 1 <= Len(q)
                        THEN Len(q) - (BatchSize + 1) + 1 ELSE 0
    BY <1>1, SubSeqProperties DEF Rest
<1> QED
    BY <1>2, <1>3

LEMMA ElemsType ==
    ASSUME NEW ts \in Seq(Tasks)
    PROVE  Elems(ts) \subseteq Tasks
BY DEF Elems

-----------------------------------------------------------------------------
(* What a step that leaves a group of variables alone keeps *)

LEMMA KeepQueue ==
    ASSUME QueueTypes, UNCHANGED queueVars PROVE QueueTypes'
BY DEF QueueTypes, queueVars

LEMMA KeepThreads ==
    ASSUME ThreadTypes, UNCHANGED threadVars PROVE ThreadTypes'
BY DEF ThreadTypes, threadVars

LEMMA KeepWorkers ==
    ASSUME WorkerTypes, UNCHANGED workerVars PROVE WorkerTypes'
BY DEF WorkerTypes, workerVars

LEMMA KeepOwners ==
    ASSUME OwnerTypes, CallOK, UNCHANGED ownerVars PROVE OwnerTypes' /\ CallOK'
BY DEF OwnerTypes, CallOK, ownerVars

LEMMA KeepHistory ==
    ASSUME HistoryTypes, UNCHANGED history PROVE HistoryTypes'
BY DEF HistoryTypes, history

\* An owner's step writes its own call and its own state.
LEMMA CallStep ==
    ASSUME OwnerTypes, CallOK, NEW o \in Owners,
           NEW c \in Calls, NEW s \in OwnerStates, CallGood(c, s),
           call' = [call EXCEPT ![o] = c], opc' = [opc EXCEPT ![o] = s]
    PROVE  OwnerTypes' /\ CallOK'
BY DEF OwnerTypes, CallOK

-----------------------------------------------------------------------------
(* Type correctness, and what calls in progress need *)

LEMMA TypeInit == Init => TypeInv
<1> SUFFICES ASSUME Init PROVE TypeInv
    OBVIOUS
<1>1. QueueTypes /\ ThreadTypes /\ HistoryTypes
    BY DEF Init, QueueTypes, ThreadTypes, HistoryTypes
<1>2. WorkerTypes
    BY DEF Init, WorkerTypes, WorkerStates, Results
<1>3. OwnerTypes /\ CallOK
    BY DEF Init, OwnerTypes, OwnerStates, Calls, CallOK, CallGood
<1> QED
    BY <1>1, <1>2, <1>3 DEF TypeInv, TypeOK

LEMMA PushToType ==
    ASSUME QueueTypes, HistoryTypes,
           NEW p \in Processors, NEW ts \in Seq(Tasks), PushTo(p, ts),
           UNCHANGED <<done, dropped>>
    PROVE  QueueTypes' /\ HistoryTypes'
<1>1. CASE PushAccept(p, ts)
    BY <1>1 DEF PushAccept, Posted, Unsorts, QueueTypes, HistoryTypes
<1>2. CASE PushRefuse(p, ts)
    BY <1>2, ElemsType DEF PushRefuse, QueueTypes, HistoryTypes
<1> QED
    BY <1>1, <1>2 DEF PushTo

LEMMA TypePush ==
    ASSUME TypeInv, NEW p \in Processors, NEW ts \in Seq(Tasks), Push(p, ts)
    PROVE  TypeInv'
BY PushToType, KeepThreads, KeepWorkers, KeepOwners DEF Push, TypeInv, TypeOK

\* pop_task() needs the size it keeps beside the list to be right.
LEMMA TypePop ==
    ASSUME TypeInv, QueueBounded, NEW w \in Workers, PopStep(w)
    PROVE  TypeInv'
<1> DEFINE p == Home[w]
<1>0. p \in Processors
    BY HomeAssumption
<1>1. CASE Take(w)
    <2>1. signals[p] - 1 \in Nat
        BY <1>0, <1>1 DEF Take, TypeInv, TypeOK, QueueTypes
    <2>2. QueueTypes'
        BY <1>0, <1>1, <2>1 DEF Take, TypeInv, TypeOK, QueueTypes
    <2>3. WorkerTypes'
        BY <1>1 DEF Take, TypeInv, TypeOK, WorkerTypes, WorkerStates
    <2> QED
        BY <1>1, <2>2, <2>3, KeepThreads, KeepOwners, KeepHistory
        DEF Take, TypeInv, TypeOK
<1>2. CASE TimeOut(w)
    <2>1. WorkerTypes'
        BY <1>2 DEF TimeOut, PopReturn, TypeInv, TypeOK, WorkerTypes,
                    WorkerStates, Results
    <2> QED
        BY <1>2, <2>1, KeepQueue, KeepThreads, KeepOwners, KeepHistory
        DEF TimeOut, PopReturn, TypeInv, TypeOK
<1>3. CASE PopEmpty(w)
    <2>1. WorkerTypes'
        BY <1>3 DEF PopEmpty, PopReturn, TypeInv, TypeOK, WorkerTypes,
                    WorkerStates, Results
    <2>2. QueueTypes'
        BY <1>3 DEF PopEmpty, TypeInv, TypeOK, QueueTypes
    <2> QED
        BY <1>3, <2>1, <2>2, KeepThreads, KeepOwners, KeepHistory
        DEF PopEmpty, PopReturn, TypeInv, TypeOK
<1>4. CASE PopBatch(w)
    <2>1. PICK q \in SortedQueue(p) :
            /\ tasks' = [tasks EXCEPT ![w] = SubSeq(q, 1, BatchSize)]
            /\ queue' = [queue EXCEPT ![p] = Rest(q)]
        BY <1>4 DEF PopBatch
    <2>2. q \in Seq(Tasks) /\ Len(q) = size[p]
        BY <1>0, <2>1, SortedQueueType DEF TypeInv, TypeOK, QueueBounded
    <2>3. BatchSize \in 0 .. Len(q) /\ BatchSize - 1 \in Nat
        BY <1>4, <2>2, BatchSizeAssumption, LenProperties DEF PopBatch
    <2>4. SubSeq(q, 1, BatchSize) \in Seq(Tasks) /\ Rest(q) \in Seq(Tasks)
        BY <2>2, <2>3, SplitType
    <2>5. size[p] - BatchSize \in Nat
        BY <1>0, <2>2, <2>3 DEF TypeInv, TypeOK, QueueTypes
    <2>6. Lowered(signals[p], BatchSize - 1) \in Nat
        BY <1>0, <2>3, LoweredType DEF TypeInv, TypeOK, QueueTypes
    <2>7. QueueTypes'
        BY <1>0, <1>4, <2>1, <2>4, <2>5, <2>6
        DEF PopBatch, TypeInv, TypeOK, QueueTypes
    <2>8. WorkerTypes'
        BY <1>4, <2>1, <2>4 DEF PopBatch, PopReturn, TypeInv, TypeOK,
                                WorkerTypes, WorkerStates, Results
    <2> QED
        BY <1>4, <2>7, <2>8, KeepThreads, KeepOwners, KeepHistory
        DEF PopBatch, PopReturn, TypeInv, TypeOK
<1>5. CASE PopRest(w)
    <2>1. PICK q \in SortedQueue(p) : tasks' = [tasks EXCEPT ![w] = q]
        BY <1>5 DEF PopRest
    <2>2. q \in Seq(Tasks)
        BY <1>0, <2>1, SortedQueueType DEF TypeInv, TypeOK
    <2>3. QueueTypes'
        BY <1>0, <1>5 DEF PopRest, TypeInv, TypeOK, QueueTypes
    <2>4. WorkerTypes'
        BY <1>5, <2>1, <2>2 DEF PopRest, PopReturn, TypeInv, TypeOK,
                                WorkerTypes, WorkerStates, Results
    <2> QED
        BY <1>5, <2>3, <2>4, KeepThreads, KeepOwners, KeepHistory
        DEF PopRest, PopReturn, TypeInv, TypeOK
<1> QED
    BY <1>1, <1>2, <1>3, <1>4, <1>5 DEF PopStep

LEMMA TypeWorker ==
    ASSUME TypeInv, QueueBounded, NEW w \in Workers, WorkerStep(w)
    PROVE  TypeInv'
<1>0. /\ Home[w] \in Processors
      /\ Elems(tasks[w]) \subseteq Tasks
    BY HomeAssumption, ElemsType DEF TypeInv, TypeOK, WorkerTypes
<1>1. CASE Start(w)
    <2>1. WorkerTypes' /\ ThreadTypes'
        BY <1>1 DEF Start, TypeInv, TypeOK, WorkerTypes, ThreadTypes,
                    WorkerStates
    <2> QED
        BY <1>1, <2>1, KeepQueue, KeepOwners, KeepHistory
        DEF Start, TypeInv, TypeOK
<1>2. CASE PopStep(w)
    BY <1>2, TypePop
<1>3. CASE Quit(w)
    <2>1. WorkerTypes' /\ HistoryTypes'
        BY <1>0, <1>3 DEF Quit, TypeInv, TypeOK, WorkerTypes, HistoryTypes,
                          WorkerStates
    <2> QED
        BY <1>3, <2>1, KeepQueue, KeepThreads, KeepOwners
        DEF Quit, TypeInv, TypeOK
<1>4. CASE Handle(w)
    <2>1. WorkerTypes' /\ HistoryTypes'
        BY <1>0, <1>4 DEF Handle, TypeInv, TypeOK, WorkerTypes, HistoryTypes,
                          WorkerStates
    <2> QED
        BY <1>4, <2>1, KeepQueue, KeepThreads, KeepOwners
        DEF Handle, TypeInv, TypeOK
<1>5. CASE Ignore(w)
    <2>1. WorkerTypes'
        BY <1>5 DEF Ignore, TypeInv, TypeOK, WorkerTypes, WorkerStates
    <2> QED
        BY <1>5, <2>1, KeepQueue, KeepThreads, KeepOwners, KeepHistory
        DEF Ignore, TypeInv, TypeOK
<1>6. CASE FanOut(w)
    <2>1. NextProcessors(w) \in Seq(Processors) /\ fan[w] \in DOMAIN NextProcessors(w)
        BY <1>0, <1>6, NextAssumption DEF FanOut, NextProcessors
    <2>2. NextProcessors(w)[fan[w]] \in Processors /\ tasks[w] \in Seq(Tasks)
        BY <2>1 DEF TypeInv, TypeOK, WorkerTypes
    <2>3. QueueTypes' /\ HistoryTypes'
        BY <1>6, <2>2, PushToType DEF FanOut, TypeInv, TypeOK
    <2>4. WorkerTypes'
        BY <1>6 DEF FanOut, FanNext, TypeInv, TypeOK, WorkerTypes
    <2> QED
        BY <1>6, <2>3, <2>4, KeepThreads, KeepOwners
        DEF FanOut, TypeInv, TypeOK
<1>7. CASE FanEnd(w)
    <2>1. WorkerTypes'
        BY <1>7 DEF FanEnd, TypeInv, TypeOK, WorkerTypes, WorkerStates
    <2> QED
        BY <1>7, <2>1, KeepQueue, KeepThreads, KeepOwners, KeepHistory
        DEF FanEnd, TypeInv, TypeOK
<1> QED
    BY <1>1, <1>2, <1>3, <1>4, <1>5, <1>6, <1>7 DEF WorkerStep

\* end_thread() takes the first wrapper, end_all_threads() takes all.
LEMMA TypeTakeThreads ==
    ASSUME TypeInv, NEW o \in Owners, NEW p \in Processors,
           NEW n \in Nat, NEW sync \in BOOLEAN,
           NEW ws \in Seq(Workers), NEW rest \in Seq(Workers), ws # <<>>,
           TakeThreads(o, p, n, ws, rest, sync),
           UNCHANGED <<queueVars, lock, created, workerVars, history>>,
           destroyed' \in [Processors -> {"no", "closing", "yes"}]
    PROVE  TypeInv'
<1> DEFINE c == [proc |-> p, left |-> n, sync |-> sync, targets |-> ws]
<1>1. c \in Calls /\ CallGood(c, "signal")
    BY DEF Calls, CallGood
<1>2. OwnerTypes' /\ CallOK'
    BY <1>1, CallStep DEF TakeThreads, TypeInv, TypeOK, OwnerStates
<1>3. ThreadTypes'
    BY DEF TakeThreads, TypeInv, TypeOK, ThreadTypes
<1> QED
    BY <1>2, <1>3, KeepQueue, KeepWorkers, KeepHistory DEF TypeInv, TypeOK

LEMMA TypeTake ==
    ASSUME TypeInv, NEW o \in Owners, NEW p \in Processors,
           NEW n \in Nat, NEW sync \in BOOLEAN, threads[p] # <<>>,
           TakeThreads(o, p, n, <<Head(threads[p])>>, Tail(threads[p]), sync),
           UNCHANGED <<queueVars, lock, created, destroyed, workerVars, history>>
    PROVE  TypeInv'
<1>1. threads[p] \in Seq(Workers)
    BY DEF TypeInv, TypeOK, ThreadTypes
<1>2. /\ <<Head(threads[p])>> \in Seq(Workers) /\ Tail(threads[p]) \in Seq(Workers)
      /\ <<Head(threads[p])>> # <<>>
    BY <1>1, HeadTailProperties
<1>3. destroyed' \in [Processors -> {"no", "closing", "yes"}]
    BY DEF TypeInv, TypeOK, ThreadTypes
<1> QED
    BY <1>2, <1>3, TypeTakeThreads

LEMMA TypeTakeAll ==
    ASSUME TypeInv, NEW o \in Owners, NEW p \in Processors,
           NEW sync \in BOOLEAN, threads[p] # <<>>,
           TakeThreads(o, p, 0, threads[p], <<>>, sync),
           UNCHANGED <<queueVars, lock, created, workerVars, history>>,
           \/ UNCHANGED destroyed
           \/ destroyed' = [destroyed EXCEPT ![p] = "closing"]
    PROVE  TypeInv'
<1>1. threads[p] \in Seq(Workers) /\ <<>> \in Seq(Workers)
    BY DEF TypeInv, TypeOK, ThreadTypes
<1>2. destroyed' \in [Processors -> {"no", "closing", "yes"}]
    BY DEF TypeInv, TypeOK, ThreadTypes
<1> QED
    BY <1>1, <1>2, TypeTakeThreads

LEMMA TypeAfterOne ==
    ASSUME TypeInv, NEW o \in Owners, opc[o] \in {"signal", "join"},
           AfterOne(o, Tail(call[o].targets))
    PROVE  OwnerTypes' /\ CallOK'
<1> DEFINE ts == Tail(call[o].targets)
           c == [call[o] EXCEPT !.targets = ts]
           s == IF ts # <<>> THEN "signal"
                ELSE IF call[o].left > 0 THEN "end" ELSE "idle"
<1>1. call[o] \in Calls /\ CallGood(call[o], opc[o])
    BY DEF TypeInv, TypeOK, OwnerTypes, CallOK
<1>2. ts \in Seq(Workers)
    <2>1. call[o].targets \in Seq(Workers) /\ call[o].targets # <<>>
        BY <1>1 DEF Calls, CallGood
    <2> QED
        BY <2>1, HeadTailProperties
<1>3. c \in Calls /\ s \in OwnerStates /\ CallGood(c, s)
    <2> HIDE DEF ts
    <2> QED
        BY <1>1, <1>2 DEF Calls, OwnerStates, CallGood
<1>4. call' = [call EXCEPT ![o] = c] /\ opc' = [opc EXCEPT ![o] = s]
    BY DEF AfterOne
<1> HIDE DEF c, s
<1> QED
    BY <1>3, <1>4, CallStep DEF TypeInv, TypeOK

\* One step of a call an owner is in.
LEMMA TypeOwner ==
    ASSUME TypeInv, NEW o \in Owners, OwnerStep(o)
    PROVE  TypeInv'
<1>0. /\ call[o] \in Calls /\ CallGood(call[o], opc[o])
      /\ opc[o] # "idle" => call[o].proc \in Processors
    BY DEF TypeInv, TypeOK, OwnerTypes, CallOK, CallGood
<1>1. CASE Create(o)
    <2>1. PICK w \in Workers :
            /\ wpc' = [wpc EXCEPT ![w] = "ready"]
            /\ call' = [call EXCEPT ![o].targets = <<w>>]
        BY <1>1 DEF Create
    <2>2. OwnerTypes' /\ CallOK'
        <3> DEFINE c == [call[o] EXCEPT !.targets = <<w>>]
        <3>0. <<w>> \in Seq(Workers)
            OBVIOUS
        <3>1. c \in Calls
            BY <1>0, <3>0 DEF Calls
        <3>2. CallGood(c, "await")
            BY <1>0, <1>1 DEF Create, Calls, CallGood
        <3>3. call' = [call EXCEPT ![o] = c]
            BY <2>1 DEF TypeInv, TypeOK, OwnerTypes
        <3> HIDE DEF c
        <3> QED
            BY <1>1, <3>1, <3>2, <3>3, CallStep
            DEF Create, TypeInv, TypeOK, OwnerStates
    <2>3. WorkerTypes' /\ ThreadTypes'
        BY <1>1, <2>1 DEF Create, ResetsCreated, TypeInv, TypeOK, WorkerTypes,
                          ThreadTypes, WorkerStates
    <2> QED
        BY <1>1, <2>2, <2>3, KeepQueue, KeepHistory
        DEF Create, TypeInv, TypeOK
<1>2. CASE CreateFails(o) \/ BeginReturn(o)
    <2>1. ThreadTypes'
        BY <1>2 DEF CreateFails, BeginReturn, BeginDone, ResetsCreated,
                    TypeInv, TypeOK, ThreadTypes
    <2>2. OwnerTypes' /\ CallOK'
        <3>1. CallGood(call[o], "idle") /\ call' = [call EXCEPT ![o] = call[o]]
            BY <1>0, <1>2 DEF CreateFails, BeginReturn, BeginDone, CallGood,
                              TypeInv, TypeOK, OwnerTypes
        <3> QED
            BY <1>0, <1>2, <3>1, CallStep
            DEF CreateFails, BeginReturn, BeginDone, TypeInv, TypeOK,
                OwnerStates
    <2> QED
        BY <1>2, <2>1, <2>2, KeepQueue, KeepWorkers, KeepHistory
        DEF CreateFails, BeginReturn, BeginDone, TypeInv, TypeOK
<1>3. CASE Created(o)
    <2>1. ThreadTypes'
        <3>1. call[o].targets \in Seq(Workers) /\ call[o].proc \in Processors
            BY <1>0, <1>3 DEF Created, Calls
        <3> QED
            BY <1>3, <3>1 DEF Created, TypeInv, TypeOK, ThreadTypes
    <2>2. OwnerTypes' /\ CallOK'
        <3> DEFINE c == [call[o] EXCEPT !.targets = <<>>, !.left = @ - 1]
        <3>1. call[o].left - 1 \in Nat
            BY <1>0, <1>3 DEF Created, Calls, CallGood
        <3>0. <<>> \in Seq(Workers)
            OBVIOUS
        <3>2. c \in Calls
            BY <1>0, <3>0, <3>1 DEF Calls
        <3>3. CallGood(c, "begin")
            BY <1>0, <1>3 DEF Created, Calls, CallGood
        <3>4. call' = [call EXCEPT ![o] = c]
            BY <1>3 DEF Created, TypeInv, TypeOK, OwnerTypes
        <3> HIDE DEF c
        <3> QED
            BY <1>3, <3>2, <3>3, <3>4, CallStep
            DEF Created, TypeInv, TypeOK, OwnerStates
    <2> QED
        BY <1>3, <2>1, <2>2, KeepQueue, KeepWorkers, KeepHistory
        DEF Created, TypeInv, TypeOK
<1>4. CASE EndMore(o)
    <2>1. call[o].left - 1 \in Nat /\ call[o].sync \in BOOLEAN
        BY <1>0, <1>4 DEF EndMore, Calls, CallGood
    <2> QED
        BY <1>0, <1>4, <2>1, TypeTake DEF EndMore
<1>5. CASE EndNoMore(o)
    <2>1. OwnerTypes' /\ CallOK'
        <3>1. CallGood(call[o], "idle") /\ call' = [call EXCEPT ![o] = call[o]]
            BY <1>0, <1>5
            DEF EndNoMore, CallGood, TypeInv, TypeOK, OwnerTypes
        <3> QED
            BY <1>0, <1>5, <3>1, CallStep
            DEF EndNoMore, TypeInv, TypeOK, OwnerStates
    <2> QED
        BY <1>5, <2>1, KeepQueue, KeepThreads, KeepWorkers, KeepHistory
        DEF EndNoMore, TypeInv, TypeOK
<1>6. CASE SignalQuit(o)
    <2>1. WorkerTypes'
        BY <1>6 DEF SignalQuit, TypeInv, TypeOK, WorkerTypes
    <2>2. OwnerTypes' /\ CallOK'
        <3>1. CASE call[o].sync
            <4>1. CallGood(call[o], "join") /\ call' = [call EXCEPT ![o] = call[o]]
                BY <1>0, <1>6, <3>1
                DEF SignalQuit, CallGood, TypeInv, TypeOK, OwnerTypes
            <4> QED
                BY <1>0, <1>6, <3>1, <4>1, CallStep
                DEF SignalQuit, TypeInv, TypeOK, OwnerStates
        <3>2. CASE ~call[o].sync
            BY <1>6, <3>2, TypeAfterOne DEF SignalQuit
        <3> QED
            BY <3>1, <3>2
    <2> QED
        BY <1>6, <2>1, <2>2, KeepQueue, KeepThreads, KeepHistory
        DEF SignalQuit, TypeInv, TypeOK
<1>7. CASE Join(o)
    <2>1. OwnerTypes' /\ CallOK'
        BY <1>7, TypeAfterOne DEF Join
    <2> QED
        BY <1>7, <2>1, KeepQueue, KeepThreads, KeepWorkers, KeepHistory
        DEF Join, TypeInv, TypeOK
<1> QED
    BY <1>1, <1>2, <1>3, <1>4, <1>5, <1>6, <1>7 DEF OwnerStep

\* The first step of one.
LEMMA TypeCall ==
    ASSUME TypeInv, NEW o \in Owners, OwnerCall(o)
    PROVE  TypeInv'
<1>1. PICK p \in Processors :
        \/ \E n \in Counts : BeginThread(o, p, n)
        \/ \E sync \in SyncModes :
            \/ \E n \in Counts : EndThread(o, p, n, sync)
            \/ EndAllThreads(o, p, sync)
        \/ Destruct(o, p)
    BY DEF OwnerCall
<1>2. ASSUME NEW n \in Counts, BeginThread(o, p, n)
      PROVE  TypeInv'
    <2> DEFINE c == [call[o] EXCEPT !.proc = p, !.left = n]
    <2>1. /\ c \in Calls /\ CallGood(c, "begin")
          /\ call' = [call EXCEPT ![o] = c]
        BY <1>2, CountsAssumption
        DEF BeginThread, Calls, CallGood, TypeInv, TypeOK, OwnerTypes
    <2>2. OwnerTypes' /\ CallOK'
        BY <1>2, <2>1, CallStep
        DEF BeginThread, TypeInv, TypeOK, OwnerStates
    <2>3. ThreadTypes'
        BY <1>2 DEF BeginThread, TypeInv, TypeOK, ThreadTypes
    <2> QED
        BY <1>2, <2>2, <2>3, KeepQueue, KeepWorkers, KeepHistory
        DEF BeginThread, TypeInv, TypeOK
<1>3. ASSUME NEW sync \in SyncModes, NEW n \in Counts, EndThread(o, p, n, sync)
      PROVE  TypeInv'
    <2>1. n - 1 \in Nat /\ sync \in BOOLEAN
        BY CountsAssumption, SyncAssumption
    <2> QED
        BY <1>3, <2>1, TypeTake DEF EndThread
<1>4. ASSUME NEW sync \in SyncModes, EndAllThreads(o, p, sync)
      PROVE  TypeInv'
    BY <1>4, SyncAssumption, TypeTakeAll DEF EndAllThreads
<1>5. CASE Destruct(o, p)
    <2>1. CASE threads[p] = <<>>
        <3>1. ThreadTypes'
            BY <1>5, <2>1 DEF Destruct, TypeInv, TypeOK, ThreadTypes
        <3> QED
            BY <1>5, <2>1, <3>1, KeepQueue, KeepWorkers, KeepOwners, KeepHistory
            DEF Destruct, TypeInv, TypeOK
    <2>2. CASE threads[p] # <<>>
        BY <1>5, <2>2, TypeTakeAll DEF Destruct
    <2> QED
        BY <2>1, <2>2
<1> QED
    BY <1>1, <1>2, <1>3, <1>4, <1>5

-----------------------------------------------------------------------------
(* The queue and its signals *)

\* With batch_size_ 1 the signals match; in any case they suffice.
SignalsInv == SignalsCoverQueue /\ (BatchSize = 1 => SignalsMatchQueue)

IInv == TypeInv /\ QueueBounded /\ SignalsInv

LEMMA PoppingSize ==
    ASSUME NEW p
    PROVE  /\ IsFiniteSet(Popping(p)) /\ Cardinality(Popping(p)) \in Nat
           /\ IsFiniteSet(Popping(p)') /\ Cardinality(Popping(p)') \in Nat
<1>1. IsFiniteSet(Popping(p)) /\ IsFiniteSet(Popping(p)')
    BY FS_Subset, WorkersAssumption DEF Popping
<1> QED
    BY <1>1, FS_CardinalityType

\* Neither the queue nor the set of workers in pop_task() changes.
LEMMA Quiet ==
    ASSUME QueueBounded, SignalsInv, UNCHANGED queueVars,
           \A w \in Workers : wpc'[w] = "pop" <=> wpc[w] = "pop"
    PROVE  QueueBounded' /\ SignalsInv'
<1>1. \A p : Popping(p)' = Popping(p)
    BY DEF Popping
<1> QED
    BY <1>1 DEF QueueBounded, SignalsInv, SignalsCoverQueue, SignalsMatchQueue,
                queueVars

\* Every task brings its signal.
LEMMA PushKeeps ==
    ASSUME QueueTypes, QueueBounded, SignalsInv,
           NEW p \in Processors, NEW ts \in Seq(Tasks), PushTo(p, ts),
           UNCHANGED wpc
    PROVE  QueueBounded' /\ SignalsInv'
<1>1. \A q : Popping(q)' = Popping(q)
    BY DEF Popping
<1>2. CASE PushAccept(p, ts)
    <2>1. /\ size' = [size EXCEPT ![p] = @ + Len(ts)]
          /\ signals' = [signals EXCEPT ![p] = @ + Len(ts)]
          /\ queue' = [queue EXCEPT ![p] = @ \o ts]
          /\ size[p] + Len(ts) <= MaxQueueSize
          /\ Len(ts) \in Nat
        BY <1>2 DEF PushAccept, Posted, Fits
    <2>2. Len(queue[p] \o ts) = Len(queue[p]) + Len(ts)
        BY DEF QueueTypes
    <2>3. QueueBounded'
        BY <2>1, <2>2 DEF QueueBounded, QueueTypes
    <2>4. SignalsCoverQueue'
        BY <1>1, <2>1, PoppingSize
        DEF SignalsInv, SignalsCoverQueue, QueueTypes
    <2>5. BatchSize = 1 => SignalsMatchQueue'
        BY <1>1, <2>1, PoppingSize
        DEF SignalsInv, SignalsMatchQueue, QueueTypes
    <2> QED
        BY <2>3, <2>4, <2>5 DEF SignalsInv
<1>3. CASE PushRefuse(p, ts)
    BY <1>1, <1>3
    DEF PushRefuse, QueueBounded, SignalsInv, SignalsCoverQueue,
        SignalsMatchQueue
<1> QED
    BY <1>2, <1>3 DEF PushTo

\* A worker enters or leaves the stretch between the semaphore and the lock.
LEMMA EnterPop ==
    ASSUME WorkerTypes, NEW w \in Workers,
           wpc[w] # "pop", wpc' = [wpc EXCEPT ![w] = "pop"]
    PROVE  /\ \A p : p # Home[w] => Popping(p)' = Popping(p)
           /\ Cardinality(Popping(Home[w])') = Cardinality(Popping(Home[w])) + 1
<1>1. \A p : p # Home[w] => Popping(p)' = Popping(p)
    BY DEF Popping, WorkerTypes
<1>2. Popping(Home[w])' = Popping(Home[w]) \cup {w} /\ w \notin Popping(Home[w])
    BY DEF Popping, WorkerTypes
<1> QED
    BY <1>1, <1>2, PoppingSize, FS_AddElement

LEMMA LeavePop ==
    ASSUME WorkerTypes, NEW w \in Workers,
           wpc[w] = "pop", wpc' = [wpc EXCEPT ![w] = "check"]
    PROVE  /\ \A p : p # Home[w] => Popping(p)' = Popping(p)
           /\ Cardinality(Popping(Home[w])') = Cardinality(Popping(Home[w])) - 1
<1>1. \A p : p # Home[w] => Popping(p)' = Popping(p)
    BY DEF Popping, WorkerTypes
<1>2. Popping(Home[w])' = Popping(Home[w]) \ {w} /\ w \in Popping(Home[w])
    BY DEF Popping, WorkerTypes
<1> QED
    BY <1>1, <1>2, PoppingSize, FS_RemoveElement

\* pop_task() never releases a signal that a task left behind still needs: it
\* used up one for the first task and revokes at most one for each other.
LEMMA PopKeeps ==
    ASSUME TypeInv, QueueBounded, SignalsInv, NEW w \in Workers, PopStep(w)
    PROVE  QueueBounded' /\ SignalsInv'
<1> DEFINE p == Home[w]
<1>0. /\ p \in Processors /\ QueueTypes /\ WorkerTypes
      /\ signals[p] \in Nat /\ size[p] \in Nat /\ Len(queue[p]) = size[p]
    BY HomeAssumption DEF TypeInv, TypeOK, QueueTypes, QueueBounded
<1>1. CASE Take(w)
    <2>1. /\ signals' = [signals EXCEPT ![p] = @ - 1] /\ signals[p] > 0
          /\ UNCHANGED <<queue, size>>
          /\ \A q : q # p => Popping(q)' = Popping(q)
          /\ Cardinality(Popping(p)') = Cardinality(Popping(p)) + 1
        BY <1>0, <1>1, EnterPop DEF Take
    <2> HIDE DEF p
    <2>2. QueueBounded'
        BY <2>1 DEF QueueBounded
    <2>3. SignalsCoverQueue'
        BY <1>0, <2>1, PoppingSize DEF SignalsInv, SignalsCoverQueue, QueueTypes
    <2>4. BatchSize = 1 => SignalsMatchQueue'
        <3> SUFFICES ASSUME SignalsMatchQueue, NEW q \in Processors
                     PROVE  signals'[q] + Cardinality(Popping(q)') = size'[q]
            BY DEF SignalsInv, SignalsMatchQueue
        <3>1. signals[q] + Cardinality(Popping(q)) = size[q]
            BY DEF SignalsMatchQueue
        <3>2. /\ signals[q] \in Nat /\ Cardinality(Popping(q)) \in Nat
              /\ size'[q] = size[q] /\ signals \in [Processors -> Nat]
            BY <1>0, <2>1, PoppingSize DEF QueueTypes
        <3>3. CASE q = p
            BY <2>1, <3>1, <3>2, <3>3
        <3>4. CASE q # p
            BY <2>1, <3>1, <3>2, <3>4
        <3> QED
            BY <3>3, <3>4
    <2> QED
        BY <2>2, <2>3, <2>4 DEF SignalsInv
<1>2. CASE TimeOut(w)
    BY <1>0, <1>2, Quiet DEF TimeOut, PopReturn, WorkerTypes
<1>3. CASE PopEmpty(w)
    <2>1. /\ UNCHANGED <<queue, size, signals>> /\ size[p] = 0
          /\ \A q : q # p => Popping(q)' = Popping(q)
          /\ Cardinality(Popping(p)') = Cardinality(Popping(p)) - 1
        <3>1. /\ UNCHANGED <<queue, size, signals>> /\ size[p] <= 0
              /\ wpc[w] = "pop" /\ wpc' = [wpc EXCEPT ![w] = "check"]
            BY <1>3 DEF PopEmpty, PopReturn
        <3>2. size[p] = 0
            BY <1>0, <3>1
        <3> QED
            BY <1>0, <3>1, <3>2, LeavePop
    <2>5. Popping(p) # {}
        BY <1>3 DEF PopEmpty, Popping
    <2> HIDE DEF p
    <2>2. QueueBounded'
        BY <2>1 DEF QueueBounded
    <2>3. SignalsCoverQueue'
        <3> SUFFICES ASSUME NEW q \in Processors
                     PROVE  signals'[q] + Cardinality(Popping(q)') >= size'[q]
            BY DEF SignalsCoverQueue
        <3>1. /\ signals[q] + Cardinality(Popping(q)) >= size[q]
              /\ signals[q] \in Nat
              /\ Cardinality(Popping(q)') \in Nat
            BY <1>0, PoppingSize DEF SignalsInv, SignalsCoverQueue, QueueTypes
        <3>2. CASE q = p
            BY <2>1, <3>1, <3>2
        <3>3. CASE q # p
            BY <2>1, <3>1, <3>3
        <3> QED
            BY <3>2, <3>3
    <2>6. Cardinality(Popping(p)) # 0
        BY <2>5, PoppingSize, FS_EmptySet
    <2>4. BatchSize = 1 => SignalsMatchQueue'
        BY <1>0, <2>1, <2>6, PoppingSize
        DEF SignalsInv, SignalsMatchQueue, QueueTypes
    <2> QED
        BY <2>2, <2>3, <2>4 DEF SignalsInv
<1>4. CASE PopBatch(w)
    <2>1. /\ BatchSize > 0 /\ size[p] >= BatchSize
          /\ size' = [size EXCEPT ![p] = @ - BatchSize]
          /\ signals' = [signals EXCEPT ![p] = Lowered(@, BatchSize - 1)]
          /\ \A q : q # p => Popping(q)' = Popping(q)
          /\ Cardinality(Popping(p)') = Cardinality(Popping(p)) - 1
        BY <1>0, <1>4, LeavePop DEF PopBatch, PopReturn
    <2>2. PICK q \in SortedQueue(p) : queue' = [queue EXCEPT ![p] = Rest(q)]
        BY <1>4 DEF PopBatch
    <2> HIDE DEF p
    <2>3. q \in Seq(Tasks) /\ Len(q) = size[p]
        BY <1>0, <2>2, SortedQueueType
    <2>4. Len(Rest(q)) = size[p] - BatchSize
        BY <1>0, <2>1, <2>3, BatchSizeAssumption, SplitType
    <2>5. QueueBounded'
        BY <1>0, <2>1, <2>2, <2>4, BatchSizeAssumption, MaxQueueSizeAssumption
        DEF QueueBounded, QueueTypes
    <2>6. Lowered(signals[p], BatchSize - 1) \in Nat
          /\ Lowered(signals[p], BatchSize - 1) >= signals[p] - (BatchSize - 1)
        <3>1. BatchSize - 1 \in Nat
            BY <2>1, BatchSizeAssumption
        <3> QED
            BY <1>0, <3>1, LoweredType
    <2>7. SignalsCoverQueue'
        BY <1>0, <2>1, <2>6, PoppingSize, BatchSizeAssumption
        DEF SignalsInv, SignalsCoverQueue, QueueTypes
    <2>8. BatchSize = 1 => Lowered(signals[p], BatchSize - 1) = signals[p]
        BY <1>0 DEF Lowered
    <2>9. BatchSize = 1 => SignalsMatchQueue'
        BY <1>0, <2>1, <2>8, PoppingSize
        DEF SignalsInv, SignalsMatchQueue, QueueTypes
    <2> QED
        BY <2>5, <2>7, <2>9 DEF SignalsInv
<1>5. CASE PopRest(w)
    <2>1. /\ ~(BatchSize > 0 /\ size[p] >= BatchSize) /\ size[p] > 0
          /\ queue' = [queue EXCEPT ![p] = <<>>]
          /\ size' = [size EXCEPT ![p] = 0]
          /\ UNCHANGED signals
          /\ \A q : q # p => Popping(q)' = Popping(q)
        BY <1>0, <1>5, LeavePop DEF PopRest, PopReturn
    <2>2. BatchSize # 1
        BY <1>0, <2>1
    <2> HIDE DEF p
    <2>3. QueueBounded'
        BY <1>0, <2>1, MaxQueueSizeAssumption DEF QueueBounded, QueueTypes
    <2>4. SignalsCoverQueue'
        BY <1>0, <2>1, PoppingSize DEF SignalsInv, SignalsCoverQueue, QueueTypes
    <2> QED
        BY <2>2, <2>3, <2>4 DEF SignalsInv
<1> QED
    BY <1>1, <1>2, <1>3, <1>4, <1>5 DEF PopStep

LEMMA WorkerKeeps ==
    ASSUME TypeInv, QueueBounded, SignalsInv, NEW w \in Workers, WorkerStep(w)
    PROVE  QueueBounded' /\ SignalsInv'
<1>1. CASE PopStep(w)
    BY <1>1, PopKeeps
<1>2. CASE FanOut(w)
    <2>1. NextProcessors(w) \in Seq(Processors) /\ fan[w] \in DOMAIN NextProcessors(w)
        BY <1>2, HomeAssumption, NextAssumption DEF FanOut, NextProcessors
    <2>2. NextProcessors(w)[fan[w]] \in Processors /\ tasks[w] \in Seq(Tasks)
        BY <2>1 DEF TypeInv, TypeOK, WorkerTypes
    <2> QED
        BY <1>2, <2>2, PushKeeps DEF FanOut, TypeInv, TypeOK
<1>3. CASE Start(w)
    BY <1>3, Quiet DEF Start, TypeInv, TypeOK, WorkerTypes
<1>4. CASE Quit(w)
    BY <1>4, Quiet DEF Quit, TypeInv, TypeOK, WorkerTypes
<1>5. CASE Handle(w)
    BY <1>5, Quiet DEF Handle, TypeInv, TypeOK, WorkerTypes
<1>6. CASE Ignore(w)
    BY <1>6, Quiet DEF Ignore, TypeInv, TypeOK, WorkerTypes
<1>7. CASE FanEnd(w)
    BY <1>7, Quiet DEF FanEnd, TypeInv, TypeOK, WorkerTypes
<1> QED
    BY <1>1, <1>2, <1>3, <1>4, <1>5, <1>6, <1>7 DEF WorkerStep

\* Owners touch no queue, and create their workers outside pop_task().
LEMMA OwnerKeeps ==
    ASSUME TypeInv, QueueBounded, SignalsInv, NEW o \in Owners,
           OwnerStep(o) \/ OwnerCall(o)
    PROVE  QueueBounded' /\ SignalsInv'
<1>1. UNCHANGED queueVars
    BY DEF OwnerStep, OwnerCall, Create, CreateFails, Created, BeginReturn,
           BeginDone, EndMore, EndNoMore, SignalQuit, Join, BeginThread,
           EndThread, EndAllThreads, Destruct
<1>2. CASE Create(o)
    BY <1>1, <1>2, Quiet DEF Create, TypeInv, TypeOK, WorkerTypes
<1>3. CASE ~Create(o)
    <2>1. UNCHANGED wpc
        BY <1>3 DEF OwnerStep, OwnerCall, CreateFails, Created, BeginReturn,
                    BeginDone, EndMore, EndNoMore, SignalQuit, Join,
                    BeginThread, EndThread, EndAllThreads, Destruct, workerVars
    <2> QED
        BY <1>1, <2>1, Quiet
<1> QED
    BY <1>2, <1>3

LEMMA InitHolds == Init => IInv
<1> SUFFICES ASSUME Init PROVE IInv
    OBVIOUS
<1>1. QueueBounded
    BY MaxQueueSizeAssumption DEF Init, QueueBounded
<1>2. \A p : Popping(p) = {}
    BY DEF Init, Popping
<1>3. SignalsInv
    <2>1. ASSUME NEW p \in Processors
          PROVE  signals[p] = 0 /\ size[p] = 0 /\ Cardinality(Popping(p)) = 0
        BY <1>2, FS_EmptySet DEF Init
    <2> QED
        BY <2>1 DEF SignalsInv, SignalsCoverQueue, SignalsMatchQueue
<1> QED
    BY <1>1, <1>3, TypeInit DEF IInv

LEMMA StepKeeps == IInv /\ [Next]_vars => IInv'
<1> SUFFICES ASSUME IInv, [Next]_vars PROVE IInv'
    OBVIOUS
<1>1. ASSUME NEW p \in Entries, NEW ts \in Lists, Push(p, ts)
      PROVE  IInv'
    <2>1. p \in Processors /\ ts \in Seq(Tasks)
        BY OwnersAssumption, ListsAssumption
    <2>2. TypeInv'
        BY <1>1, <2>1, TypePush DEF IInv
    <2>3. QueueBounded' /\ SignalsInv'
        BY <1>1, <2>1, PushKeeps DEF Push, IInv, TypeInv, TypeOK, workerVars
    <2> QED
        BY <2>2, <2>3 DEF IInv
<1>2. ASSUME NEW w \in Workers, WorkerStep(w)
      PROVE  IInv'
    BY <1>2, TypeWorker, WorkerKeeps DEF IInv
<1>3. ASSUME NEW o \in Owners, OwnerCall(o) \/ OwnerStep(o)
      PROVE  IInv'
    BY <1>3, TypeCall, TypeOwner, OwnerKeeps DEF IInv
<1>4. ASSUME NEW p \in Processors, Free(p)
      PROVE  IInv'
    <2>1. ThreadTypes'
        BY <1>4 DEF Free, IInv, TypeInv, TypeOK, ThreadTypes
    <2>2. TypeInv'
        BY <1>4, <2>1, KeepQueue, KeepWorkers, KeepOwners, KeepHistory
        DEF Free, IInv, TypeInv, TypeOK
    <2>3. QueueBounded' /\ SignalsInv'
        BY <1>4, Quiet DEF Free, IInv, workerVars
    <2> QED
        BY <2>2, <2>3 DEF IInv
<1>5. CASE UNCHANGED vars
    <2>1. TypeInv'
        BY <1>5, KeepQueue, KeepThreads, KeepWorkers, KeepOwners, KeepHistory
        DEF vars, IInv, TypeInv, TypeOK
    <2>2. QueueBounded' /\ SignalsInv'
        BY <1>5, Quiet DEF vars, workerVars, IInv
    <2> QED
        BY <2>1, <2>2 DEF IInv
<1> QED
    BY <1>1, <1>2, <1>3, <1>4, <1>5 DEF Next, Terminated

-----------------------------------------------------------------------------
\* The state of every processor, worker and call in progress has its type.
THEOREM TypeTheorem == Spec => []TypeOK
<1>1. IInv => TypeOK
    BY DEF IInv, TypeInv
<1> QED
    BY <1>1, InitHolds, StepKeeps, PTL DEF Spec

\* current_queue_size_ stays the length of task_queue_ and within
\* max_queue_size_, for any number of pushing and popping threads.
THEOREM QueueBoundedTheorem == Spec => []QueueBounded
<1>1. IInv => QueueBounded
    BY DEF IInv
<1> QED
    BY <1>1, InitHolds, StepKeeps, PTL DEF Spec

\* No task is stranded in a queue without a signal, for any batch_size_ and any
\* number of workers: pop_task() may leave too many signals, never too few.
THEOREM SignalsCoverQueueTheorem == Spec => []SignalsCoverQueue
<1>1. IInv => SignalsCoverQueue
    BY DEF IInv, SignalsInv
<1> QED
    BY <1>1, InitHolds, StepKeeps, PTL DEF Spec

\* With the default batch_size_ of 1 the signals match the queue exactly.
THEOREM SignalsMatchQueueTheorem ==
    ASSUME BatchSize = 1
    PROVE  Spec => []SignalsMatchQueue
<1>1. IInv => SignalsMatchQueue
    BY DEF IInv, SignalsInv
<1> QED
    BY <1>1, InitHolds, StepKeeps, PTL DEF Spec

-----------------------------------------------------------------------------
(* Elements of sequences *)

\* The sequence s holds nothing twice.
Distinct(s) == \A i, j \in DOMAIN s : i # j => s[i] # s[j]

LEMMA ElemsEmpty ==
    /\ Elems(<<>>) = {} /\ Distinct(<<>>)
    /\ \A w : Elems(<<w>>) = {w} /\ Distinct(<<w>>)
<1>1. DOMAIN <<>> = {}
    OBVIOUS
<1>2. \A w : DOMAIN <<w>> = {1} /\ <<w>>[1] = w
    OBVIOUS
<1> QED
    BY <1>1, <1>2 DEF Elems, Distinct

LEMMA ElemsOfSeq ==
    ASSUME NEW S, NEW s \in Seq(S)
    PROVE  /\ Elems(s) \subseteq S
           /\ Elems(s) = {} <=> s = <<>>
<1>1. DOMAIN s = 1 .. Len(s) /\ Len(s) \in Nat /\ \A i \in 1 .. Len(s) : s[i] \in S
    BY LenProperties
<1>2. s # <<>> => Len(s) # 0
    BY EmptySeq
<1>3. s # <<>> => 1 \in DOMAIN s
    BY <1>1, <1>2
<1> QED
    BY <1>1, <1>3, ElemsEmpty DEF Elems

LEMMA ElemsHeadTail ==
    ASSUME NEW S, NEW s \in Seq(S), s # <<>>
    PROVE  /\ Elems(s) = {Head(s)} \cup Elems(Tail(s))
           /\ Head(s) \in S /\ Tail(s) \in Seq(S)
           /\ Distinct(s) => Head(s) \notin Elems(Tail(s)) /\ Distinct(Tail(s))
<1>1. /\ DOMAIN s = 1 .. Len(s) /\ Len(s) \in Nat \ {0} /\ Head(s) = s[1]
      /\ Tail(s) \in Seq(S) /\ Len(Tail(s)) = Len(s) - 1 /\ Head(s) \in S
      /\ DOMAIN Tail(s) = 1 .. Len(s) - 1
      /\ \A i \in 1 .. Len(s) - 1 : Tail(s)[i] = s[i + 1]
    BY HeadTailProperties, EmptySeq, LenProperties
<1>2. ASSUME NEW i \in DOMAIN s
      PROVE  s[i] \in {Head(s)} \cup Elems(Tail(s))
    <2>1. CASE i = 1
        BY <1>1, <2>1
    <2>2. CASE i # 1
        <3>1. i - 1 \in DOMAIN Tail(s) /\ Tail(s)[i - 1] = s[i]
            BY <1>1, <2>2
        <3> QED
            BY <3>1 DEF Elems
    <2> QED
        BY <2>1, <2>2
<1>3. ASSUME NEW i \in DOMAIN Tail(s)
      PROVE  i + 1 \in DOMAIN s /\ i + 1 # 1 /\ s[i + 1] = Tail(s)[i]
    BY <1>1
<1>4. 1 \in DOMAIN s
    BY <1>1
<1>5. Elems(s) = {Head(s)} \cup Elems(Tail(s))
    BY <1>1, <1>2, <1>3, <1>4 DEF Elems
<1>6. ASSUME Distinct(s) PROVE Head(s) \notin Elems(Tail(s))
    BY <1>1, <1>3, <1>4, <1>6 DEF Elems, Distinct
<1>7. ASSUME Distinct(s) PROVE Distinct(Tail(s))
    <2> SUFFICES ASSUME NEW i \in DOMAIN Tail(s), NEW j \in DOMAIN Tail(s), i # j
                 PROVE  Tail(s)[i] # Tail(s)[j]
        BY DEF Distinct
    <2>1. i + 1 # j + 1
        BY <1>1
    <2> QED
        BY <1>3, <1>7, <2>1 DEF Distinct
<1> QED
    BY <1>1, <1>5, <1>6, <1>7

LEMMA ElemsConcat ==
    ASSUME NEW S, NEW s \in Seq(S), NEW t \in Seq(S)
    PROVE  /\ s \o t \in Seq(S)
           /\ Elems(s \o t) = Elems(s) \cup Elems(t)
           /\ Distinct(s) /\ Distinct(t) /\ Elems(s) \cap Elems(t) = {} => Distinct(s \o t)
<1> DEFINE u == s \o t
<1>1. /\ u \in Seq(S) /\ Len(u) = Len(s) + Len(t) /\ Len(s) \in Nat /\ Len(t) \in Nat
      /\ DOMAIN u = 1 .. Len(s) + Len(t) /\ DOMAIN s = 1 .. Len(s) /\ DOMAIN t = 1 .. Len(t)
      /\ \A i \in DOMAIN u : u[i] = IF i <= Len(s) THEN s[i] ELSE t[i - Len(s)]
    BY ConcatProperties, LenProperties
<1> HIDE DEF u
<1>2. ASSUME NEW i \in DOMAIN u
      PROVE  \/ i \in DOMAIN s /\ u[i] = s[i]
             \/ i - Len(s) \in DOMAIN t /\ i > Len(s) /\ u[i] = t[i - Len(s)]
    BY <1>1
<1>3. \A i \in DOMAIN s : i \in DOMAIN u /\ u[i] = s[i]
    BY <1>1
<1>4. \A i \in DOMAIN t : i + Len(s) \in DOMAIN u /\ u[i + Len(s)] = t[i]
    BY <1>1
<1>5. Elems(u) = Elems(s) \cup Elems(t)
    BY <1>2, <1>3, <1>4 DEF Elems
<1>6. ASSUME Distinct(s), Distinct(t), Elems(s) \cap Elems(t) = {},
             NEW i \in DOMAIN u, NEW j \in DOMAIN u, i # j
      PROVE  u[i] # u[j]
    <2>1. CASE i \in DOMAIN s /\ u[i] = s[i] /\ j \in DOMAIN s /\ u[j] = s[j]
        BY <1>6, <2>1 DEF Distinct
    <2>2. CASE /\ i - Len(s) \in DOMAIN t /\ u[i] = t[i - Len(s)]
               /\ j - Len(s) \in DOMAIN t /\ u[j] = t[j - Len(s)]
        <3>1. i - Len(s) # j - Len(s)
            BY <1>1, <1>6
        <3> QED
            BY <1>6, <2>2, <3>1 DEF Distinct
    <2>3. CASE i \in DOMAIN s /\ u[i] = s[i] /\ j - Len(s) \in DOMAIN t /\ u[j] = t[j - Len(s)]
        BY <1>6, <2>3 DEF Elems
    <2>4. CASE j \in DOMAIN s /\ u[j] = s[j] /\ i - Len(s) \in DOMAIN t /\ u[i] = t[i - Len(s)]
        BY <1>6, <2>4 DEF Elems
    <2> QED
        BY <1>2, <2>1, <2>2, <2>3, <2>4
<1> QED
    BY <1>1, <1>5, <1>6 DEF Distinct, u

-----------------------------------------------------------------------------
(* Where the threads are *)

Running(w) == wpc[w] \in {"wait", "pop", "check", "fan"}

\* The wrappers owner o has in hand.
Targets(o) == Elems(call[o].targets)

Awaits(o) == \E w \in Workers :
    /\ call[o].targets = <<w>>
    /\ ~quit[w]
    /\ Running(w) \/ (wpc[w] = "ready" /\ ~created[call[o].proc])

\* thread_lock_ keeps two calls from awaiting workers of one processor, so the
\* event one waits for was set by the worker it created.
OwnerGood(o) ==
    /\ Distinct(call[o].targets)
    /\ opc[o] \notin {"await", "signal", "join"} => call[o].targets = <<>>
    /\ opc[o] \in {"begin", "await"} => lock[call[o].proc] = o
    /\ \A w \in Targets(o) : Home[w] = call[o].proc
    /\ opc[o] \in {"signal", "join"} =>
            \A w \in Targets(o) : wpc[w] \notin {"none", "ready"}
    /\ opc[o] = "await" => Awaits(o)

OwnersGood == \A o \in Owners : OwnerGood(o)

\* A wrapper is in one list or in one owner's hand.
Apart ==
    /\ \A o, b \in Owners : o # b => Targets(o) \cap Targets(b) = {}
    /\ \A o \in Owners, p \in Processors : Targets(o) \cap Elems(threads[p]) = {}

Fresh == \A w \in Workers :
    /\ wpc[w] = "ready" =>
            \E o \in Owners : opc[o] = "await" /\ call[o].targets = <<w>>
    /\ quit[w] => wpc[w] \notin {"none", "ready"}

\* Nobody calls end_thread() or end_all_threads() with sync = false.
Joins == SyncModes \subseteq {TRUE}

\* Then a thread that runs is in its list or in the hand of an owner.
Covered == \A w \in Workers :
    \/ wpc[w] \in {"none", "gone"}
    \/ w \in Elems(threads[Home[w]])
    \/ \E o \in Owners : w \in Targets(o)

AllSync == \A o \in Owners : call[o].sync

Closed == \A p \in Processors : destroyed[p] # "no" =>
    /\ threads[p] = <<>>
    /\ \A q \in Feeds(p) : destroyed[q] = "yes"
    /\ \A o \in Owners : opc[o] # "idle" /\ call[o].proc = p =>
            destroyed[p] = "closing" /\ opc[o] \notin {"begin", "await"}

ThreadsInv ==
    /\ Listed /\ OwnersGood /\ Apart /\ Fresh /\ Closed
    /\ Joins => Covered /\ AllSync


LEMMA WorkerMoves ==
    ASSUME TypeInv, NEW w \in Workers, WorkerStep(w)
    PROVE  /\ UNCHANGED <<threads, lock, destroyed, opc, call, quit>>
           /\ wpc' = [wpc EXCEPT ![w] = wpc'[w]]
           /\ \/ /\ wpc[w] = "ready" /\ wpc'[w] = "wait"
                 /\ created' = [created EXCEPT ![Home[w]] = TRUE]
              \/ /\ Running(w) /\ UNCHANGED created
                 /\ Running(w)' \/ (wpc'[w] = "gone" /\ quit[w])
<1>0. wpc \in [Workers -> WorkerStates]
    BY DEF TypeInv, TypeOK, WorkerTypes
<1>1. CASE Start(w)
    BY <1>0, <1>1 DEF Start, ownerVars
<1>2. CASE PopStep(w)
    BY <1>0, <1>2 DEF PopStep, Take, TimeOut, PopEmpty, PopBatch, PopRest,
                      PopReturn, Running, ownerVars, threadVars
<1>3. CASE Quit(w)
    BY <1>0, <1>3 DEF Quit, Running, ownerVars, threadVars
<1>4. CASE Handle(w) \/ Ignore(w)
    BY <1>0, <1>4 DEF Handle, Ignore, Running, ownerVars, threadVars
<1>5. CASE FanOut(w)
    BY <1>0, <1>5 DEF FanOut, Running, ownerVars, threadVars
<1>6. CASE FanEnd(w)
    BY <1>0, <1>6 DEF FanEnd, Running, ownerVars, threadVars
<1> QED
    BY <1>1, <1>2, <1>3, <1>4, <1>5, <1>6 DEF WorkerStep

\* A worker that announces itself is the one its processor's owner awaits, and
\* one that ends has been told to, so is in no list any more.
LEMMA WorkerThreads ==
    ASSUME TypeInv, ThreadsInv, NEW w \in Workers, WorkerStep(w)
    PROVE  ThreadsInv'
<1>0. /\ wpc \in [Workers -> WorkerStates] /\ created \in [Processors -> BOOLEAN]
      /\ call \in [Owners -> Calls] /\ threads \in [Processors -> Seq(Workers)]
    BY DEF TypeInv, TypeOK, WorkerTypes, ThreadTypes, OwnerTypes
<1>1. /\ UNCHANGED <<threads, lock, destroyed, opc, call, quit>>
      /\ wpc' = [wpc EXCEPT ![w] = wpc'[w]]
      /\ \/ /\ wpc[w] = "ready" /\ wpc'[w] = "wait"
            /\ created' = [created EXCEPT ![Home[w]] = TRUE]
         \/ /\ Running(w) /\ UNCHANGED created
            /\ Running(w)' \/ (wpc'[w] = "gone" /\ quit[w])
    BY WorkerMoves
<1>2. \A v \in Workers : Running(v) /\ ~quit[v] => Running(v)'
    BY <1>0, <1>1 DEF Running
<1>3. \A v \in Workers : wpc[v] \notin {"none", "ready"} => wpc'[v] \notin {"none", "ready"}
    BY <1>0, <1>1 DEF Running
<1>4. \A v \in Workers : wpc'[v] = "ready" => v # w /\ wpc[v] = "ready"
    BY <1>0, <1>1 DEF Running
<1>5. \A o : Targets(o)' = Targets(o)
    BY <1>1 DEF Targets
<1>6. Listed'
    <2> SUFFICES ASSUME NEW p \in Processors, NEW i \in DOMAIN threads[p]
                 PROVE  Running(threads[p][i])'
        BY <1>1 DEF ThreadsInv, Listed, Running
    <2>1. threads[p][i] \in Workers
        BY <1>0
    <2>2. Running(threads[p][i]) /\ ~quit[threads[p][i]]
        BY DEF ThreadsInv, Listed, Running
    <2> QED
        BY <1>1, <1>2, <2>1, <2>2 DEF Running
<1>7. OwnersGood'
    <2> SUFFICES ASSUME NEW o \in Owners PROVE OwnerGood(o)'
        BY DEF OwnersGood
    <2>0. OwnerGood(o) /\ Targets(o) \subseteq Workers
        BY <1>0, ElemsOfSeq DEF ThreadsInv, OwnersGood, Calls, Targets
    <2>1. opc[o] = "await" => Awaits(o)'
        <3> SUFFICES ASSUME opc[o] = "await" PROVE Awaits(o)'
            OBVIOUS
        <3>0. opc[o] = "await"
            OBVIOUS
        <3>1. PICK v \in Workers : /\ call[o].targets = <<v>> /\ ~quit[v]
                                   /\ Running(v) \/ (wpc[v] = "ready" /\ ~created[call[o].proc])
            BY <2>0 DEF OwnerGood, Awaits
        <3>2. CASE Running(v)
            BY <1>1, <1>2, <3>1, <3>2 DEF Awaits
        <3>3. CASE wpc[v] = "ready" /\ ~created[call[o].proc] /\ v = w
            BY <1>1, <3>1, <3>3 DEF Awaits, Running
        <3>4. CASE wpc[v] = "ready" /\ ~created[call[o].proc] /\ v # w
            <4>1. CASE wpc[w] = "ready"
                <5>1. PICK b \in Owners : opc[b] = "await" /\ call[b].targets = <<w>>
                    BY <4>1 DEF ThreadsInv, Fresh
                <5>2. OwnerGood(b)
                    BY DEF ThreadsInv, OwnersGood
                <5>3. w \in Targets(b) /\ v \in Targets(o)
                    BY <3>1, <5>1, ElemsEmpty DEF Targets
                <5>4. Home[w] = call[b].proc /\ lock[call[b].proc] = b /\ lock[call[o].proc] = o
                    BY <2>0, <5>1, <5>2, <5>3 DEF OwnerGood
                <5>5. b # o
                    BY <3>1, <3>4, <5>1
                <5>6. Home[w] # call[o].proc
                    BY <5>4, <5>5
                <5>7. created'[call[o].proc] = created[call[o].proc]
                    <6>1. call[o].proc \in Processors
                        BY <3>0 DEF TypeInv, CallOK, CallGood
                    <6> QED
                        BY <1>0, <1>1, <4>1, <5>6, <6>1 DEF Running
                <5> QED
                    BY <1>0, <1>1, <3>1, <3>4, <5>7 DEF Awaits
            <4>2. CASE Running(w)
                BY <1>0, <1>1, <3>1, <3>4, <4>2 DEF Awaits, Running
            <4> QED
                BY <1>1, <4>1, <4>2
        <3> QED
            BY <3>1, <3>2, <3>3, <3>4
    <2>2. opc[o] \in {"signal", "join"} => \A v \in Targets(o) : wpc'[v] \notin {"none", "ready"}
        BY <1>3, <2>0 DEF OwnerGood
    <2> QED
        BY <1>1, <1>5, <2>0, <2>1, <2>2 DEF OwnerGood
<1>8. Apart'
    BY <1>1, <1>5 DEF ThreadsInv, Apart
<1>9. Fresh'
    BY <1>1, <1>3, <1>4 DEF ThreadsInv, Fresh
<1>10. Closed'
    BY <1>1 DEF ThreadsInv, Closed
<1>11. Joins => Covered' /\ AllSync'
    <2> SUFFICES ASSUME Joins, NEW v \in Workers
                 PROVE  \/ wpc'[v] \in {"none", "gone"}
                        \/ v \in Elems(threads[Home[v]])
                        \/ \E o \in Owners : v \in Targets(o)
        BY <1>1, <1>5 DEF ThreadsInv, Covered, AllSync
    <2>1. wpc'[v] \in {"none", "gone"} \/ wpc[v] \notin {"none", "gone"}
        BY <1>0, <1>1 DEF Running
    <2> QED
        BY <2>1 DEF ThreadsInv, Covered
<1> QED
    BY <1>6, <1>7, <1>8, <1>9, <1>10, <1>11 DEF ThreadsInv


LEMMA TargetTypes ==
    ASSUME TypeInv
    PROVE  /\ \A o \in Owners : Targets(o) \subseteq Workers
           /\ \A p \in Processors : Elems(threads[p]) \subseteq Workers
BY ElemsOfSeq DEF TypeInv, TypeOK, OwnerTypes, ThreadTypes, Calls, Targets

LEMMA ListedElems ==
    ASSUME TypeInv
    PROVE  Listed <=> \A p \in Processors :
                /\ Distinct(threads[p])
                /\ \A w \in Elems(threads[p]) :
                        Home[w] = p /\ Running(w) /\ ~quit[w]
BY DEF Listed, Distinct, Elems, Running

\* Owner o moves wrappers between the list of p and its own hand, or drops some.
LEMMA Move ==
    ASSUME TypeInv, TypeInv', ThreadsInv, NEW o \in Owners, NEW p \in Processors,
           NEW T \in Seq(Workers), NEW c \in Calls, NEW s \in OwnerStates,
           threads' = [threads EXCEPT ![p] = T],
           call' = [call EXCEPT ![o] = c],
           opc' = [opc EXCEPT ![o] = s],
           UNCHANGED wpc,
           c.proc = p, s # "await",
           s \notin {"signal", "join"} => c.targets = <<>>,
           Targets(o) = {} \/ call[o].proc = p,
           Distinct(T), Distinct(c.targets), Elems(T) \cap Elems(c.targets) = {},
           Elems(T) \cup Elems(c.targets) \subseteq Elems(threads[p]) \cup Targets(o),
           \A w \in Elems(T) : Running(w) /\ ~quit'[w],
           \A w \in Targets(o) : wpc[w] \notin {"none", "ready"},
           \A w \in Workers : quit'[w] = quit[w] \/ w \in Targets(o),
           \A q \in Processors : created'[q] => created[q],
           \A q \in Processors : lock'[q] = lock[q] \/ lock[q] \in {Nobody, o},
           s = "begin" => lock'[p] = o,
           Joins => /\ c.sync
                    /\ \A w \in Elems(threads[p]) \cup Targets(o) :
                            w \in Elems(T) \cup Elems(c.targets) \/ wpc[w] = "gone"
    PROVE  /\ Listed' /\ OwnersGood' /\ Apart' /\ Fresh'
           /\ Joins => Covered' /\ AllSync'
<1>0. /\ call \in [Owners -> Calls] /\ threads \in [Processors -> Seq(Workers)]
      /\ opc \in [Owners -> OwnerStates]
      /\ \A b \in Owners : Targets(b) \subseteq Workers
      /\ \A q \in Processors : Elems(threads[q]) \subseteq Workers
    BY TargetTypes DEF TypeInv, TypeOK, ThreadTypes, OwnerTypes
<1>1. /\ call'[o] = c /\ opc'[o] = s /\ threads'[p] = T
      /\ \A b \in Owners : b # o => call'[b] = call[b] /\ opc'[b] = opc[b]
      /\ \A q \in Processors : q # p => threads'[q] = threads[q]
    BY <1>0
<1>2. /\ Targets(o)' = Elems(c.targets)
      /\ \A b \in Owners : b # o => Targets(b)' = Targets(b)
    BY <1>1 DEF Targets
<1>3. /\ \A q \in Processors : /\ Distinct(threads[q])
                               /\ \A w \in Elems(threads[q]) :
                                    Home[w] = q /\ Running(w) /\ ~quit[w]
      /\ \A b \in Owners : OwnerGood(b)
      /\ \A b, d \in Owners : b # d => Targets(b) \cap Targets(d) = {}
      /\ \A b \in Owners, q \in Processors : Targets(b) \cap Elems(threads[q]) = {}
    BY ListedElems DEF ThreadsInv, OwnersGood, Apart
<1>4. \A w \in Elems(T) \cup Elems(c.targets) :
            Home[w] = p /\ w \in Workers /\ wpc[w] \notin {"none", "ready"}
    <2>1. \A w \in Targets(o) : Home[w] = call[o].proc
        BY <1>3 DEF OwnerGood
    <2> QED
        BY <1>0, <1>3, <2>1 DEF Running
<1>5. Listed'
    <2>1. ASSUME NEW q \in Processors
          PROVE  /\ Distinct(threads'[q])
                 /\ \A w \in Elems(threads'[q]) : Home[w] = q /\ Running(w) /\ ~quit'[w]
        <3>1. CASE q = p
            BY <1>1, <1>4, <3>1
        <3>2. CASE q # p
            BY <1>0, <1>1, <1>3, <3>2
        <3> QED
            BY <3>1, <3>2
    <2>2. \A w : Running(w)' <=> Running(w)
        BY DEF Running
    <2>3. \A q : Distinct(threads[q])' <=> Distinct(threads'[q])
        BY DEF Distinct
    <2>4. \A q : Elems(threads[q])' = Elems(threads'[q])
        BY DEF Elems
    <2>5. \A q \in Processors :
                /\ Distinct(threads[q])'
                /\ \A w \in Elems(threads[q])' : Home[w] = q /\ Running(w)' /\ ~quit'[w]
        BY <2>1, <2>2, <2>3, <2>4
    <2> QED
        BY <2>5 DEF Listed, Distinct, Elems, Running
<1>6. OwnersGood'
    <2> SUFFICES ASSUME NEW b \in Owners PROVE OwnerGood(b)'
        BY DEF OwnersGood
    <2>1. CASE b = o
        BY <1>1, <1>2, <1>4, <2>1 DEF OwnerGood
    <2>2. CASE b # o
        <3>0. OwnerGood(b) /\ call'[b] = call[b] /\ opc'[b] = opc[b] /\ Targets(b)' = Targets(b)
            BY <1>1, <1>2, <1>3, <2>2
        <3>1. opc[b] \in {"begin", "await"} => lock'[call[b].proc] = b
            <4>1. b # Nobody
                BY OwnersAssumption
            <4>2. opc[b] \in {"begin", "await"} => call[b].proc \in Processors
                BY DEF TypeInv, CallOK, CallGood
            <4> QED
                BY <2>2, <3>0, <4>1, <4>2 DEF OwnerGood
        <3>2. opc[b] = "await" => Awaits(b)'
            <4> SUFFICES ASSUME opc[b] = "await" PROVE Awaits(b)'
                OBVIOUS
            <4>0. opc[b] = "await"
                OBVIOUS
            <4>1. PICK v \in Workers : /\ call[b].targets = <<v>> /\ ~quit[v]
                                       /\ Running(v) \/ (wpc[v] = "ready" /\ ~created[call[b].proc])
                BY <3>0, <4>0 DEF OwnerGood, Awaits
            <4>2. v \in Targets(b) /\ v \notin Targets(o)
                BY <1>3, <2>2, <4>1, ElemsEmpty DEF Targets
            <4>3. ~quit'[v]
                BY <4>1, <4>2
            <4>4. call[b].proc \in Processors
                BY <4>0 DEF TypeInv, CallOK, CallGood
            <4> QED
                BY <3>0, <4>1, <4>3, <4>4 DEF Awaits, Running
        <3> QED
            BY <3>0, <3>1, <3>2 DEF OwnerGood
    <2> QED
        BY <2>1, <2>2
<1>7. Apart'
    <2>1. ASSUME NEW b \in Owners, NEW d \in Owners, b # d
          PROVE  Targets(b)' \cap Targets(d)' = {}
        <3>1. CASE b = o
            BY <1>2, <1>3, <2>1, <3>1
        <3>2. CASE d = o
            BY <1>2, <1>3, <2>1, <3>2
        <3>3. CASE b # o /\ d # o
            BY <1>2, <1>3, <2>1, <3>3
        <3> QED
            BY <3>1, <3>2, <3>3
    <2>2. ASSUME NEW b \in Owners, NEW q \in Processors
          PROVE  Targets(b)' \cap Elems(threads'[q]) = {}
        <3>1. CASE b = o /\ q = p
            BY <1>1, <1>2, <3>1
        <3>2. CASE b = o /\ q # p
            BY <1>1, <1>2, <1>3, <1>4, <3>2
        <3>3. CASE b # o /\ q = p
            BY <1>1, <1>2, <1>3, <3>3
        <3>4. CASE b # o /\ q # p
            BY <1>1, <1>2, <1>3, <3>4
        <3> QED
            BY <3>1, <3>2, <3>3, <3>4
    <2>3. \A q : Elems(threads[q])' = Elems(threads'[q])
        BY DEF Elems
    <2> QED
        BY <2>1, <2>2, <2>3 DEF Apart
<1>8. Fresh'
    <2> SUFFICES ASSUME NEW w \in Workers
                 PROVE  /\ wpc[w] = "ready" =>
                            \E b \in Owners : opc'[b] = "await" /\ call'[b].targets = <<w>>
                        /\ quit'[w] => wpc[w] \notin {"none", "ready"}
        BY DEF Fresh
    <2>0. /\ wpc[w] = "ready" =>
                \E b \in Owners : opc[b] = "await" /\ call[b].targets = <<w>>
          /\ quit[w] => wpc[w] \notin {"none", "ready"}
        BY DEF ThreadsInv, Fresh
    <2>1. ASSUME wpc[w] = "ready"
          PROVE  \E b \in Owners : opc'[b] = "await" /\ call'[b].targets = <<w>>
        <3>1. PICK b \in Owners : opc[b] = "await" /\ call[b].targets = <<w>>
            BY <2>0, <2>1
        <3>2. w \in Targets(b)
            BY <3>1, ElemsEmpty DEF Targets
        <3>3. b # o
            BY <2>1, <3>2
        <3> QED
            BY <1>1, <3>1, <3>3
    <2> QED
        BY <2>0, <2>1
<1>9. ASSUME Joins PROVE Covered' /\ AllSync'
    <2>0. Covered /\ AllSync
        BY <1>9 DEF ThreadsInv
    <2>1. AllSync'
        BY <1>1, <1>9, <2>0 DEF AllSync
    <2>2. \A q : Elems(threads[q])' = Elems(threads'[q])
        BY DEF Elems
    <2>3. ASSUME NEW w \in Workers, wpc[w] \notin {"none", "gone"}
          PROVE  \/ w \in Elems(threads'[Home[w]])
                 \/ \E b \in Owners : w \in Targets(b)'
        <3>0. Home[w] \in Processors
            BY HomeAssumption
        <3>1. CASE w \in Elems(threads[Home[w]]) /\ Home[w] # p
            BY <1>1, <3>0, <3>1
        <3>2. CASE w \in Elems(threads[p]) \cup Targets(o)
            <4>1. w \in Elems(T) \cup Elems(c.targets)
                BY <1>9, <2>3, <3>2
            <4>2. CASE w \in Elems(T)
                BY <1>1, <1>4, <4>2
            <4>3. CASE w \in Elems(c.targets)
                BY <1>2, <4>3
            <4> QED
                BY <4>1, <4>2, <4>3
        <3>3. CASE \E b \in Owners : b # o /\ w \in Targets(b)
            BY <1>2, <3>3
        <3> QED
            BY <2>0, <2>3, <3>1, <3>2, <3>3 DEF Covered
    <2>4. Covered'
        BY <2>2, <2>3 DEF Covered
    <2> QED
        BY <2>1, <2>4
<1> QED
    BY <1>5, <1>6, <1>7, <1>8, <1>9


LEMMA SameThreads ==
    ASSUME ThreadsInv, UNCHANGED <<threads, lock, created, wpc, quit, opc, call>>
    PROVE  /\ Listed' /\ OwnersGood' /\ Apart' /\ Fresh'
           /\ Joins => Covered' /\ AllSync'
<1>1. Listed' /\ Fresh'
    BY DEF ThreadsInv, Listed, Fresh
<1>2. \A o : Targets(o)' = Targets(o) /\ (Awaits(o)' <=> Awaits(o))
    BY DEF Targets, Awaits, Running
<1>3. OwnersGood'
    BY <1>2 DEF ThreadsInv, OwnersGood, OwnerGood
<1>4. Apart'
    BY <1>2 DEF ThreadsInv, Apart
<1>5. Joins => Covered' /\ AllSync'
    BY <1>2 DEF ThreadsInv, Covered, AllSync
<1> QED
    BY <1>1, <1>3, <1>4, <1>5

\* The wrappers leave the list for the owner's hand.
LEMMA TakeMoves ==
    ASSUME TypeInv, TypeInv', ThreadsInv, NEW o \in Owners, NEW p \in Processors,
           NEW n \in Nat, NEW sync \in BOOLEAN, Joins => sync,
           NEW ws \in Seq(Workers), NEW rest \in Seq(Workers),
           TakeThreads(o, p, n, ws, rest, sync),
           Elems(ws) \cup Elems(rest) = Elems(threads[p]),
           Elems(ws) \cap Elems(rest) = {},
           Distinct(ws), Distinct(rest),
           opc[o] \notin {"await", "signal", "join"},
           UNCHANGED <<lock, created, workerVars>>
    PROVE  /\ Listed' /\ OwnersGood' /\ Apart' /\ Fresh'
           /\ Joins => Covered' /\ AllSync'
<1> DEFINE c == [proc |-> p, left |-> n, sync |-> sync, targets |-> ws]
<1>1. c \in Calls /\ c.proc = p /\ c.targets = ws /\ c.sync = sync
    BY DEF Calls
<1>2. /\ threads' = [threads EXCEPT ![p] = rest]
      /\ call' = [call EXCEPT ![o] = c]
      /\ opc' = [opc EXCEPT ![o] = "signal"]
      /\ UNCHANGED <<wpc, quit, lock, created>>
    BY DEF TakeThreads, workerVars
<1>3. Targets(o) = {}
    BY ElemsEmpty DEF ThreadsInv, OwnersGood, OwnerGood, Targets
<1>4. \A w \in Elems(threads[p]) : Running(w) /\ ~quit[w]
    BY ListedElems DEF ThreadsInv
<1>5. "signal" \in OwnerStates
    BY DEF OwnerStates
<1> HIDE DEF c
<1> QED
    BY <1>1, <1>2, <1>3, <1>4, <1>5, Move

LEMMA TakeOneMoves ==
    ASSUME TypeInv, TypeInv', ThreadsInv, NEW o \in Owners, NEW p \in Processors,
           NEW n \in Nat, NEW sync \in BOOLEAN, Joins => sync,
           threads[p] # <<>>,
           TakeThreads(o, p, n, <<Head(threads[p])>>, Tail(threads[p]), sync),
           opc[o] \notin {"await", "signal", "join"},
           UNCHANGED <<lock, created, workerVars>>
    PROVE  /\ Listed' /\ OwnersGood' /\ Apart' /\ Fresh'
           /\ Joins => Covered' /\ AllSync'
<1>1. threads[p] \in Seq(Workers) /\ Distinct(threads[p])
    BY ListedElems DEF ThreadsInv, TypeInv, TypeOK, ThreadTypes
<1>2. /\ Elems(threads[p]) = {Head(threads[p])} \cup Elems(Tail(threads[p]))
      /\ Head(threads[p]) \in Workers /\ Tail(threads[p]) \in Seq(Workers)
      /\ Head(threads[p]) \notin Elems(Tail(threads[p]))
      /\ Distinct(Tail(threads[p]))
    BY <1>1, ElemsHeadTail
<1>3. /\ <<Head(threads[p])>> \in Seq(Workers)
      /\ Elems(<<Head(threads[p])>>) = {Head(threads[p])}
      /\ Distinct(<<Head(threads[p])>>)
    BY <1>2, ElemsEmpty
<1> DEFINE h == <<Head(threads[p])>>
           t == Tail(threads[p])
<1>4. /\ h \in Seq(Workers) /\ t \in Seq(Workers) /\ Distinct(h) /\ Distinct(t)
      /\ Elems(h) \cup Elems(t) = Elems(threads[p]) /\ Elems(h) \cap Elems(t) = {}
      /\ TakeThreads(o, p, n, h, t, sync)
    BY <1>2, <1>3
<1> HIDE DEF h, t
<1> QED
    BY <1>4, TakeMoves

LEMMA TakeAllMoves ==
    ASSUME TypeInv, TypeInv', ThreadsInv, NEW o \in Owners, NEW p \in Processors,
           NEW sync \in BOOLEAN, Joins => sync,
           TakeThreads(o, p, 0, threads[p], <<>>, sync),
           opc[o] \notin {"await", "signal", "join"},
           UNCHANGED <<lock, created, workerVars>>
    PROVE  /\ Listed' /\ OwnersGood' /\ Apart' /\ Fresh'
           /\ Joins => Covered' /\ AllSync'
<1>1. threads[p] \in Seq(Workers) /\ Distinct(threads[p]) /\ <<>> \in Seq(Workers)
    BY ListedElems DEF ThreadsInv, TypeInv, TypeOK, ThreadTypes
<1>2. Elems(<<>>) = {} /\ Distinct(<<>>)
    BY ElemsEmpty
<1> QED
    BY <1>1, <1>2, TakeMoves

\* After the first wrapper's thread has been told to quit, or has ended.
LEMMA AfterMoves ==
    ASSUME TypeInv, TypeInv', ThreadsInv, NEW o \in Owners,
           opc[o] \in {"signal", "join"},
           AfterOne(o, Tail(call[o].targets)),
           Joins => wpc[Head(call[o].targets)] = "gone",
           \A w \in Workers : quit'[w] = quit[w] \/ w \in Targets(o),
           UNCHANGED <<threads, lock, created, wpc>>
    PROVE  /\ Listed' /\ OwnersGood' /\ Apart' /\ Fresh'
           /\ Joins => Covered' /\ AllSync'
<1> DEFINE ts == Tail(call[o].targets)
           c == [call[o] EXCEPT !.targets = ts]
           s == IF ts # <<>> THEN "signal"
                ELSE IF call[o].left > 0 THEN "end" ELSE "idle"
           p == call[o].proc
<1>1. /\ call[o] \in Calls /\ call[o].targets \in Seq(Workers) /\ call[o].targets # <<>>
      /\ p \in Processors
    BY DEF TypeInv, TypeOK, OwnerTypes, CallOK, CallGood, Calls
<1>2. OwnerGood(o)
    BY DEF ThreadsInv, OwnersGood
<1>3. /\ Targets(o) = {Head(call[o].targets)} \cup Elems(ts)
      /\ ts \in Seq(Workers) /\ Distinct(ts)
    BY <1>1, <1>2, ElemsHeadTail DEF OwnerGood, Targets
<1>4. /\ c \in Calls /\ c.proc = p /\ c.targets = ts /\ c.sync = call[o].sync
      /\ s \in OwnerStates /\ s \notin {"await", "begin"}
      /\ s \notin {"signal", "join"} => ts = <<>>
    <2> HIDE DEF ts
    <2> QED
        BY <1>1, <1>3 DEF Calls, OwnerStates
<1>5. call' = [call EXCEPT ![o] = c] /\ opc' = [opc EXCEPT ![o] = s]
    BY DEF AfterOne
<1>6. /\ threads[p] \in Seq(Workers) /\ Distinct(threads[p])
      /\ threads' = [threads EXCEPT ![p] = threads[p]]
      /\ \A w \in Elems(threads[p]) : Running(w) /\ ~quit[w] /\ w \in Workers
      /\ Targets(o) \cap Elems(threads[p]) = {}
    BY <1>1, ListedElems, TargetTypes
    DEF ThreadsInv, Apart, TypeInv, TypeOK, ThreadTypes
<1>7. \A w \in Elems(threads[p]) : Running(w) /\ ~quit'[w]
    BY <1>6
<1>8. \A w \in Targets(o) : wpc[w] \notin {"none", "ready"}
    BY <1>2 DEF OwnerGood
<1>9. Elems(threads[p]) \cap Elems(ts) = {}
    BY <1>3, <1>6
<1>10. Joins => /\ c.sync
                /\ \A w \in Elems(threads[p]) \cup Targets(o) :
                        w \in Elems(threads[p]) \cup Elems(ts) \/ wpc[w] = "gone"
    BY <1>3, <1>4 DEF ThreadsInv, AllSync
<1>11. \A q \in Processors : (created'[q] => created[q]) /\ lock'[q] = lock[q]
    OBVIOUS
<1> HIDE DEF c, s, ts, p
<1>12. Targets(o) = {} \/ call[o].proc = p
    BY DEF p
<1> QED
    BY <1>1, <1>3, <1>4, <1>5, <1>6, <1>7, <1>8, <1>9, <1>10, <1>11, <1>12, Move


\* An owner with no wrapper in hand goes on without touching a list.
LEMMA StayMoves ==
    ASSUME TypeInv, TypeInv', ThreadsInv, NEW o \in Owners, NEW c \in Calls,
           NEW s \in OwnerStates,
           c.proc \in Processors, c.targets = <<>>, c.sync = call[o].sync,
           s \notin {"await", "signal", "join"},
           s = "begin" => lock'[c.proc] = o,
           opc[o] \notin {"await", "signal", "join"},
           call' = [call EXCEPT ![o] = c],
           opc' = [opc EXCEPT ![o] = s],
           \A q \in Processors : created'[q] => created[q],
           \A q \in Processors : lock'[q] = lock[q] \/ lock[q] \in {Nobody, o},
           UNCHANGED <<threads, wpc, quit>>
    PROVE  /\ Listed' /\ OwnersGood' /\ Apart' /\ Fresh'
           /\ Joins => Covered' /\ AllSync'
<1> DEFINE p == c.proc
           T == threads[p]
<1>1. /\ T \in Seq(Workers) /\ threads' = [threads EXCEPT ![p] = T]
      /\ Distinct(T) /\ \A w \in Elems(T) : Running(w) /\ ~quit[w]
    BY ListedElems DEF ThreadsInv, TypeInv, TypeOK, ThreadTypes
<1>2. Targets(o) = {}
    BY ElemsEmpty DEF ThreadsInv, OwnersGood, OwnerGood, Targets
<1>3. Distinct(c.targets) /\ Elems(c.targets) = {}
    BY ElemsEmpty
<1>4. Joins => c.sync
    BY DEF ThreadsInv, AllSync
<1>5. p \in Processors /\ c.proc = p
    OBVIOUS
<1>6. Elems(T) = Elems(threads[p])
    OBVIOUS
<1> HIDE DEF T, p
<1>7. s = "begin" => lock'[p] = o
    BY <1>5
<1>8. /\ \A w \in Elems(T) : Running(w) /\ ~quit'[w]
      /\ \A w \in Targets(o) : wpc[w] \notin {"none", "ready"}
      /\ \A w \in Workers : quit'[w] = quit[w] \/ w \in Targets(o)
    BY <1>1, <1>2
<1>9. Elems(T) \cap Elems(c.targets) = {}
      /\ Elems(T) \cup Elems(c.targets) \subseteq Elems(threads[p]) \cup Targets(o)
    BY <1>3, <1>6
<1>10. Joins => /\ c.sync
                /\ \A w \in Elems(threads[p]) \cup Targets(o) :
                        w \in Elems(T) \cup Elems(c.targets) \/ wpc[w] = "gone"
    BY <1>2, <1>4, <1>6
<1> QED
    BY <1>1, <1>2, <1>3, <1>5, <1>7, <1>8, <1>9, <1>10, Move

LEMMA CallMoves ==
    ASSUME TypeInv, TypeInv', ThreadsInv, NEW o \in Owners, OwnerCall(o)
    PROVE  /\ Listed' /\ OwnersGood' /\ Apart' /\ Fresh'
           /\ Joins => Covered' /\ AllSync'
<1>0. /\ call \in [Owners -> Calls] /\ call[o] \in Calls
      /\ created \in [Processors -> BOOLEAN]
      /\ lock \in [Processors -> Owners \cup {Nobody}]
    BY DEF TypeInv, TypeOK, OwnerTypes, ThreadTypes
<1>1. ASSUME NEW p \in Processors, NEW n \in Counts, BeginThread(o, p, n)
      PROVE  /\ Listed' /\ OwnersGood' /\ Apart' /\ Fresh'
             /\ Joins => Covered' /\ AllSync'
    <2> DEFINE c == [call[o] EXCEPT !.proc = p, !.left = n]
    <2>1. call[o].targets = <<>>
        BY <1>1 DEF BeginThread, ThreadsInv, OwnersGood, OwnerGood
    <2>2. /\ c \in Calls /\ c.proc = p /\ c.targets = <<>> /\ c.sync = call[o].sync
        BY <1>0, <2>1, CountsAssumption DEF Calls
    <2>3. call' = [call EXCEPT ![o] = c] /\ opc' = [opc EXCEPT ![o] = "begin"]
        BY <1>0, <1>1 DEF BeginThread
    <2>4. /\ lock' = [lock EXCEPT ![p] = o] /\ lock[p] = Nobody
          /\ opc[o] = "idle" /\ UNCHANGED <<threads, created, wpc, quit>>
        BY <1>1 DEF BeginThread, workerVars
    <2>5. "begin" \in OwnerStates
        BY DEF OwnerStates
    <2>6. /\ lock'[p] = o
          /\ \A q \in Processors : lock'[q] = lock[q] \/ lock[q] \in {Nobody, o}
          /\ \A q \in Processors : created'[q] => created[q]
        BY <1>0, <2>4
    <2> HIDE DEF c
    <2> QED
        BY <2>2, <2>3, <2>4, <2>5, <2>6, StayMoves
<1>2. ASSUME NEW p \in Processors, NEW n \in Counts, NEW sync \in SyncModes,
             EndThread(o, p, n, sync)
      PROVE  /\ Listed' /\ OwnersGood' /\ Apart' /\ Fresh'
             /\ Joins => Covered' /\ AllSync'
    <2>0. n - 1 \in Nat
        BY CountsAssumption
    <2>1. sync \in BOOLEAN /\ (Joins => sync)
        BY SyncAssumption DEF Joins
    <2>2. /\ TakeThreads(o, p, n - 1, <<Head(threads[p])>>, Tail(threads[p]), sync)
          /\ opc[o] \notin {"await", "signal", "join"} /\ threads[p] # <<>>
          /\ UNCHANGED <<lock, created, workerVars>>
        BY <1>2 DEF EndThread
    <2> DEFINE m == n - 1
    <2>3. m \in Nat /\ TakeThreads(o, p, m, <<Head(threads[p])>>, Tail(threads[p]), sync)
        BY <2>0, <2>2
    <2> HIDE DEF m
    <2> QED
        BY <2>1, <2>2, <2>3, TakeOneMoves
<1>3. ASSUME NEW p \in Processors, NEW sync \in SyncModes, EndAllThreads(o, p, sync)
      PROVE  /\ Listed' /\ OwnersGood' /\ Apart' /\ Fresh'
             /\ Joins => Covered' /\ AllSync'
    <2>1. sync \in BOOLEAN /\ (Joins => sync)
        BY SyncAssumption DEF Joins
    <2> QED
        BY <1>3, <2>1, TakeAllMoves DEF EndAllThreads
<1>4. ASSUME NEW p \in Processors, Destruct(o, p)
      PROVE  /\ Listed' /\ OwnersGood' /\ Apart' /\ Fresh'
             /\ Joins => Covered' /\ AllSync'
    <2>1. CASE threads[p] = <<>>
        BY <1>4, <2>1, SameThreads DEF Destruct, ownerVars, workerVars
    <2>2. CASE threads[p] # <<>>
        BY <1>4, <2>2, TakeAllMoves DEF Destruct
    <2> QED
        BY <2>1, <2>2
<1> QED
    BY <1>1, <1>2, <1>3, <1>4 DEF OwnerCall

\* The thread that begin_thread() creates is nobody's yet.
LEMMA CreateMoves ==
    ASSUME TypeInv, TypeInv', ThreadsInv, NEW o \in Owners, Create(o)
    PROVE  /\ Listed' /\ OwnersGood' /\ Apart' /\ Fresh'
           /\ Joins => Covered' /\ AllSync'
<1> DEFINE p == call[o].proc
<1>0. /\ call \in [Owners -> Calls] /\ call[o] \in Calls /\ p \in Processors
      /\ created \in [Processors -> BOOLEAN] /\ opc \in [Owners -> OwnerStates]
      /\ wpc \in [Workers -> WorkerStates]
      /\ \A b \in Owners : Targets(b) \subseteq Workers
      /\ \A q \in Processors : Elems(threads[q]) \subseteq Workers
    BY TargetTypes
    DEF Create, TypeInv, TypeOK, OwnerTypes, ThreadTypes, WorkerTypes, CallOK, CallGood
<1>1. PICK w \in Workers :
        /\ wpc[w] = "none" /\ Home[w] = p
        /\ wpc' = [wpc EXCEPT ![w] = "ready"]
        /\ call' = [call EXCEPT ![o].targets = <<w>>]
    BY DEF Create
<1>2. /\ opc[o] = "begin" /\ opc' = [opc EXCEPT ![o] = "await"]
      /\ created' = [created EXCEPT ![p] = FALSE]
      /\ UNCHANGED <<threads, lock, quit>>
    BY DEF Create, ResetsCreated
<1>3. /\ call'[o].targets = <<w>> /\ call'[o].proc = p /\ call'[o].sync = call[o].sync
      /\ opc'[o] = "await"
      /\ \A b \in Owners : b # o => call'[b] = call[b] /\ opc'[b] = opc[b]
      /\ wpc'[w] = "ready" /\ \A v \in Workers : v # w => wpc'[v] = wpc[v]
    BY <1>0, <1>1, <1>2 DEF Calls
<1>4. /\ Targets(o)' = {w} /\ Distinct(call'[o].targets)
      /\ \A b \in Owners : b # o => Targets(b)' = Targets(b)
    BY <1>3, ElemsEmpty DEF Targets
<1>5. /\ \A b \in Owners : OwnerGood(b)
      /\ \A b, d \in Owners : b # d => Targets(b) \cap Targets(d) = {}
      /\ \A b \in Owners, q \in Processors : Targets(b) \cap Elems(threads[q]) = {}
      /\ \A v \in Workers : quit[v] => wpc[v] \notin {"none", "ready"}
      /\ \A q \in Processors : \A v \in Elems(threads[q]) :
                Home[v] = q /\ Running(v) /\ ~quit[v]
    BY ListedElems DEF ThreadsInv, OwnersGood, Apart, Fresh
<1>6. \A b \in Owners : w \notin Targets(b)
    <2> SUFFICES ASSUME NEW b \in Owners, w \in Targets(b) PROVE FALSE
        OBVIOUS
    <2>0. OwnerGood(b) /\ w \in Targets(b)
        BY <1>5
    <2>1. CASE opc[b] \in {"signal", "join"}
        BY <1>1, <2>0, <2>1 DEF OwnerGood
    <2>2. CASE opc[b] = "await"
        <3>1. PICK v \in Workers : call[b].targets = <<v>> /\ wpc[v] # "none"
            BY <2>0, <2>2 DEF OwnerGood, Awaits, Running
        <3>2. Targets(b) = {v}
            BY <3>1, ElemsEmpty DEF Targets
        <3> QED
            BY <1>1, <2>0, <3>1, <3>2
    <2>3. CASE opc[b] \notin {"await", "signal", "join"}
        BY <2>0, <2>3, ElemsEmpty DEF OwnerGood, Targets
    <2> QED
        BY <2>1, <2>2, <2>3
<1>7. \A q \in Processors : w \notin Elems(threads[q])
    BY <1>1, <1>5 DEF Running
<1> HIDE DEF p
<1>8. Listed'
    <2> SUFFICES ASSUME NEW q \in Processors, NEW i \in DOMAIN threads[q]
                 PROVE  wpc'[threads[q][i]] = wpc[threads[q][i]]
        BY <1>2 DEF ThreadsInv, Listed
    <2>1. threads[q][i] \in Elems(threads[q])
        BY DEF Elems
    <2> QED
        BY <1>0, <1>3, <1>7, <2>1
<1>9. OwnersGood'
    <2> SUFFICES ASSUME NEW b \in Owners PROVE OwnerGood(b)'
        BY DEF OwnersGood
    <2>1. CASE b = o
        <3>1. lock[p] = o
            BY <1>2, <1>5 DEF OwnerGood, p
        <3>2. Awaits(o)'
            BY <1>0, <1>1, <1>2, <1>3, <1>5 DEF Awaits
        <3> QED
            BY <1>1, <1>2, <1>3, <1>4, <2>1, <3>1, <3>2 DEF OwnerGood
    <2>2. CASE b # o
        <3>0. /\ OwnerGood(b) /\ call'[b] = call[b] /\ opc'[b] = opc[b]
              /\ Targets(b)' = Targets(b)
              /\ \A v \in Targets(b) : wpc'[v] = wpc[v]
            BY <1>0, <1>3, <1>4, <1>5, <1>6, <2>2
        <3>1. ASSUME opc[b] = "await" PROVE Awaits(b)'
            <4>1. PICK v \in Workers : /\ call[b].targets = <<v>> /\ ~quit[v]
                                       /\ Running(v) \/ (wpc[v] = "ready" /\ ~created[call[b].proc])
                BY <3>0, <3>1 DEF OwnerGood, Awaits
            <4>2. v \in Targets(b)
                BY <4>1, ElemsEmpty DEF Targets
            <4>3. wpc'[v] = wpc[v] /\ quit' = quit /\ call'[b] = call[b]
                BY <1>2, <3>0, <4>2
            <4>4. call[b].proc \in Processors
                BY <3>1 DEF TypeInv, CallOK, CallGood
            <4>5. created'[call[b].proc] => created[call[b].proc]
                BY <1>0, <1>2, <4>4
            <4> QED
                BY <4>1, <4>3, <4>5 DEF Awaits, Running
        <3> QED
            BY <1>2, <3>0, <3>1 DEF OwnerGood
    <2> QED
        BY <2>1, <2>2
<1>10. Apart'
    <2>1. ASSUME NEW b \in Owners, NEW d \in Owners, b # d
          PROVE  Targets(b)' \cap Targets(d)' = {}
        <3>1. CASE b = o
            BY <1>4, <1>6, <2>1, <3>1
        <3>2. CASE d = o
            BY <1>4, <1>6, <2>1, <3>2
        <3>3. CASE b # o /\ d # o
            BY <1>4, <1>5, <2>1, <3>3
        <3> QED
            BY <3>1, <3>2, <3>3
    <2>2. ASSUME NEW b \in Owners, NEW q \in Processors
          PROVE  Targets(b)' \cap Elems(threads[q]) = {}
        BY <1>4, <1>5, <1>7
    <2> QED
        BY <1>2, <2>1, <2>2 DEF Apart
<1>11. Fresh'
    <2> SUFFICES ASSUME NEW v \in Workers
                 PROVE  /\ wpc'[v] = "ready" =>
                            \E b \in Owners : opc'[b] = "await" /\ call'[b].targets = <<v>>
                        /\ quit[v] => wpc'[v] \notin {"none", "ready"}
        BY <1>2 DEF Fresh
    <2>1. CASE v = w
        BY <1>1, <1>3, <1>5, <2>1
    <2>2. CASE v # w
        <3>1. ASSUME wpc[v] = "ready"
              PROVE  \E b \in Owners : opc'[b] = "await" /\ call'[b].targets = <<v>>
            <4>1. PICK b \in Owners : opc[b] = "await" /\ call[b].targets = <<v>>
                BY <3>1 DEF ThreadsInv, Fresh
            <4> QED
                BY <1>2, <1>3, <4>1
        <3> QED
            BY <1>3, <1>5, <2>2, <3>1
    <2> QED
        BY <2>1, <2>2
<1>12. ASSUME Joins PROVE Covered' /\ AllSync'
    <2>0. Covered /\ AllSync
        BY <1>12 DEF ThreadsInv
    <2>1. AllSync'
        BY <1>3, <2>0 DEF AllSync
    <2>2. ASSUME NEW v \in Workers, wpc'[v] \notin {"none", "gone"}
          PROVE  v \in Elems(threads[Home[v]]) \/ \E b \in Owners : v \in Targets(b)'
        <3>1. CASE v = w
            BY <1>4, <3>1
        <3>2. CASE v # w
            <4>1. v \in Elems(threads[Home[v]]) \/ \E b \in Owners : v \in Targets(b)
                BY <1>3, <2>0, <2>2, <3>2 DEF Covered
            <4>2. ASSUME NEW b \in Owners, v \in Targets(b)
                  PROVE  v \in Targets(b)'
                <5>1. b # o
                    BY <1>2, <1>5, <4>2, ElemsEmpty DEF OwnerGood, Targets
                <5> QED
                    BY <1>4, <4>2, <5>1
            <4> QED
                BY <4>1, <4>2
        <3> QED
            BY <3>1, <3>2
    <2> QED
        BY <1>2, <2>1, <2>2 DEF Covered
<1> QED
    BY <1>8, <1>9, <1>10, <1>11, <1>12


LEMMA StepMoves ==
    ASSUME TypeInv, TypeInv', ThreadsInv, NEW o \in Owners, OwnerStep(o)
    PROVE  /\ Listed' /\ OwnersGood' /\ Apart' /\ Fresh'
           /\ Joins => Covered' /\ AllSync'
<1>0. /\ call \in [Owners -> Calls] /\ call[o] \in Calls
      /\ CallGood(call[o], opc[o])
      /\ created \in [Processors -> BOOLEAN]
      /\ lock \in [Processors -> Owners \cup {Nobody}]
      /\ threads \in [Processors -> Seq(Workers)]
      /\ opc[o] # "idle" => call[o].proc \in Processors
    BY DEF TypeInv, TypeOK, OwnerTypes, ThreadTypes, CallOK, CallGood
<1>00. OwnerGood(o)
    BY DEF ThreadsInv, OwnersGood
<1>1. CASE Create(o)
    BY <1>1, CreateMoves
<1>2. CASE CreateFails(o) \/ BeginReturn(o)
    <2>1. /\ opc[o] = "begin" /\ BeginDone(o)
          /\ created' = [created EXCEPT ![call[o].proc] = FALSE] \/ UNCHANGED created
        BY <1>2 DEF CreateFails, BeginReturn, ResetsCreated
    <2>2. /\ lock' = [lock EXCEPT ![call[o].proc] = Nobody]
          /\ opc' = [opc EXCEPT ![o] = "idle"]
          /\ call' = [call EXCEPT ![o] = call[o]]
          /\ UNCHANGED <<threads, wpc, quit>>
        BY <1>0, <2>1 DEF BeginDone, workerVars
    <2>3. /\ call[o].proc \in Processors /\ call[o].targets = <<>>
          /\ lock[call[o].proc] = o /\ "idle" \in OwnerStates
        BY <1>0, <1>00, <2>1 DEF OwnerGood, OwnerStates
    <2>4. /\ \A q \in Processors : lock'[q] = lock[q] \/ lock[q] \in {Nobody, o}
          /\ \A q \in Processors : created'[q] => created[q]
        BY <1>0, <2>1, <2>2, <2>3
    <2> QED
        BY <1>0, <2>1, <2>2, <2>3, <2>4, StayMoves
<1>3. CASE Created(o)
    <2> DEFINE p == call[o].proc
               T == threads[p] \o call[o].targets
               c == [call[o] EXCEPT !.targets = <<>>, !.left = @ - 1]
    <2>1. /\ opc[o] = "await" /\ created[p] /\ p \in Processors
          /\ threads' = [threads EXCEPT ![p] = T]
          /\ call' = [call EXCEPT ![o] = c]
          /\ opc' = [opc EXCEPT ![o] = "begin"]
          /\ UNCHANGED <<lock, created, wpc, quit>>
        BY <1>0, <1>3 DEF Created, workerVars
    <2>2. PICK w \in Workers : call[o].targets = <<w>> /\ ~quit[w] /\ Running(w)
        BY <1>00, <2>1 DEF OwnerGood, Awaits
    <2> DEFINE L == threads[p]
               W == <<w>>
    <2>3. W \in Seq(Workers) /\ Elems(W) = {w} /\ Distinct(W) /\ Targets(o) = {w}
        BY <2>2, ElemsEmpty DEF Targets
    <2>4. /\ L \in Seq(Workers) /\ Distinct(L)
          /\ \A v \in Elems(L) : Running(v) /\ ~quit[v]
        BY <1>0, <2>1, ListedElems DEF ThreadsInv
    <2>5. Targets(o) \cap Elems(L) = {}
        BY <2>1 DEF ThreadsInv, Apart
    <2>6. T = L \o W
        BY <2>2
    <2>7. L = threads[p]
        OBVIOUS
    <2> HIDE DEF T, L, W
    <2>8. T \in Seq(Workers) /\ Distinct(T) /\ Elems(T) = Elems(L) \cup {w}
        <3>1. Elems(L) \cap Elems(W) = {}
            BY <2>3, <2>5
        <3> QED
            BY <2>3, <2>4, <2>6, <3>1, ElemsConcat
    <2>9. /\ c \in Calls /\ c.proc = p /\ c.targets = <<>> /\ c.sync = call[o].sync
        <3>1. call[o].left - 1 \in Nat
            BY <1>0, <2>1 DEF CallGood, Calls
        <3>2. <<>> \in Seq(Workers)
            OBVIOUS
        <3> QED
            BY <1>0, <3>1, <3>2 DEF Calls
    <2>10. Elems(c.targets) = {} /\ Distinct(c.targets) /\ "begin" \in OwnerStates
        BY <2>9, ElemsEmpty DEF OwnerStates
    <2>11. lock'[p] = o /\ call[o].proc = p
        BY <1>00, <2>1 DEF OwnerGood
    <2>12. Joins => c.sync
        BY <2>9 DEF ThreadsInv, AllSync
    <2> HIDE DEF T, c, p
    <2>13. /\ \A v \in Elems(T) : Running(v) /\ ~quit'[v]
           /\ \A v \in Targets(o) : wpc[v] \notin {"none", "ready"}
           /\ \A v \in Workers : quit'[v] = quit[v] \/ v \in Targets(o)
           /\ Elems(T) \cap Elems(c.targets) = {}
           /\ Elems(T) \cup Elems(c.targets) \subseteq Elems(threads[p]) \cup Targets(o)
        BY <2>1, <2>2, <2>7, <2>3, <2>4, <2>8, <2>10 DEF Running
    <2>14. Joins => /\ c.sync
                    /\ \A v \in Elems(threads[p]) \cup Targets(o) :
                            v \in Elems(T) \cup Elems(c.targets) \/ wpc[v] = "gone"
        BY <2>3, <2>7, <2>8, <2>12
    <2>15. \A q \in Processors : created'[q] => created[q]
        BY <2>1
    <2>16. \A q \in Processors : lock'[q] = lock[q] \/ lock[q] \in {Nobody, o}
        BY <2>1
    <2>17. Targets(o) = {} \/ call[o].proc = p
        BY <2>11
    <2>18. "begin" = "begin" => lock'[p] = o
        BY <2>11
    <2> QED
        BY <2>1, <2>8, <2>9, <2>10, <2>13, <2>14, <2>15, <2>16, <2>17, <2>18, Move
<1>4. CASE EndMore(o)
    <2> DEFINE p == call[o].proc
               n == call[o].left - 1
               sync == call[o].sync
    <2>1. /\ opc[o] = "end" /\ p \in Processors /\ n \in Nat /\ sync \in BOOLEAN
          /\ threads[p] # <<>> /\ UNCHANGED <<lock, created, workerVars>>
          /\ TakeThreads(o, p, n, <<Head(threads[p])>>, Tail(threads[p]), sync)
        BY <1>0, <1>4 DEF EndMore, CallGood, Calls
    <2>2. Joins => sync
        BY DEF ThreadsInv, AllSync
    <2> HIDE DEF p, n, sync
    <2> QED
        BY <2>1, <2>2, TakeOneMoves
<1>5. CASE EndNoMore(o)
    <2>1. /\ opc[o] = "end" /\ call' = [call EXCEPT ![o] = call[o]]
          /\ opc' = [opc EXCEPT ![o] = "idle"]
          /\ UNCHANGED <<threads, lock, created, wpc, quit>>
        BY <1>0, <1>5 DEF EndNoMore, threadVars, workerVars
    <2>2. call[o].proc \in Processors /\ call[o].targets = <<>> /\ "idle" \in OwnerStates
        BY <1>0, <1>00, <2>1 DEF OwnerGood, OwnerStates
    <2>3. \A q \in Processors : (created'[q] => created[q]) /\ lock'[q] = lock[q]
        BY <2>1
    <2> QED
        BY <1>0, <2>1, <2>2, <2>3, StayMoves
<1>6. CASE SignalQuit(o)
    <2> DEFINE w == Head(call[o].targets)
    <2>1. /\ opc[o] = "signal" /\ quit' = [quit EXCEPT ![w] = TRUE]
          /\ UNCHANGED <<threads, lock, created, wpc>>
        BY <1>6 DEF SignalQuit, threadVars
    <2>2. /\ call[o].targets \in Seq(Workers) /\ call[o].targets # <<>>
          /\ w \in Targets(o) /\ call[o].proc \in Processors
        BY <1>0, <2>1, ElemsHeadTail DEF CallGood, Calls, Targets
    <2>3. \A v \in Workers : quit'[v] = quit[v] \/ v \in Targets(o)
        BY <2>1, <2>2 DEF TypeInv, TypeOK, WorkerTypes
    <2>4. CASE ~call[o].sync
        <3>1. AfterOne(o, Tail(call[o].targets))
            BY <1>6, <2>4 DEF SignalQuit
        <3>2. ~Joins
            BY <2>4 DEF ThreadsInv, AllSync
        <3> QED
            BY <2>1, <2>3, <3>1, <3>2, AfterMoves
    <2>5. CASE call[o].sync
        <3> DEFINE p == call[o].proc
                   T == threads[p]
        <3>1. /\ opc' = [opc EXCEPT ![o] = "join"] /\ call' = [call EXCEPT ![o] = call[o]]
              /\ threads' = [threads EXCEPT ![p] = T] /\ "join" \in OwnerStates
            BY <1>0, <1>6, <2>1, <2>5 DEF SignalQuit, OwnerStates
        <3>2. /\ T \in Seq(Workers) /\ Distinct(T) /\ p \in Processors /\ call[o].proc = p
              /\ \A v \in Elems(T) : Running(v) /\ ~quit[v] /\ v \in Workers
              /\ Targets(o) \cap Elems(T) = {}
            BY <1>0, <2>2, ListedElems, TargetTypes DEF ThreadsInv, Apart
        <3>3. /\ Distinct(call[o].targets) /\ Elems(call[o].targets) = Targets(o)
              /\ \A v \in Targets(o) : wpc[v] \notin {"none", "ready"}
            BY <1>00, <2>1 DEF OwnerGood, Targets
        <3>4. \A v \in Elems(T) : Running(v) /\ ~quit'[v]
            BY <2>3, <3>2
        <3>5. \A q \in Processors : (created'[q] => created[q]) /\ lock'[q] = lock[q]
            BY <2>1
        <3>6. Elems(threads[p]) = Elems(T)
            OBVIOUS
        <3>7. Joins => call[o].sync
            BY <2>5
        <3> HIDE DEF p, T
        <3>8. /\ Elems(T) \cap Elems(call[o].targets) = {}
              /\ Elems(T) \cup Elems(call[o].targets) \subseteq Elems(threads[p]) \cup Targets(o)
              /\ \A v \in Elems(threads[p]) \cup Targets(o) :
                        v \in Elems(T) \cup Elems(call[o].targets)
            BY <3>2, <3>3, <3>6
        <3> QED
            BY <1>0, <2>1, <2>3, <3>1, <3>2, <3>3, <3>4, <3>5, <3>7, <3>8, Move
    <2> QED
        BY <2>4, <2>5
<1>7. CASE Join(o)
    <2>1. /\ opc[o] = "join" /\ wpc[Head(call[o].targets)] = "gone"
          /\ AfterOne(o, Tail(call[o].targets))
          /\ UNCHANGED <<threads, lock, created, wpc, quit>>
        BY <1>7 DEF Join, threadVars, workerVars
    <2> QED
        BY <2>1, AfterMoves
<1> QED
    BY <1>1, <1>2, <1>3, <1>4, <1>5, <1>6, <1>7 DEF OwnerStep


\* A call on p is begun while p lives, and what goes on while it is being
\* destroyed only ends threads.
LEMMA CloseStep ==
    ASSUME TypeInv, Closed, NEW o \in Owners, NEW p \in Processors,
           UNCHANGED destroyed,
           \A q \in Processors : q # p => threads'[q] = threads[q],
           \A b \in Owners : b # o => call'[b] = call[b] /\ opc'[b] = opc[b],
           call'[o].proc = p,
           destroyed[p] # "no" => /\ destroyed[p] = "closing"
                                  /\ threads'[p] = <<>>
                                  /\ opc'[o] \notin {"begin", "await"}
    PROVE  Closed'
<1> SUFFICES ASSUME NEW q \in Processors, destroyed[q] # "no"
             PROVE  /\ threads'[q] = <<>>
                    /\ \A r \in Feeds(q) : destroyed[r] = "yes"
                    /\ \A b \in Owners : opc'[b] # "idle" /\ call'[b].proc = q =>
                            destroyed[q] = "closing" /\ opc'[b] \notin {"begin", "await"}
    BY DEF Closed
<1>1. /\ threads[q] = <<>>
      /\ \A r \in Feeds(q) : destroyed[r] = "yes"
      /\ \A b \in Owners : opc[b] # "idle" /\ call[b].proc = q =>
                destroyed[q] = "closing" /\ opc[b] \notin {"begin", "await"}
    BY DEF Closed
<1>2. CASE q = p
    BY <1>1, <1>2
<1>3. CASE q # p
    BY <1>1, <1>3
<1> QED
    BY <1>2, <1>3

LEMMA CallCloses ==
    ASSUME TypeInv, Closed, NEW o \in Owners, OwnerCall(o)
    PROVE  Closed'
<1>0. /\ call \in [Owners -> Calls] /\ threads \in [Processors -> Seq(Workers)]
      /\ opc \in [Owners -> OwnerStates]
      /\ destroyed \in [Processors -> {"no", "closing", "yes"}]
    BY DEF TypeInv, TypeOK, OwnerTypes, ThreadTypes
<1>1. ASSUME NEW p \in Processors, NEW n \in Counts, BeginThread(o, p, n)
      PROVE  Closed'
    <2>1. /\ destroyed[p] = "no" /\ UNCHANGED <<threads, destroyed>>
          /\ call'[o].proc = p
          /\ \A b \in Owners : b # o => call'[b] = call[b] /\ opc'[b] = opc[b]
        BY <1>0, <1>1 DEF BeginThread, Calls
    <2> QED
        BY <2>1, CloseStep
<1>2. ASSUME NEW p \in Processors, NEW n, NEW sync, NEW ws, NEW rest,
             destroyed[p] = "no", UNCHANGED destroyed,
             TakeThreads(o, p, n, ws, rest, sync)
      PROVE  Closed'
    <2>1. /\ \A q \in Processors : q # p => threads'[q] = threads[q]
          /\ call'[o].proc = p
          /\ \A b \in Owners : b # o => call'[b] = call[b] /\ opc'[b] = opc[b]
        BY <1>0, <1>2 DEF TakeThreads
    <2> QED
        BY <1>2, <2>1, CloseStep
<1>3. ASSUME NEW p \in Processors, NEW n \in Counts, NEW sync \in SyncModes,
             EndThread(o, p, n, sync)
      PROVE  Closed'
    BY <1>2, <1>3 DEF EndThread
<1>4. ASSUME NEW p \in Processors, NEW sync \in SyncModes, EndAllThreads(o, p, sync)
      PROVE  Closed'
    BY <1>2, <1>4 DEF EndAllThreads
<1>5. ASSUME NEW p \in Processors, Destruct(o, p)
      PROVE  Closed'
    <2>1. /\ destroyed[p] = "no" /\ opc[o] = "idle"
          /\ \A b \in Owners : opc[b] = "idle" \/ call[b].proc # p
          /\ \A q \in Feeds(p) : destroyed[q] = "yes"
        BY <1>5 DEF Destruct
    <2>2. /\ threads'[p] = <<>> /\ \A q \in Processors : q # p => threads'[q] = threads[q]
          /\ \A b \in Owners : b # o => call'[b] = call[b] /\ opc'[b] = opc[b]
          /\ \/ opc'[o] = "idle" /\ destroyed' = [destroyed EXCEPT ![p] = "yes"]
             \/ /\ opc'[o] = "signal" /\ call'[o].proc = p
                /\ destroyed' = [destroyed EXCEPT ![p] = "closing"]
        <3>1. CASE threads[p] = <<>>
            BY <1>0, <1>5, <2>1, <3>1 DEF Destruct, ownerVars
        <3>2. CASE threads[p] # <<>>
            BY <1>0, <1>5, <3>2 DEF Destruct, TakeThreads
        <3> QED
            BY <3>1, <3>2
    <2> SUFFICES ASSUME NEW q \in Processors, destroyed'[q] # "no"
                 PROVE  /\ threads'[q] = <<>>
                        /\ \A r \in Feeds(q) : destroyed'[r] = "yes"
                        /\ \A b \in Owners : opc'[b] # "idle" /\ call'[b].proc = q =>
                                destroyed'[q] = "closing" /\ opc'[b] \notin {"begin", "await"}
        BY DEF Closed
    <2>3. \A r \in Processors : destroyed[r] = "yes" => destroyed'[r] = "yes"
        BY <1>0, <2>1, <2>2
    <2>4. Feeds(q) \subseteq Processors
        BY DEF Feeds
    <2>5. CASE q = p
        <3>1. \A b \in Owners : opc'[b] # "idle" /\ call'[b].proc = p =>
                    destroyed'[p] = "closing" /\ opc'[b] \notin {"begin", "await"}
            BY <1>0, <2>1, <2>2
        <3> QED
            BY <2>1, <2>2, <2>3, <2>4, <2>5, <3>1
    <2>6. CASE q # p
        <3>0. destroyed'[q] = destroyed[q]
            BY <1>0, <2>2, <2>6
        <3>1. /\ threads[q] = <<>>
              /\ \A r \in Feeds(q) : destroyed[r] = "yes"
              /\ \A b \in Owners : opc[b] # "idle" /\ call[b].proc = q =>
                        destroyed[q] = "closing" /\ opc[b] \notin {"begin", "await"}
            BY <3>0 DEF Closed
        <3>2. \A b \in Owners : opc'[b] # "idle" /\ call'[b].proc = q =>
                    destroyed[q] = "closing" /\ opc'[b] \notin {"begin", "await"}
            BY <2>2, <2>6, <3>1
        <3> QED
            BY <2>2, <2>3, <2>4, <2>6, <3>0, <3>1, <3>2
    <2> QED
        BY <2>5, <2>6
<1> QED
    BY <1>1, <1>3, <1>4, <1>5 DEF OwnerCall

LEMMA StepCloses ==
    ASSUME TypeInv, Closed, NEW o \in Owners, OwnerStep(o)
    PROVE  Closed'
<1> DEFINE p == call[o].proc
<1>0. /\ call \in [Owners -> Calls] /\ threads \in [Processors -> Seq(Workers)]
      /\ opc \in [Owners -> OwnerStates]
      /\ destroyed \in [Processors -> {"no", "closing", "yes"}]
    BY DEF TypeInv, TypeOK, OwnerTypes, ThreadTypes
<1>1. opc[o] # "idle" /\ UNCHANGED destroyed
    BY DEF OwnerStep, Create, CreateFails, BeginReturn, Created, BeginDone, EndMore,
           EndNoMore, SignalQuit, Join, threadVars
<1>2. p \in Processors
    BY <1>1 DEF TypeInv, CallOK, CallGood
<1>3. destroyed[p] # "no" =>
            destroyed[p] = "closing" /\ threads[p] = <<>> /\ opc[o] \notin {"begin", "await"}
    BY <1>1, <1>2 DEF Closed
<1>4. /\ \A q \in Processors : q # p => threads'[q] = threads[q]
      /\ \A b \in Owners : b # o => call'[b] = call[b] /\ opc'[b] = opc[b]
      /\ call'[o].proc = p
      /\ opc[o] \notin {"begin", "await"} /\ threads[p] = <<>> =>
            threads'[p] = <<>> /\ opc'[o] \notin {"begin", "await"}
    <2>1. CASE Create(o)
        BY <1>0, <1>2, <2>1 DEF Create, Calls
    <2>2. CASE CreateFails(o) \/ BeginReturn(o)
        BY <1>0, <2>2 DEF CreateFails, BeginReturn, BeginDone
    <2>3. CASE Created(o)
        BY <1>0, <1>2, <2>3 DEF Created, Calls
    <2>4. CASE EndMore(o)
        BY <1>0, <1>2, <2>4 DEF EndMore, TakeThreads
    <2>5. CASE EndNoMore(o)
        BY <1>0, <2>5 DEF EndNoMore, threadVars
    <2>6. ASSUME AfterOne(o, Tail(call[o].targets)), UNCHANGED threads
          PROVE  /\ \A b \in Owners : b # o => call'[b] = call[b] /\ opc'[b] = opc[b]
                 /\ call'[o].proc = p /\ opc'[o] \notin {"begin", "await"}
        BY <1>0, <2>6 DEF AfterOne, Calls
    <2>7. CASE Join(o)
        BY <2>6, <2>7 DEF Join, threadVars
    <2>8. CASE SignalQuit(o)
        <3>1. CASE call[o].sync
            BY <1>0, <2>8, <3>1 DEF SignalQuit, threadVars
        <3>2. CASE ~call[o].sync
            BY <2>6, <2>8, <3>2 DEF SignalQuit, threadVars
        <3> QED
            BY <3>1, <3>2
    <2> QED
        BY <2>1, <2>2, <2>3, <2>4, <2>5, <2>7, <2>8 DEF OwnerStep
<1> HIDE DEF p
<1> QED
    BY <1>1, <1>2, <1>3, <1>4, CloseStep

LEMMA ThreadsInit == Init => ThreadsInv
<1> SUFFICES ASSUME Init PROVE ThreadsInv
    OBVIOUS
<1>0. TypeInv
    BY TypeInit
<1>1. /\ \A p \in Processors : threads[p] = <<>> /\ destroyed[p] = "no"
      /\ \A w \in Workers : wpc[w] = "none" /\ ~quit[w]
      /\ \A o \in Owners : opc[o] = "idle" /\ call[o].targets = <<>> /\ call[o].sync
    BY DEF Init
<1>2. \A o \in Owners : Targets(o) = {} /\ Distinct(call[o].targets)
    BY <1>1, ElemsEmpty DEF Targets
<1>3. \A p \in Processors : Elems(threads[p]) = {} /\ Distinct(threads[p])
    BY <1>1, ElemsEmpty
<1>4. Listed
    BY <1>0, <1>3, ListedElems
<1>5. OwnersGood /\ Apart /\ Fresh /\ Closed
    BY <1>1, <1>2, <1>3 DEF OwnersGood, OwnerGood, Apart, Fresh, Closed
<1>6. Covered /\ AllSync
    BY <1>1 DEF Covered, AllSync
<1> QED
    BY <1>4, <1>5, <1>6 DEF ThreadsInv

LEMMA ThreadsKeep ==
    ASSUME TypeInv, TypeInv', ThreadsInv, [Next]_vars
    PROVE  ThreadsInv'
<1>1. ASSUME UNCHANGED <<threadVars, wpc, quit, ownerVars>>
      PROVE  ThreadsInv'
    <2>1. Closed'
        BY <1>1 DEF ThreadsInv, Closed, threadVars, ownerVars
    <2> QED
        BY <1>1, <2>1, SameThreads DEF ThreadsInv, threadVars, ownerVars
<1>2. ASSUME NEW p \in Entries, NEW ts \in Lists, Push(p, ts)
      PROVE  ThreadsInv'
    BY <1>1, <1>2 DEF Push, workerVars
<1>3. ASSUME NEW o \in Owners, OwnerCall(o)
      PROVE  ThreadsInv'
    <2>1. Closed'
        BY <1>3, CallCloses DEF ThreadsInv
    <2> QED
        BY <1>3, <2>1, CallMoves DEF ThreadsInv
<1>4. ASSUME NEW o \in Owners, OwnerStep(o)
      PROVE  ThreadsInv'
    <2>1. Closed'
        BY <1>4, StepCloses DEF ThreadsInv
    <2> QED
        BY <1>4, <2>1, StepMoves DEF ThreadsInv
<1>5. ASSUME NEW p \in Processors, Free(p)
      PROVE  ThreadsInv'
    <2>1. Closed'
        <3>1. destroyed \in [Processors -> {"no", "closing", "yes"}]
            BY DEF TypeInv, TypeOK, ThreadTypes
        <3>2. /\ destroyed[p] = "closing" /\ destroyed' = [destroyed EXCEPT ![p] = "yes"]
              /\ \A b \in Owners : opc[b] = "idle" \/ call[b].proc # p
              /\ UNCHANGED <<threads, call, opc>>
            BY <1>5 DEF Free, ownerVars
        <3>3. /\ \A q \in Processors : destroyed'[q] # "no" => destroyed[q] # "no"
              /\ \A q \in Processors : destroyed[q] = "yes" => destroyed'[q] = "yes"
              /\ \A q \in Processors : q # p => destroyed'[q] = destroyed[q]
            BY <3>1, <3>2
        <3>4. \A q \in Processors : Feeds(q) \subseteq Processors
            BY DEF Feeds
        <3> SUFFICES ASSUME NEW q \in Processors, destroyed'[q] # "no"
                     PROVE  /\ threads[q] = <<>>
                            /\ \A r \in Feeds(q) : destroyed'[r] = "yes"
                            /\ \A b \in Owners : opc[b] # "idle" /\ call[b].proc = q =>
                                    destroyed'[q] = "closing" /\ opc[b] \notin {"begin", "await"}
            BY <3>2 DEF Closed
        <3>5. /\ threads[q] = <<>>
              /\ \A r \in Feeds(q) : destroyed[r] = "yes"
              /\ \A b \in Owners : opc[b] # "idle" /\ call[b].proc = q =>
                        destroyed[q] = "closing" /\ opc[b] \notin {"begin", "await"}
            BY <3>3 DEF ThreadsInv, Closed
        <3> QED
            BY <3>2, <3>3, <3>4, <3>5
    <2> QED
        BY <1>5, <2>1, SameThreads DEF Free, ThreadsInv, workerVars, ownerVars
<1>6. ASSUME NEW w \in Workers, WorkerStep(w)
      PROVE  ThreadsInv'
    BY <1>6, WorkerThreads
<1>7. CASE UNCHANGED vars
    BY <1>1, <1>7 DEF vars, workerVars
<1> QED
    BY <1>2, <1>3, <1>4, <1>5, <1>6, <1>7 DEF Next, Terminated

\* The safety of ending threads, on top of the state's types.
LEMMA ThreadsAlways == Spec => [](TypeInv /\ ThreadsInv)
<1>1. IInv => TypeInv
    BY DEF IInv
<1>2. Init => IInv /\ ThreadsInv
    BY InitHolds, ThreadsInit
<1>3. (IInv /\ ThreadsInv) /\ [Next]_vars => (IInv /\ ThreadsInv)'
    <2> SUFFICES ASSUME IInv, ThreadsInv, [Next]_vars PROVE IInv' /\ ThreadsInv'
        OBVIOUS
    <2>1. IInv'
        BY StepKeeps
    <2>2. TypeInv /\ TypeInv'
        BY <2>1 DEF IInv
    <2> QED
        BY <2>1, <2>2, ThreadsKeep
<1> QED
    BY <1>1, <1>2, <1>3, PTL DEF Spec

\* thread_list_ holds each running worker once, whoever begins and ends threads.
THEOREM ListedTheorem == Spec => []Listed
<1>1. ThreadsInv => Listed
    BY DEF ThreadsInv
<1> QED
    BY <1>1, ThreadsAlways, PTL

\* If every caller waits for the threads it ends, no worker of a processor that
\* has been destroyed, or of one that feeds it, still runs.
THEOREM NothingTouchesDestroyedTheorem ==
    ASSUME SyncModes \subseteq {TRUE}
    PROVE  Spec => []NothingTouchesDestroyed
<1>1. TypeInv /\ ThreadsInv => NothingTouchesDestroyed
    <2> SUFFICES ASSUME TypeInv, ThreadsInv, NEW p \in Processors, destroyed[p] = "yes",
                        NEW w \in Workers
                 PROVE  /\ Home[w] = p => wpc[w] \in {"none", "gone"}
                        /\ p \in Elems(NextProcessors(w)) => wpc[w] \in {"none", "gone"}
        BY DEF NothingTouchesDestroyed
    <2>0. Closed /\ Covered /\ OwnersGood /\ Home[w] \in Processors
        BY HomeAssumption DEF ThreadsInv, Joins
    <2>1. ASSUME destroyed[Home[w]] = "yes"
          PROVE  wpc[w] \in {"none", "gone"}
        <3>1. threads[Home[w]] = <<>>
            BY <2>0, <2>1 DEF Closed
        <3>2. w \notin Elems(threads[Home[w]])
            BY <3>1, ElemsEmpty
        <3>3. ASSUME NEW o \in Owners, w \in Targets(o)
              PROVE  FALSE
            <4>1. OwnerGood(o)
                BY <2>0 DEF OwnersGood
            <4>2. Home[w] = call[o].proc /\ opc[o] # "idle"
                BY <3>3, <4>1, ElemsEmpty DEF OwnerGood, Targets
            <4> QED
                BY <2>0, <2>1, <4>2 DEF Closed
        <3> QED
            BY <2>0, <3>2, <3>3 DEF Covered
    <2>2. ASSUME p \in Elems(NextProcessors(w))
          PROVE  destroyed[Home[w]] = "yes"
        <3>1. Home[w] \in Feeds(p)
            BY <2>0, <2>2 DEF Feeds, NextProcessors
        <3>2. destroyed[p] # "no"
            OBVIOUS
        <3> QED
            BY <2>0, <3>1, <3>2 DEF Closed
    <2> QED
        BY <2>1, <2>2
<1> QED
    BY <1>1, ThreadsAlways, PTL

-----------------------------------------------------------------------------
(* Sorting and splitting a list of tasks *)

LEMMA InjectionsAreOnto ==
    ASSUME NEW D, IsFiniteSet(D), NEW f \in [D -> D],
           \A i, j \in D : i # j => f[i] # f[j],
           NEW d \in D
    PROVE  \E i \in D : f[i] = d
<1> SUFFICES ASSUME \A i \in D : f[i] # d PROVE FALSE
    OBVIOUS
<1>1. f \in [D -> D \ {d}]
    OBVIOUS
<1>2. /\ IsFiniteSet(D \ {d}) /\ Cardinality(D \ {d}) = Cardinality(D) - 1
      /\ Cardinality(D) \in Nat
    BY FS_RemoveElement, FS_CardinalityType
<1>3. Cardinality(D \ {d}) < Cardinality(D)
    BY <1>2
<1> QED
    BY <1>1, <1>2, <1>3, FS_PigeonHole

LEMMA DistinctSize ==
    ASSUME NEW S, NEW s \in Seq(S), Distinct(s)
    PROVE  IsFiniteSet(Elems(s)) /\ Cardinality(Elems(s)) = Len(s)
<1>1. DOMAIN s = 1 .. Len(s) /\ Len(s) \in Nat
    BY LenProperties
<1> DEFINE f == [i \in 1 .. Len(s) |-> s[i]]
<1>2. f \in Bijection(1 .. Len(s), Elems(s))
    <2>1. f \in [1 .. Len(s) -> Elems(s)]
        BY <1>1 DEF Elems
    <2>2. f \in Injection(1 .. Len(s), Elems(s))
        BY <1>1, <2>1 DEF Distinct, Injection, IsInjective
    <2>3. f \in Surjection(1 .. Len(s), Elems(s))
        BY <1>1, <2>1 DEF Elems, Surjection
    <2> QED
        BY <2>2, <2>3 DEF Bijection
<1>3. ExistsBijection(1 .. Len(s), Elems(s))
    BY <1>2 DEF ExistsBijection
<1> QED
    BY <1>1, <1>3, FS_CountingElements, FS_NatBijection

\* The queue sorted holds the tasks it held, those that go before others by
\* operator< or, where that does not care, by their place, in front of them.
LEMMA SortPermutes ==
    ASSUME NEW s \in Seq(Tasks), NEW q \in StableSorts(s)
    PROVE  /\ q \in Seq(Tasks) /\ DOMAIN q = DOMAIN s
           /\ Elems(q) = Elems(s)
           /\ Distinct(s) => Distinct(q)
           /\ \A i, j \in DOMAIN q : i < j =>
                \E k, l \in DOMAIN s : q[i] = s[k] /\ q[j] = s[l] /\ Precedes(s, k, l)
<1>1. PICK f \in [DOMAIN s -> DOMAIN s] :
            /\ \A i, j \in DOMAIN s : i < j => Precedes(s, f[i], f[j])
            /\ q = [i \in DOMAIN s |-> s[f[i]]]
    BY DEF StableSorts
<1>2. DOMAIN s = 1 .. Len(s) /\ Len(s) \in Nat /\ IsFiniteSet(DOMAIN s)
    BY LenProperties, FS_Interval
<1>3. \A i \in DOMAIN s : s[i] \in Tasks /\ Prio[s[i]] \in Nat
    BY <1>2, PrioAssumption
<1>4. \A i, j \in DOMAIN s : i # j => f[i] # f[j]
    <2>1. ASSUME NEW i \in DOMAIN s, NEW j \in DOMAIN s, i < j
          PROVE  f[i] # f[j]
        <3>1. Precedes(s, f[i], f[j]) /\ f[i] \in DOMAIN s /\ f[j] \in DOMAIN s
            BY <1>1, <2>1
        <3>2. Prio[s[f[i]]] \in Nat /\ Prio[s[f[j]]] \in Nat
            BY <1>3, <3>1
        <3> QED
            BY <1>2, <3>1, <3>2 DEF Precedes
    <2>2. ASSUME NEW i \in DOMAIN s, NEW j \in DOMAIN s, i # j
          PROVE  i < j \/ j < i
        BY <1>2, <2>2
    <2> QED
        BY <2>1, <2>2
<1>5. \A k \in DOMAIN s : \E i \in DOMAIN s : f[i] = k
    BY <1>2, <1>4, InjectionsAreOnto
<1>6. DOMAIN q = DOMAIN s /\ q \in Seq(Tasks)
    BY <1>1, SortKeepsLength
<1>7. Elems(q) = Elems(s)
    BY <1>1, <1>5, <1>6 DEF Elems
<1>8. Distinct(s) => Distinct(q)
    BY <1>1, <1>4, <1>6 DEF Distinct
<1>9. \A i, j \in DOMAIN q : i < j =>
            \E k, l \in DOMAIN s : q[i] = s[k] /\ q[j] = s[l] /\ Precedes(s, k, l)
    BY <1>1, <1>6
<1> QED
    BY <1>6, <1>7, <1>8, <1>9

LEMMA SplitElems ==
    ASSUME NEW q \in Seq(Tasks), BatchSize \in 0 .. Len(q)
    PROVE  LET a == SubSeq(q, 1, BatchSize)
               b == Rest(q)
           IN  /\ a \in Seq(Tasks) /\ DOMAIN a = 1 .. BatchSize
               /\ \A i \in DOMAIN a : i \in DOMAIN q /\ a[i] = q[i]
               /\ b \in Seq(Tasks) /\ DOMAIN b = 1 .. (Len(q) - BatchSize)
               /\ \A i \in DOMAIN b : i + BatchSize \in DOMAIN q /\ b[i] = q[i + BatchSize]
               /\ Elems(q) = Elems(a) \cup Elems(b)
               /\ Distinct(q) => /\ Distinct(a) /\ Distinct(b)
                                 /\ Elems(a) \cap Elems(b) = {}
<1> DEFINE a == SubSeq(q, 1, BatchSize)
           b == Rest(q)
<1>0. DOMAIN q = 1 .. Len(q) /\ Len(q) \in Nat /\ BatchSize \in Nat /\ BatchSize <= Len(q)
    BY LenProperties
<1>1. \A i \in 1 .. Len(q) : q[i] \in Tasks
    OBVIOUS
<1>2. /\ a \in Seq(Tasks) /\ Len(a) = BatchSize
      /\ \A i \in 1 .. BatchSize : a[i] = q[i]
    <2>1. \A i \in 1 .. BatchSize : q[i] \in Tasks
        BY <1>0, <1>1
    <2>2. /\ a \in Seq(Tasks)
          /\ Len(a) = IF 1 <= BatchSize THEN BatchSize - 1 + 1 ELSE 0
          /\ \A i \in 1 .. BatchSize - 1 + 1 : a[i] = q[1 + i - 1]
        BY <1>0, <2>1, SubSeqProperties
    <2> HIDE DEF a
    <2> QED
        BY <1>0, <2>2
<1>3. /\ b \in Seq(Tasks) /\ Len(b) = Len(q) - BatchSize
      /\ \A i \in 1 .. Len(q) - BatchSize : b[i] = q[i + BatchSize]
    <2>1. \A i \in BatchSize + 1 .. Len(q) : q[i] \in Tasks
        BY <1>0, <1>1
    <2>2. /\ b \in Seq(Tasks)
          /\ Len(b) = IF BatchSize + 1 <= Len(q) THEN Len(q) - (BatchSize + 1) + 1 ELSE 0
          /\ \A i \in 1 .. Len(q) - (BatchSize + 1) + 1 : b[i] = q[BatchSize + 1 + i - 1]
        BY <1>0, <2>1, SubSeqProperties DEF Rest
    <2>3. Len(b) = Len(q) - BatchSize
        BY SplitType
    <2> HIDE DEF b
    <2>4. ASSUME NEW i \in 1 .. Len(q) - BatchSize PROVE b[i] = q[i + BatchSize]
        <3>1. /\ i \in 1 .. Len(q) - (BatchSize + 1) + 1
              /\ BatchSize + 1 + i - 1 = i + BatchSize
            BY <1>0
        <3> QED
            BY <2>2, <3>1
    <2> QED
        BY <2>2, <2>3, <2>4
<1> HIDE DEF a, b
<1>4. DOMAIN a = 1 .. BatchSize /\ DOMAIN b = 1 .. (Len(q) - BatchSize)
    BY <1>0, <1>2, <1>3, LenProperties
<1>5. \A i \in DOMAIN a : i \in DOMAIN q /\ a[i] = q[i]
    BY <1>0, <1>2, <1>4
<1>6. \A i \in DOMAIN b : i + BatchSize \in DOMAIN q /\ b[i] = q[i + BatchSize]
    BY <1>0, <1>3, <1>4
<1>7. ASSUME NEW i \in DOMAIN q
      PROVE  q[i] \in Elems(a) \cup Elems(b)
    <2>1. CASE i <= BatchSize
        BY <1>0, <1>4, <1>5, <2>1 DEF Elems
    <2>2. CASE ~(i <= BatchSize)
        <3>1. i - BatchSize \in DOMAIN b /\ (i - BatchSize) + BatchSize = i
            BY <1>0, <1>4, <2>2
        <3> QED
            BY <1>6, <3>1 DEF Elems
    <2> QED
        BY <2>1, <2>2
<1>8. Elems(q) = Elems(a) \cup Elems(b)
    BY <1>5, <1>6, <1>7 DEF Elems
<1>9. ASSUME Distinct(q) PROVE Distinct(a)
    BY <1>5, <1>9 DEF Distinct
<1>10. ASSUME Distinct(q) PROVE Distinct(b)
    <2> SUFFICES ASSUME NEW i \in DOMAIN b, NEW j \in DOMAIN b, i # j
                 PROVE  b[i] # b[j]
        BY DEF Distinct
    <2>1. i + BatchSize # j + BatchSize
        BY <1>0, <1>4
    <2> QED
        BY <1>6, <1>10, <2>1 DEF Distinct
<1>11. ASSUME Distinct(q) PROVE Elems(a) \cap Elems(b) = {}
    <2> SUFFICES ASSUME NEW i \in DOMAIN a, NEW j \in DOMAIN b
                 PROVE  a[i] # b[j]
        BY DEF Elems
    <2>1. i # j + BatchSize
        BY <1>0, <1>4
    <2> QED
        BY <1>5, <1>6, <1>11, <2>1 DEF Distinct
<1> QED
    BY <1>2, <1>3, <1>4, <1>5, <1>6, <1>8, <1>9, <1>10, <1>11 DEF a, b

-----------------------------------------------------------------------------
(* Where the tasks are *)

\* The tasks in thread_funciton()'s local list.
Held(w) == Elems(tasks[w])

\* That list is empty but from a pop that succeeded to the end of fan_out().
HandsInv == \A w \in Workers :
    /\ wpc[w] \notin {"check", "fan"} => tasks[w] = <<>>
    /\ wpc[w] = "check" /\ result[w] # "SUCCESS" => tasks[w] = <<>>
    /\ wpc[w] = "fan" => fan[w] >= 1

\* Tasks as urgent as each other are queued as they came, and those behind
\* queue_ordered_flag_ are sorted.
OrderGood(p) ==
    /\ Elems(queue[p]) \subseteq Elems(accepted[p])
    /\ \A i, j \in DOMAIN queue[p] : i < j =>
            \/ Prio[queue[p][i]] # Prio[queue[p][j]]
            \/ Before(p, queue[p][i], queue[p][j])
    /\ ordered[p] => \A i, j \in DOMAIN queue[p] :
                        i < j => Prio[queue[p][i]] <= Prio[queue[p][j]]

OrderInv == \A p \in Processors : OrderGood(p)

Located(p) ==
    /\ Elems(accepted[p]) = InQueue(p) \cup InHand(p) \cup done[p] \cup dropped[p]
    /\ InQueue(p) \cap (InHand(p) \cup done[p] \cup dropped[p]) = {}
    /\ InHand(p) \cap (done[p] \cup dropped[p]) = {}
    /\ done[p] \cap dropped[p] = {}

\* No list of tasks is pushed with one in it twice.
NoRepeats == \A ts \in Lists : Distinct(ts)

\* A processor is fed by one other or by callers, not by both or by several.
Tree ==
    /\ \A p, q \in Processors : \A i \in DOMAIN NextOf[p], j \in DOMAIN NextOf[q] :
            NextOf[p][i] = NextOf[q][j] => p = q /\ i = j
    /\ \A p \in Processors : \A i \in DOMAIN NextOf[p] : NextOf[p][i] \notin Entries

\* What a worker has yet to hand on is new to the processors ahead.
NewAhead(w) == \A i \in DOMAIN NextProcessors(w) :
    fan[w] <= i => Held(w) \cap Elems(accepted[NextProcessors(w)[i]]) = {}

PlacesInv ==
    /\ \A p \in Processors : Distinct(queue[p]) /\ Located(p)
    /\ \A w \in Workers : Distinct(tasks[w])
    /\ \A w \in Workers : wpc[w] = "fan" => Held(w) \subseteq done[Home[w]] /\ NewAhead(w)
    /\ \A v, w \in Workers : v # w /\ Home[v] = Home[w] => Held(v) \cap Held(w) = {}
    /\ \A p \in Processors : \A i \in DOMAIN NextOf[p] :
            Elems(accepted[NextOf[p][i]]) \subseteq done[p]

-----------------------------------------------------------------------------
(* What the steps do to the tasks *)

LEMMA OwnerLeaves ==
    ASSUME TypeInv, NEW o \in Owners, OwnerCall(o) \/ OwnerStep(o)
    PROVE  /\ UNCHANGED <<queueVars, history, tasks, result, fan>>
           /\ \A v \in Workers :
                wpc'[v] = wpc[v] \/ (wpc[v] = "none" /\ wpc'[v] = "ready")
<1>1. UNCHANGED <<queueVars, history, tasks, result, fan>>
    BY DEF OwnerStep, OwnerCall, Create, CreateFails, Created, BeginReturn,
           BeginDone, EndMore, EndNoMore, SignalQuit, Join, BeginThread,
           EndThread, EndAllThreads, Destruct, workerVars
<1>2. CASE Create(o)
    BY <1>1, <1>2 DEF Create, TypeInv, TypeOK, WorkerTypes
<1>3. CASE ~Create(o)
    <2>1. UNCHANGED wpc
        BY <1>3 DEF OwnerStep, OwnerCall, CreateFails, Created, BeginReturn,
                    BeginDone, EndMore, EndNoMore, SignalQuit, Join,
                    BeginThread, EndThread, EndAllThreads, Destruct, workerVars
    <2> QED
        BY <1>1, <2>1
<1> QED
    BY <1>2, <1>3

LEMMA SortedQueueElems ==
    ASSUME TypeInv, NEW p \in Processors, NEW q \in SortedQueue(p)
    PROVE  /\ q \in Seq(Tasks) /\ Elems(q) = InQueue(p)
           /\ Distinct(queue[p]) => Distinct(q)
           /\ OrderGood(p) => \A i, j \in DOMAIN q : i < j =>
                    \/ Prio[q[i]] < Prio[q[j]]
                    \/ Prio[q[i]] = Prio[q[j]] /\ Before(p, q[i], q[j])
<1>0. queue[p] \in Seq(Tasks) /\ DOMAIN queue[p] = 1 .. Len(queue[p])
    BY DEF TypeInv, TypeOK, QueueTypes
<1>1. \A i \in DOMAIN queue[p] : Prio[queue[p][i]] \in Nat
    BY <1>0, PrioAssumption
<1>2. CASE ordered[p]
    <2>1. q = queue[p]
        BY <1>2 DEF SortedQueue
    <2>2. ASSUME OrderGood(p), NEW i \in DOMAIN q, NEW j \in DOMAIN q, i < j
          PROVE  \/ Prio[q[i]] < Prio[q[j]]
                 \/ Prio[q[i]] = Prio[q[j]] /\ Before(p, q[i], q[j])
        <3>1. /\ Prio[q[i]] <= Prio[q[j]] /\ Prio[q[i]] \in Nat /\ Prio[q[j]] \in Nat
              /\ Prio[q[i]] # Prio[q[j]] \/ Before(p, q[i], q[j])
            BY <1>1, <1>2, <2>1, <2>2 DEF OrderGood
        <3> QED
            BY <3>1
    <2> QED
        BY <1>0, <2>1, <2>2 DEF InQueue
<1>3. CASE ~ordered[p]
    <2> DEFINE s == queue[p]
    <2>1. q \in StableSorts(s)
        BY <1>3 DEF SortedQueue
    <2>2. /\ q \in Seq(Tasks) /\ DOMAIN q = DOMAIN s /\ Elems(q) = Elems(s)
          /\ Distinct(s) => Distinct(q)
          /\ \A i, j \in DOMAIN q : i < j =>
                \E k, l \in DOMAIN s : q[i] = s[k] /\ q[j] = s[l] /\ Precedes(s, k, l)
        BY <1>0, <2>1, SortPermutes
    <2>3. ASSUME OrderGood(p), NEW i \in DOMAIN q, NEW j \in DOMAIN q, i < j
          PROVE  \/ Prio[q[i]] < Prio[q[j]]
                 \/ Prio[q[i]] = Prio[q[j]] /\ Before(p, q[i], q[j])
        <3>1. PICK k \in DOMAIN s, l \in DOMAIN s :
                    q[i] = s[k] /\ q[j] = s[l] /\ Precedes(s, k, l)
            BY <2>2, <2>3
        <3>2. k < l => Prio[s[k]] # Prio[s[l]] \/ Before(p, s[k], s[l])
            BY <2>3 DEF OrderGood
        <3> QED
            BY <3>1, <3>2 DEF Precedes
    <2> QED
        BY <2>2, <2>3 DEF InQueue
<1> QED
    BY <1>2, <1>3

\* pop_task() splits the sorted queue q: worker w takes the n first tasks.
Splits(w, q, a, b, n) ==
    /\ tasks' = [tasks EXCEPT ![w] = a]
    /\ queue' = [queue EXCEPT ![Home[w]] = b]
    /\ Elems(q) = Elems(a) \cup Elems(b)
    /\ Distinct(q) => Distinct(a) /\ Distinct(b) /\ Elems(a) \cap Elems(b) = {}
    /\ \A i \in DOMAIN a : i \in DOMAIN q /\ i \in 1 .. n /\ a[i] = q[i]
    /\ DOMAIN b \subseteq Nat \ {0}
    /\ \A i \in DOMAIN b : i + n \in DOMAIN q /\ b[i] = q[i + n]

LEMMA PopTakes ==
    ASSUME TypeInv, QueueBounded, NEW w \in Workers, PopBatch(w) \/ PopRest(w)
    PROVE  /\ wpc[w] = "pop" /\ wpc' = [wpc EXCEPT ![w] = "check"]
           /\ result' = [result EXCEPT ![w] = "SUCCESS"]
           /\ ordered' = [ordered EXCEPT ![Home[w]] = TRUE]
           /\ UNCHANGED <<quit, fan, history>>
           /\ \E q \in SortedQueue(Home[w]), a, b \in Seq(Tasks), n \in Nat :
                Splits(w, q, a, b, n)
<1> DEFINE p == Home[w]
<1>0. p \in Processors
    BY HomeAssumption
<1>1. /\ wpc[w] = "pop" /\ wpc' = [wpc EXCEPT ![w] = "check"]
      /\ result' = [result EXCEPT ![w] = "SUCCESS"]
      /\ ordered' = [ordered EXCEPT ![p] = TRUE]
      /\ UNCHANGED <<quit, fan, history>>
    BY DEF PopBatch, PopRest, PopReturn
<1>2. CASE PopBatch(w)
    <2>1. PICK q \in SortedQueue(p) :
            /\ tasks' = [tasks EXCEPT ![w] = SubSeq(q, 1, BatchSize)]
            /\ queue' = [queue EXCEPT ![p] = Rest(q)]
        BY <1>2 DEF PopBatch
    <2>2. q \in Seq(Tasks) /\ Len(q) = size[p]
        BY <1>0, <2>1, SortedQueueType DEF TypeInv, TypeOK, QueueBounded
    <2>3. BatchSize \in 0 .. Len(q)
        BY <1>2, <2>2, BatchSizeAssumption, LenProperties DEF PopBatch
    <2> DEFINE a == SubSeq(q, 1, BatchSize)
               b == Rest(q)
    <2>4. /\ a \in Seq(Tasks) /\ DOMAIN a = 1 .. BatchSize
          /\ \A i \in DOMAIN a : i \in DOMAIN q /\ a[i] = q[i]
          /\ b \in Seq(Tasks) /\ DOMAIN b = 1 .. (Len(q) - BatchSize)
          /\ \A i \in DOMAIN b : i + BatchSize \in DOMAIN q /\ b[i] = q[i + BatchSize]
          /\ Elems(q) = Elems(a) \cup Elems(b)
          /\ Distinct(q) => Distinct(a) /\ Distinct(b) /\ Elems(a) \cap Elems(b) = {}
        BY <2>2, <2>3, SplitElems
    <2>5. BatchSize \in Nat /\ DOMAIN b \subseteq Nat \ {0}
        BY <2>2, <2>3, <2>4, LenProperties
    <2>6. tasks' = [tasks EXCEPT ![w] = a] /\ queue' = [queue EXCEPT ![p] = b]
        BY <2>1
    <2> HIDE DEF a, b, p
    <2>7. /\ a \in Seq(Tasks) /\ b \in Seq(Tasks) /\ BatchSize \in Nat
          /\ Elems(q) = Elems(a) \cup Elems(b)
          /\ Distinct(q) => Distinct(a) /\ Distinct(b) /\ Elems(a) \cap Elems(b) = {}
          /\ \A i \in DOMAIN a : i \in DOMAIN q /\ i \in 1 .. BatchSize /\ a[i] = q[i]
          /\ DOMAIN b \subseteq Nat \ {0}
          /\ \A i \in DOMAIN b : i + BatchSize \in DOMAIN q /\ b[i] = q[i + BatchSize]
        BY <2>4, <2>5
    <2>8. Splits(w, q, a, b, BatchSize)
        BY <2>6, <2>7 DEF Splits, p
    <2> QED
        BY <1>1, <2>1, <2>7, <2>8 DEF p
<1>3. CASE PopRest(w)
    <2>1. PICK q \in SortedQueue(p) : tasks' = [tasks EXCEPT ![w] = q]
        BY <1>3 DEF PopRest
    <2> DEFINE b == <<>>
    <2>2. q \in Seq(Tasks) /\ b \in Seq(Tasks)
        BY <1>0, <2>1, SortedQueueType DEF TypeInv, TypeOK
    <2>3. queue' = [queue EXCEPT ![p] = b]
        BY <1>3 DEF PopRest
    <2>4. Elems(b) = {} /\ Distinct(b) /\ DOMAIN b = {}
        BY ElemsEmpty
    <2>5. DOMAIN q = 1 .. Len(q) /\ Len(q) \in Nat
        BY <2>2, LenProperties
    <2> DEFINE m == Len(q)
    <2> HIDE DEF b, p
    <2>6. /\ m \in Nat /\ Elems(q) = Elems(q) \cup Elems(b)
          /\ Distinct(q) => Distinct(q) /\ Distinct(b) /\ Elems(q) \cap Elems(b) = {}
          /\ \A i \in DOMAIN q : i \in DOMAIN q /\ i \in 1 .. m /\ q[i] = q[i]
          /\ DOMAIN b \subseteq Nat \ {0}
          /\ \A i \in DOMAIN b : i + m \in DOMAIN q /\ b[i] = q[i + m]
        BY <2>4, <2>5
    <2> HIDE DEF m
    <2>7. Splits(w, q, q, b, m)
        BY <2>1, <2>3, <2>6 DEF Splits, p
    <2> QED
        BY <1>1, <2>1, <2>2, <2>6, <2>7 DEF p
<1> QED
    BY <1>2, <1>3

LEMMA HandsKeep ==
    ASSUME TypeInv, TypeInv', QueueBounded, HandsInv, [Next]_vars
    PROVE  HandsInv'
<1>0. /\ wpc \in [Workers -> WorkerStates] /\ result \in [Workers -> Results]
      /\ tasks \in [Workers -> Seq(Tasks)] /\ fan \in [Workers -> Nat]
    BY DEF TypeInv, TypeOK, WorkerTypes
<1>1. ASSUME UNCHANGED <<tasks, result, fan>>,
             \A v \in Workers : wpc'[v] = wpc[v] \/ (wpc[v] = "none" /\ wpc'[v] = "ready")
      PROVE  HandsInv'
    BY <1>1 DEF HandsInv
<1>2. ASSUME NEW w \in Workers, WorkerStep(w)
      PROVE  HandsInv'
    <2>1. CASE Start(w) \/ Take(w)
        BY <1>0, <2>1 DEF Start, Take, HandsInv
    <2>2. CASE TimeOut(w) \/ PopEmpty(w)
        BY <1>0, <2>2 DEF TimeOut, PopEmpty, PopReturn, HandsInv
    <2>3. CASE PopBatch(w) \/ PopRest(w)
        <3>1. /\ wpc' = [wpc EXCEPT ![w] = "check"]
              /\ result' = [result EXCEPT ![w] = "SUCCESS"]
              /\ UNCHANGED fan
              /\ \A v \in Workers : v # w => tasks'[v] = tasks[v]
            BY <1>0, <2>3 DEF PopBatch, PopRest, PopReturn
        <3> QED
            BY <1>0, <3>1 DEF HandsInv
    <2>4. CASE Quit(w) \/ Ignore(w)
        BY <1>0, <2>4 DEF Quit, Ignore, HandsInv
    <2>5. CASE Handle(w)
        BY <1>0, <2>5 DEF Handle, HandsInv
    <2>6. CASE FanOut(w)
        BY <1>0, <2>6 DEF FanOut, FanNext, HandsInv
    <2>7. CASE FanEnd(w)
        BY <1>0, <2>7 DEF FanEnd, HandsInv
    <2> QED
        BY <1>2, <2>1, <2>2, <2>3, <2>4, <2>5, <2>6, <2>7 DEF WorkerStep, PopStep
<1>3. ASSUME NEW o \in Owners, OwnerCall(o) \/ OwnerStep(o)
      PROVE  HandsInv'
    BY <1>1, <1>3, OwnerLeaves
<1>4. ASSUME UNCHANGED workerVars
      PROVE  HandsInv'
    BY <1>1, <1>4 DEF workerVars
<1> QED
    BY <1>2, <1>3, <1>4 DEF Next, Terminated, Push, Free, vars

\* What push_task() does to the tasks of a processor.
LEMMA PushTasks ==
    ASSUME TypeInv, NEW p \in Processors, NEW ts \in Seq(Tasks), PushTo(p, ts)
    PROVE  /\ \A q \in Processors : q # p =>
                /\ queue'[q] = queue[q] /\ accepted'[q] = accepted[q]
                /\ refused'[q] = refused[q] /\ ordered'[q] = ordered[q]
           /\ \/ /\ queue'[p] = queue[p] \o ts /\ accepted'[p] = accepted[p] \o ts
                 /\ ~ordered'[p] /\ refused'[p] = refused[p]
              \/ /\ queue'[p] = queue[p] /\ accepted'[p] = accepted[p]
                 /\ ordered'[p] = ordered[p] /\ refused'[p] = refused[p] \cup Elems(ts)
           /\ Elems(accepted'[p]) \cup refused'[p] =
                    Elems(accepted[p]) \cup refused[p] \cup Elems(ts)
           /\ \A q \in Processors : Elems(accepted[q]) \subseteq Elems(accepted'[q])
<1>0. /\ queue \in [Processors -> Seq(Tasks)] /\ accepted \in [Processors -> Seq(Tasks)]
      /\ refused \in [Processors -> SUBSET Tasks] /\ ordered \in [Processors -> BOOLEAN]
    BY DEF TypeInv, TypeOK, QueueTypes, HistoryTypes
<1>1. \A q \in Processors : q # p =>
            /\ queue'[q] = queue[q] /\ accepted'[q] = accepted[q]
            /\ refused'[q] = refused[q] /\ ordered'[q] = ordered[q]
    BY <1>0 DEF PushTo, PushAccept, PushRefuse, Unsorts
<1>2. \/ /\ queue'[p] = queue[p] \o ts /\ accepted'[p] = accepted[p] \o ts
         /\ ~ordered'[p] /\ refused'[p] = refused[p]
      \/ /\ queue'[p] = queue[p] /\ accepted'[p] = accepted[p]
         /\ ordered'[p] = ordered[p] /\ refused'[p] = refused[p] \cup Elems(ts)
    BY <1>0 DEF PushTo, PushAccept, PushRefuse, Unsorts
<1>3. Elems(accepted[p] \o ts) = Elems(accepted[p]) \cup Elems(ts)
    BY <1>0, ElemsConcat
<1>4. Elems(accepted'[p]) \cup refused'[p] =
            Elems(accepted[p]) \cup refused[p] \cup Elems(ts)
    BY <1>2, <1>3
<1>5. \A q \in Processors : Elems(accepted[q]) \subseteq Elems(accepted'[q])
    BY <1>1, <1>2, <1>3
<1> QED
    BY <1>1, <1>2, <1>4, <1>5

\* The processor a worker in fan_out() pushes into.
LEMMA FanTarget ==
    ASSUME TypeInv, NEW w \in Workers, FanOut(w)
    PROVE  /\ Home[w] \in Processors /\ fan[w] \in DOMAIN NextOf[Home[w]]
           /\ NextOf[Home[w]][fan[w]] \in Processors
           /\ tasks[w] \in Seq(Tasks)
           /\ PushTo(NextOf[Home[w]][fan[w]], tasks[w])
           /\ wpc[w] = "fan" /\ fan' = [fan EXCEPT ![w] = @ + 1]
           /\ UNCHANGED <<wpc, tasks, done, dropped>>
<1>1. Home[w] \in Processors /\ tasks[w] \in Seq(Tasks)
    BY HomeAssumption DEF TypeInv, TypeOK, WorkerTypes
<1>2. /\ fan[w] \in DOMAIN NextOf[Home[w]]
      /\ PushTo(NextOf[Home[w]][fan[w]], tasks[w])
      /\ wpc[w] = "fan" /\ fan' = [fan EXCEPT ![w] = @ + 1]
      /\ UNCHANGED <<wpc, tasks, done, dropped>>
    BY DEF FanOut, FanNext, NextProcessors
<1>3. NextOf[Home[w]][fan[w]] \in Processors
    BY <1>1, <1>2, NextAssumption
<1> QED
    BY <1>1, <1>2, <1>3

-----------------------------------------------------------------------------
(* Tasks handed on *)

\* Steps that handle nothing and leave the workers in fan_out() alone.
LEMMA HandedSame ==
    ASSUME HandedOn, UNCHANGED done,
           \A q \in Processors : /\ Elems(accepted[q]) \subseteq Elems(accepted'[q])
                                 /\ refused[q] \subseteq refused'[q],
           \A v \in Workers : wpc[v] = "fan" =>
                wpc'[v] = "fan" /\ tasks'[v] = tasks[v] /\ fan'[v] = fan[v]
    PROVE  HandedOn'
<1> SUFFICES ASSUME NEW p \in Processors, NEW t \in done[p], NEW i \in DOMAIN NextOf[p]
             PROVE  \/ t \in Elems(accepted'[NextOf[p][i]]) \cup refused'[NextOf[p][i]]
                    \/ \E v \in Workers :
                        /\ Home[v] = p /\ wpc'[v] = "fan"
                        /\ t \in Elems(tasks'[v]) /\ fan'[v] <= i
    BY DEF HandedOn, Elems
<1>1. NextOf[p][i] \in Processors
    BY NextAssumption
<1> QED
    BY <1>1 DEF HandedOn

LEMMA HandedFan ==
    ASSUME TypeInv, HandsInv, HandedOn, NEW w \in Workers, FanOut(w)
    PROVE  HandedOn'
<1> SUFFICES ASSUME NEW p \in Processors, NEW t \in done[p], NEW i \in DOMAIN NextOf[p]
             PROVE  \/ t \in Elems(accepted'[NextOf[p][i]]) \cup refused'[NextOf[p][i]]
                    \/ \E v \in Workers :
                        /\ Home[v] = p /\ wpc'[v] = "fan"
                        /\ t \in Elems(tasks'[v]) /\ fan'[v] <= i
    BY FanTarget DEF HandedOn, Elems
<1>0. /\ NextOf[p][i] \in Processors /\ i \in Nat
      /\ fan \in [Workers -> Nat]
    BY NextAssumption DEF TypeInv, TypeOK, WorkerTypes
<1> DEFINE q == NextOf[Home[w]][fan[w]]
<1>1. /\ q \in Processors /\ tasks[w] \in Seq(Tasks) /\ PushTo(q, tasks[w])
      /\ fan' = [fan EXCEPT ![w] = @ + 1] /\ UNCHANGED <<wpc, tasks>>
    BY FanTarget
<1>2. /\ \A r \in Processors : r # q =>
                accepted'[r] = accepted[r] /\ refused'[r] = refused[r]
      /\ Elems(accepted'[q]) \cup refused'[q] =
                Elems(accepted[q]) \cup refused[q] \cup Elems(tasks[w])
    BY <1>1, PushTasks
<1>3. CASE t \in Elems(accepted[NextOf[p][i]]) \cup refused[NextOf[p][i]]
    <2> HIDE DEF q
    <2> QED
        BY <1>0, <1>2, <1>3
<1>4. ASSUME NEW v \in Workers, Home[v] = p, wpc[v] = "fan",
             t \in Elems(tasks[v]), fan[v] <= i
      PROVE  \/ t \in Elems(accepted'[NextOf[p][i]]) \cup refused'[NextOf[p][i]]
             \/ \E u \in Workers :
                 /\ Home[u] = p /\ wpc'[u] = "fan"
                 /\ t \in Elems(tasks'[u]) /\ fan'[u] <= i
    <2>1. CASE v # w
        BY <1>0, <1>1, <1>4, <2>1
    <2>2. CASE v = w /\ fan[v] = i
        BY <1>2, <1>4, <2>2
    <2>3. CASE v = w /\ fan[v] # i
        <3>1. fan'[v] <= i
            BY <1>0, <1>1, <1>4, <2>3
        <3> QED
            BY <1>1, <1>4, <3>1
    <2> QED
        BY <2>1, <2>2, <2>3
<1>5. \/ t \in Elems(accepted[NextOf[p][i]]) \cup refused[NextOf[p][i]]
      \/ \E v \in Workers :
            Home[v] = p /\ wpc[v] = "fan" /\ t \in Elems(tasks[v]) /\ fan[v] <= i
    BY DEF HandedOn
<1> QED
    BY <1>3, <1>4, <1>5

LEMMA HandedKeeps ==
    ASSUME TypeInv, QueueBounded, HandsInv, HandedOn, [Next]_vars
    PROVE  HandedOn'
<1>0. /\ wpc \in [Workers -> WorkerStates] /\ fan \in [Workers -> Nat]
      /\ tasks \in [Workers -> Seq(Tasks)] /\ done \in [Processors -> SUBSET Tasks]
    BY DEF TypeInv, TypeOK, WorkerTypes, HistoryTypes
<1>1. ASSUME UNCHANGED <<done, accepted, refused>>,
             \A v \in Workers : wpc[v] = "fan" =>
                wpc'[v] = "fan" /\ tasks'[v] = tasks[v] /\ fan'[v] = fan[v]
      PROVE  HandedOn'
    BY <1>1, HandedSame
<1>2. ASSUME NEW p \in Entries, NEW ts \in Lists, Push(p, ts)
      PROVE  HandedOn'
    <2>1. p \in Processors /\ ts \in Seq(Tasks)
        BY OwnersAssumption, ListsAssumption
    <2>2. PushTo(p, ts) /\ UNCHANGED <<done, wpc, tasks, fan>>
        BY <1>2 DEF Push, workerVars
    <2>3. \A q \in Processors : /\ Elems(accepted[q]) \subseteq Elems(accepted'[q])
                                /\ refused[q] \subseteq refused'[q]
        BY <2>1, <2>2, PushTasks
    <2> QED
        BY <2>2, <2>3, HandedSame
<1>3. ASSUME NEW o \in Owners, OwnerCall(o) \/ OwnerStep(o)
      PROVE  HandedOn'
    BY <1>1, <1>3, OwnerLeaves DEF history
<1>4. ASSUME UNCHANGED <<workerVars, history>>
      PROVE  HandedOn'
    BY <1>1, <1>4 DEF workerVars, history
<1>5. ASSUME NEW w \in Workers, WorkerStep(w)
      PROVE  HandedOn'
    <2>1. CASE Start(w) \/ Take(w) \/ Ignore(w)
        BY <1>0, <1>1, <2>1 DEF Start, Take, Ignore, history
    <2>2. CASE TimeOut(w) \/ PopEmpty(w)
        BY <1>0, <1>1, <2>2 DEF TimeOut, PopEmpty, PopReturn, history
    <2>3. CASE PopBatch(w) \/ PopRest(w)
        <3>1. /\ wpc[w] = "pop" /\ wpc' = [wpc EXCEPT ![w] = "check"]
              /\ UNCHANGED <<fan, history>>
              /\ \A v \in Workers : v # w => tasks'[v] = tasks[v]
            BY <1>0, <2>3 DEF PopBatch, PopRest, PopReturn
        <3> QED
            BY <1>0, <1>1, <3>1 DEF history
    <2>4. CASE Quit(w)
        BY <1>0, <1>1, <2>4 DEF Quit
    <2>5. CASE Handle(w)
        <3> DEFINE p == Home[w]
        <3>1. /\ p \in Processors /\ wpc[w] = "check" /\ wpc' = [wpc EXCEPT ![w] = "fan"]
              /\ done' = [done EXCEPT ![p] = @ \cup Elems(tasks[w])]
              /\ fan' = [fan EXCEPT ![w] = 1] /\ UNCHANGED <<tasks, accepted, refused>>
            BY <2>5, HomeAssumption DEF Handle
        <3> HIDE DEF p
        <3>2. /\ wpc'[w] = "fan" /\ fan'[w] = 1
              /\ \A v \in Workers : v # w => wpc'[v] = wpc[v] /\ fan'[v] = fan[v]
            BY <1>0, <3>1
        <3> SUFFICES ASSUME NEW q \in Processors, NEW t \in done'[q],
                            NEW i \in DOMAIN NextOf[q]
                     PROVE  \/ t \in Elems(accepted[NextOf[q][i]]) \cup refused[NextOf[q][i]]
                            \/ \E v \in Workers :
                                /\ Home[v] = q /\ wpc'[v] = "fan"
                                /\ t \in Elems(tasks[v]) /\ fan'[v] <= i
            BY <3>1 DEF HandedOn
        <3>3. CASE t \in done[q]
            <4>1. \/ t \in Elems(accepted[NextOf[q][i]]) \cup refused[NextOf[q][i]]
                  \/ \E v \in Workers :
                        Home[v] = q /\ wpc[v] = "fan" /\ t \in Elems(tasks[v]) /\ fan[v] <= i
                BY <3>3 DEF HandedOn
            <4> QED
                BY <3>1, <3>2, <4>1
        <3>4. CASE q = p /\ t \in Elems(tasks[w])
            <4>1. 1 <= i
                BY NextAssumption
            <4> QED
                BY <3>2, <3>4, <4>1 DEF p
        <3> QED
            BY <1>0, <3>1, <3>3, <3>4
    <2>6. CASE FanOut(w)
        BY <2>6, HandedFan
    <2>7. CASE FanEnd(w)
        <3>1. /\ wpc[w] = "fan" /\ fan[w] \notin DOMAIN NextOf[Home[w]]
              /\ wpc' = [wpc EXCEPT ![w] = "wait"] /\ tasks' = [tasks EXCEPT ![w] = <<>>]
              /\ UNCHANGED <<done, accepted, refused, fan>>
            BY <2>7 DEF FanEnd, NextProcessors, history
        <3>2. fan[w] >= 1 /\ fan[w] \in Nat
            BY <1>0, <3>1 DEF HandsInv
        <3> SUFFICES ASSUME NEW q \in Processors, NEW t \in done[q],
                            NEW i \in DOMAIN NextOf[q]
                     PROVE  \/ t \in Elems(accepted[NextOf[q][i]]) \cup refused[NextOf[q][i]]
                            \/ \E v \in Workers :
                                /\ Home[v] = q /\ wpc'[v] = "fan"
                                /\ t \in Elems(tasks'[v]) /\ fan[v] <= i
            BY <3>1 DEF HandedOn, Elems
        <3>3. ASSUME NEW v \in Workers, Home[v] = q, fan[v] <= i, wpc[v] = "fan"
              PROVE  v # w
            <4>1. NextOf[q] \in Seq(Processors) /\ DOMAIN NextOf[q] = 1 .. Len(NextOf[q])
                  /\ Len(NextOf[q]) \in Nat
                BY NextAssumption, LenProperties
            <4> QED
                BY <3>1, <3>2, <3>3, <4>1
        <3>4. \/ t \in Elems(accepted[NextOf[q][i]]) \cup refused[NextOf[q][i]]
              \/ \E v \in Workers :
                    Home[v] = q /\ wpc[v] = "fan" /\ t \in Elems(tasks[v]) /\ fan[v] <= i
            BY DEF HandedOn
        <3>5. \A v \in Workers : v # w => wpc'[v] = wpc[v] /\ tasks'[v] = tasks[v]
            BY <1>0, <3>1
        <3> QED
            BY <3>3, <3>4, <3>5
    <2> QED
        BY <1>5, <2>1, <2>2, <2>3, <2>4, <2>5, <2>6, <2>7 DEF WorkerStep, PopStep
<1> QED
    BY <1>2, <1>3, <1>4, <1>5 DEF Next, Terminated, Free, vars

-----------------------------------------------------------------------------
(* The order of the queue *)

LEMMA ConcatParts ==
    ASSUME NEW S, NEW s \in Seq(S), NEW t \in Seq(S)
    PROVE  /\ Len(s) \in Nat /\ DOMAIN s = 1 .. Len(s)
           /\ DOMAIN t \subseteq Nat \ {0}
           /\ \A i \in DOMAIN s : i \in DOMAIN (s \o t) /\ (s \o t)[i] = s[i]
           /\ \A i \in DOMAIN t : i + Len(s) \in DOMAIN (s \o t) /\ (s \o t)[i + Len(s)] = t[i]
           /\ \A i \in DOMAIN (s \o t) : i \notin DOMAIN s =>
                    i \in Nat /\ i > Len(s) /\ i - Len(s) \in DOMAIN t
<1> DEFINE u == s \o t
<1>1. /\ u \in Seq(S) /\ Len(u) = Len(s) + Len(t) /\ Len(s) \in Nat /\ Len(t) \in Nat
      /\ DOMAIN u = 1 .. Len(s) + Len(t) /\ DOMAIN s = 1 .. Len(s) /\ DOMAIN t = 1 .. Len(t)
      /\ \A i \in DOMAIN u : u[i] = IF i <= Len(s) THEN s[i] ELSE t[i - Len(s)]
    BY ConcatProperties, LenProperties
<1> HIDE DEF u
<1>2. \A i \in DOMAIN s : i \in DOMAIN u /\ u[i] = s[i]
    BY <1>1
<1>3. \A i \in DOMAIN t : i + Len(s) \in DOMAIN u /\ u[i + Len(s)] = t[i]
    BY <1>1
<1>4. \A i \in DOMAIN u : i \notin DOMAIN s =>
            i \in Nat /\ i > Len(s) /\ i - Len(s) \in DOMAIN t
    BY <1>1
<1>5. DOMAIN t \subseteq Nat \ {0}
    BY <1>1
<1> QED
    BY <1>1, <1>2, <1>3, <1>4, <1>5 DEF u

LEMMA OrderSame ==
    ASSUME NEW p, OrderGood(p),
           queue'[p] = queue[p], accepted'[p] = accepted[p], ordered'[p] = ordered[p]
    PROVE  OrderGood(p)'
BY DEF OrderGood, Before, Elems

LEMMA OrderNow ==
    ASSUME NEW p, NEW s, NEW h, queue'[p] = s, accepted'[p] = h,
           Elems(s) \subseteq Elems(h),
           \A i, j \in DOMAIN s : i < j =>
                \/ Prio[s[i]] # Prio[s[j]]
                \/ \E k, l \in DOMAIN h : k < l /\ h[k] = s[i] /\ h[l] = s[j],
           ordered'[p] => \A i, j \in DOMAIN s : i < j => Prio[s[i]] <= Prio[s[j]]
    PROVE  OrderGood(p)'
<1> SUFFICES /\ Elems(queue'[p]) \subseteq Elems(accepted'[p])
             /\ \A i, j \in DOMAIN queue'[p] : i < j =>
                    \/ Prio[queue'[p][i]] # Prio[queue'[p][j]]
                    \/ \E k, l \in DOMAIN accepted'[p] :
                        /\ k < l /\ accepted'[p][k] = queue'[p][i]
                        /\ accepted'[p][l] = queue'[p][j]
             /\ ordered'[p] => \A i, j \in DOMAIN queue'[p] :
                    i < j => Prio[queue'[p][i]] <= Prio[queue'[p][j]]
    BY Zenon DEF OrderGood, Before, Elems
<1> QED
    OBVIOUS

\* New tasks go behind all that are queued, as they come behind all accepted.
LEMMA OrderPush ==
    ASSUME TypeInv, NEW p \in Processors, NEW ts \in Seq(Tasks), OrderGood(p),
           queue'[p] = queue[p] \o ts, accepted'[p] = accepted[p] \o ts, ~ordered'[p]
    PROVE  OrderGood(p)'
<1> DEFINE s == queue[p]
           h == accepted[p]
<1>0. s \in Seq(Tasks) /\ h \in Seq(Tasks)
    BY DEF TypeInv, TypeOK, QueueTypes, HistoryTypes
<1>1. /\ Len(s) \in Nat /\ DOMAIN s = 1 .. Len(s) /\ DOMAIN ts \subseteq Nat \ {0}
      /\ \A i \in DOMAIN s : i \in DOMAIN (s \o ts) /\ (s \o ts)[i] = s[i]
      /\ \A i \in DOMAIN ts :
            i + Len(s) \in DOMAIN (s \o ts) /\ (s \o ts)[i + Len(s)] = ts[i]
      /\ \A i \in DOMAIN (s \o ts) : i \notin DOMAIN s =>
            i \in Nat /\ i > Len(s) /\ i - Len(s) \in DOMAIN ts
    BY <1>0, ConcatParts
<1>2. /\ Len(h) \in Nat /\ DOMAIN h = 1 .. Len(h)
      /\ \A i \in DOMAIN h : i \in DOMAIN (h \o ts) /\ (h \o ts)[i] = h[i]
      /\ \A i \in DOMAIN ts :
            i + Len(h) \in DOMAIN (h \o ts) /\ (h \o ts)[i + Len(h)] = ts[i]
    BY <1>0, ConcatParts
<1>3. Elems(s \o ts) \subseteq Elems(h \o ts)
    <2>1. Elems(s \o ts) = Elems(s) \cup Elems(ts) /\ Elems(h \o ts) = Elems(h) \cup Elems(ts)
        BY <1>0, ElemsConcat
    <2>2. Elems(s) \subseteq Elems(h)
        BY DEF OrderGood
    <2> QED
        BY <2>1, <2>2
<1> DEFINE S == s \o ts
           H == h \o ts
<1>4. ASSUME NEW i \in DOMAIN S, NEW j \in DOMAIN S, i < j, Prio[S[i]] = Prio[S[j]]
      PROVE  \E k, l \in DOMAIN H : k < l /\ H[k] = S[i] /\ H[l] = S[j]
    <2> HIDE DEF S, H
    <2>1. CASE i \in DOMAIN s /\ j \in DOMAIN s
        <3>1. S[i] = s[i] /\ S[j] = s[j]
            BY <1>1, <2>1 DEF S
        <3>2. Before(p, s[i], s[j])
            BY <1>4, <2>1, <3>1 DEF OrderGood
        <3>3. PICK k \in DOMAIN h, l \in DOMAIN h : k < l /\ h[k] = s[i] /\ h[l] = s[j]
            BY <3>2 DEF Before
        <3> QED
            BY <1>2, <3>1, <3>3 DEF H
    <2>2. CASE i \in DOMAIN s /\ j \notin DOMAIN s
        <3>1. S[i] = s[i] /\ s[i] \in Elems(h)
            BY <1>1, <2>2 DEF S, OrderGood, Elems
        <3>2. PICK k \in DOMAIN h : h[k] = s[i]
            BY <3>1 DEF Elems
        <3> DEFINE m == j - Len(s)
        <3>3. m \in DOMAIN ts /\ m + Len(s) = j /\ m \in Nat \ {0}
            BY <1>1, <2>2 DEF S
        <3> HIDE DEF m
        <3>4. S[j] = ts[m] /\ m + Len(h) \in DOMAIN H /\ H[m + Len(h)] = ts[m]
            BY <1>1, <1>2, <3>3 DEF S, H
        <3>5. k \in DOMAIN H /\ H[k] = S[i] /\ k < m + Len(h)
            BY <1>2, <3>1, <3>2, <3>3 DEF H
        <3> QED
            BY <3>4, <3>5
    <2>3. CASE i \notin DOMAIN s /\ j \in DOMAIN s
        <3>1. i > Len(s) /\ i \in Nat
            BY <1>1, <2>3 DEF S
        <3>2. j <= Len(s) /\ j \in Nat
            BY <1>1, <2>3
        <3> QED
            BY <1>1, <1>4, <3>1, <3>2
    <2>4. CASE i \notin DOMAIN s /\ j \notin DOMAIN s
        <3> DEFINE m == i - Len(s)
                   n == j - Len(s)
        <3>1. /\ m \in DOMAIN ts /\ m + Len(s) = i /\ m \in Nat \ {0}
              /\ n \in DOMAIN ts /\ n + Len(s) = j /\ n \in Nat \ {0}
            BY <1>1, <2>4 DEF S
        <3>2. m < n
            BY <1>1, <1>4, <2>4 DEF S
        <3> HIDE DEF m, n
        <3>3. S[i] = ts[m] /\ m + Len(h) \in DOMAIN H /\ H[m + Len(h)] = ts[m]
            BY <1>1, <1>2, <3>1 DEF S, H
        <3>4. S[j] = ts[n] /\ n + Len(h) \in DOMAIN H /\ H[n + Len(h)] = ts[n]
            BY <1>1, <1>2, <3>1 DEF S, H
        <3>5. m + Len(h) < n + Len(h)
            BY <1>2, <3>1, <3>2
        <3> QED
            BY <3>3, <3>4, <3>5
    <2> QED
        BY <2>1, <2>2, <2>3, <2>4
<1> HIDE DEF s, h, S, H
<1>5. queue'[p] = S /\ accepted'[p] = H
    BY DEF S, H, s, h
<1>6. Elems(S) \subseteq Elems(H)
    BY <1>3 DEF S, H
<1>7. \A i, j \in DOMAIN S : i < j =>
            \/ Prio[S[i]] # Prio[S[j]]
            \/ \E k, l \in DOMAIN H : k < l /\ H[k] = S[i] /\ H[l] = S[j]
    BY <1>4
<1> QED
    BY <1>5, <1>6, <1>7, OrderNow

\* What a pop leaves is the end of the sorted queue.
LEMMA OrderPop ==
    ASSUME TypeInv, QueueBounded, NEW p \in Processors, OrderGood(p),
           NEW q \in SortedQueue(p), NEW b \in Seq(Tasks), NEW n \in Nat,
           DOMAIN b \subseteq Nat \ {0},
           \A i \in DOMAIN b : i + n \in DOMAIN q /\ b[i] = q[i + n],
           queue'[p] = b, accepted' = accepted
    PROVE  OrderGood(p)'
<1>1. /\ q \in Seq(Tasks) /\ Elems(q) = InQueue(p)
      /\ \A i, j \in DOMAIN q : i < j =>
            \/ Prio[q[i]] < Prio[q[j]]
            \/ Prio[q[i]] = Prio[q[j]] /\ Before(p, q[i], q[j])
    BY SortedQueueElems
<1>2. \A i \in DOMAIN b : b[i] \in Tasks /\ Prio[b[i]] \in Nat
    BY PrioAssumption
<1>3. ASSUME NEW i \in DOMAIN b, NEW j \in DOMAIN b, i < j
      PROVE  \/ Prio[b[i]] < Prio[b[j]]
             \/ Prio[b[i]] = Prio[b[j]] /\ Before(p, b[i], b[j])
    <2>1. i + n < j + n
        BY <1>3
    <2> QED
        BY <1>1, <2>1
<1>4. Elems(b) \subseteq Elems(accepted[p])
    <2>1. Elems(q) \subseteq Elems(accepted[p])
        BY <1>1 DEF OrderGood, InQueue
    <2>2. \A i \in DOMAIN b : b[i] \in Elems(q)
        BY DEF Elems
    <2> QED
        BY <2>1, <2>2 DEF Elems
<1>5. \A i, j \in DOMAIN b : i < j =>
            Prio[b[i]] # Prio[b[j]] \/ Before(p, b[i], b[j])
    <2> SUFFICES ASSUME NEW i \in DOMAIN b, NEW j \in DOMAIN b, i < j
                 PROVE  Prio[b[i]] # Prio[b[j]] \/ Before(p, b[i], b[j])
        OBVIOUS
    <2> QED
        BY <1>2, <1>3
<1>6. \A i, j \in DOMAIN b : i < j => Prio[b[i]] <= Prio[b[j]]
    <2> SUFFICES ASSUME NEW i \in DOMAIN b, NEW j \in DOMAIN b, i < j
                 PROVE  Prio[b[i]] <= Prio[b[j]]
        OBVIOUS
    <2> QED
        BY <1>2, <1>3
<1>7. \A i, j \in DOMAIN b : i < j =>
            \/ Prio[b[i]] # Prio[b[j]]
            \/ \E k, l \in DOMAIN accepted[p] :
                k < l /\ accepted[p][k] = b[i] /\ accepted[p][l] = b[j]
    BY <1>5 DEF Before
<1>8. queue'[p] = b /\ accepted'[p] = accepted[p]
    OBVIOUS
<1> QED
    BY <1>4, <1>6, <1>7, <1>8, OrderNow

LEMMA OrderKeeps ==
    ASSUME TypeInv, QueueBounded, OrderInv, [Next]_vars
    PROVE  OrderInv'
<1>0. /\ queue \in [Processors -> Seq(Tasks)] /\ ordered \in [Processors -> BOOLEAN]
    BY DEF TypeInv, TypeOK, QueueTypes
<1>1. ASSUME UNCHANGED <<queue, accepted, ordered>>
      PROVE  OrderInv'
    BY <1>1, OrderSame DEF OrderInv
<1>2. ASSUME NEW p \in Processors, NEW ts \in Seq(Tasks), PushTo(p, ts)
      PROVE  OrderInv'
    <2> SUFFICES ASSUME NEW q \in Processors PROVE OrderGood(q)'
        BY DEF OrderInv
    <2>0. OrderGood(q)
        BY DEF OrderInv
    <2>1. \/ queue'[q] = queue[q] /\ accepted'[q] = accepted[q] /\ ordered'[q] = ordered[q]
          \/ /\ queue'[q] = queue[q] \o ts /\ accepted'[q] = accepted[q] \o ts
             /\ ~ordered'[q]
        BY <1>2, PushTasks
    <2> QED
        BY <2>0, <2>1, OrderSame, OrderPush
<1>3. ASSUME NEW w \in Workers, PopBatch(w) \/ PopRest(w)
      PROVE  OrderInv'
    <2> DEFINE p == Home[w]
    <2>0. p \in Processors /\ accepted' = accepted
        BY <1>3, HomeAssumption DEF PopBatch, PopRest, PopReturn, history
    <2>1. PICK q \in SortedQueue(p), a \in Seq(Tasks), b \in Seq(Tasks), n \in Nat :
                Splits(w, q, a, b, n)
        BY <1>3, PopTakes
    <2>2. /\ queue' = [queue EXCEPT ![p] = b]
          /\ DOMAIN b \subseteq Nat \ {0}
          /\ \A i \in DOMAIN b : i + n \in DOMAIN q /\ b[i] = q[i + n]
        BY <2>1 DEF Splits
    <2>3. ordered' = [ordered EXCEPT ![p] = TRUE]
        BY <1>3, PopTakes
    <2> HIDE DEF p
    <2>4. OrderGood(p)'
        <3>1. queue'[p] = b /\ OrderGood(p)
            BY <1>0, <2>0, <2>2 DEF OrderInv
        <3> QED
            BY <2>0, <2>2, <3>1, OrderPop
    <2>5. ASSUME NEW r \in Processors, r # p PROVE OrderGood(r)'
        BY <1>0, <2>0, <2>2, <2>3, <2>5, OrderSame DEF OrderInv
    <2> QED
        BY <2>4, <2>5 DEF OrderInv
<1>4. ASSUME NEW w \in Workers, WorkerStep(w)
      PROVE  OrderInv'
    <2>1. CASE PopBatch(w) \/ PopRest(w)
        BY <1>3, <2>1
    <2>2. CASE FanOut(w)
        BY <1>2, <2>2, FanTarget
    <2>3. CASE Start(w) \/ Take(w) \/ Quit(w) \/ Handle(w) \/ Ignore(w) \/ FanEnd(w)
        BY <1>1, <2>3 DEF Start, Take, Quit, Handle, Ignore, FanEnd, queueVars, history
    <2>4. CASE TimeOut(w) \/ PopEmpty(w)
        BY <1>1, <2>4 DEF TimeOut, PopEmpty, PopReturn, queueVars, history
    <2> QED
        BY <1>4, <2>1, <2>2, <2>3, <2>4 DEF WorkerStep, PopStep
<1>5. ASSUME NEW p \in Entries, NEW ts \in Lists, Push(p, ts)
      PROVE  OrderInv'
    BY <1>2, <1>5, OwnersAssumption, ListsAssumption DEF Push
<1>6. ASSUME NEW o \in Owners, OwnerCall(o) \/ OwnerStep(o)
      PROVE  OrderInv'
    BY <1>1, <1>6, OwnerLeaves DEF queueVars, history
<1>7. ASSUME UNCHANGED <<queueVars, history>>
      PROVE  OrderInv'
    BY <1>1, <1>7 DEF queueVars, history
<1> QED
    BY <1>4, <1>5, <1>6, <1>7 DEF Next, Terminated, Free, vars

LEMMA OrderHolds ==
    ASSUME TypeInv, QueueBounded, HandsInv, OrderInv, [Next]_vars,
           NEW w \in Workers, wpc[w] = "pop", wpc'[w] = "check",
           NEW x \in Elems(tasks'[w]), NEW y \in Elems(queue'[Home[w]])
    PROVE  \/ Prio[x] < Prio[y]
           \/ Prio[x] = Prio[y] /\ Before(Home[w], x, y)
<1>0. /\ wpc \in [Workers -> WorkerStates] /\ tasks \in [Workers -> Seq(Tasks)]
      /\ queue \in [Processors -> Seq(Tasks)] /\ Home[w] \in Processors
    BY HomeAssumption DEF TypeInv, TypeOK, WorkerTypes, QueueTypes
<1>1. CASE PopBatch(w) \/ PopRest(w)
    <2> DEFINE p == Home[w]
    <2>1. PICK q \in SortedQueue(p), a \in Seq(Tasks), b \in Seq(Tasks), n \in Nat :
                Splits(w, q, a, b, n)
        BY <1>1, PopTakes
    <2>2. /\ tasks' = [tasks EXCEPT ![w] = a]
          /\ queue' = [queue EXCEPT ![p] = b]
          /\ \A i \in DOMAIN a : i \in DOMAIN q /\ i \in 1 .. n /\ a[i] = q[i]
          /\ DOMAIN b \subseteq Nat \ {0}
          /\ \A i \in DOMAIN b : i + n \in DOMAIN q /\ b[i] = q[i + n]
        BY <2>1 DEF Splits
    <2>3. PICK i \in DOMAIN a, j \in DOMAIN b : x = a[i] /\ y = b[j]
        BY <1>0, <2>2 DEF Elems
    <2>4. i < j + n
        BY <2>2, <2>3
    <2>5. OrderGood(p)
        BY <1>0 DEF OrderInv
    <2>6. \A k, l \in DOMAIN q : k < l =>
                \/ Prio[q[k]] < Prio[q[l]]
                \/ Prio[q[k]] = Prio[q[l]] /\ Before(p, q[k], q[l])
        BY <1>0, <2>2, <2>5, SortedQueueElems
    <2> QED
        BY <2>2, <2>3, <2>4, <2>6
<1>2. CASE PopEmpty(w)
    <2>1. tasks'[w] = <<>>
        BY <1>2 DEF PopEmpty, HandsInv
    <2> QED
        BY <2>1, ElemsEmpty
<1>3. PopBatch(w) \/ PopRest(w) \/ PopEmpty(w)
    <2>1. ASSUME NEW v \in Workers, WorkerStep(v)
          PROVE  v = w /\ (PopBatch(w) \/ PopRest(w) \/ PopEmpty(w))
        <3>1. wpc' = [wpc EXCEPT ![v] = wpc'[v]]
            BY <2>1, WorkerMoves
        <3>2. v = w
            BY <1>0, <3>1
        <3>3. WorkerStep(w)
            BY <2>1, <3>2
        <3> QED
            BY <3>2, <3>3 DEF WorkerStep, PopStep, Start, Take, TimeOut, Quit,
                              Handle, Ignore, FanOut, FanEnd
    <2>2. ASSUME NEW o \in Owners, OwnerCall(o) \/ OwnerStep(o)
          PROVE  FALSE
        BY <2>2, OwnerLeaves
    <2>3. ASSUME UNCHANGED wpc PROVE FALSE
        BY <2>3
    <2> QED
        BY <2>1, <2>2, <2>3 DEF Next, Terminated, Push, Free, vars, workerVars
<1> QED
    BY <1>1, <1>2, <1>3

-----------------------------------------------------------------------------
(* The steps of TaskBuffer *)

\* What the buffer sees of processor p stays as it was.
SameSeen(p) == InQueue(p)' = InQueue(p) /\ InHand(p)' = InHand(p)

LEMMA SameCardinality == ASSUME NEW S PROVE Buffer!Cardinality(S) = Cardinality(S)
BY Zenon DEF Buffer!Cardinality, Cardinality

LEMMA SeenAccept ==
    ASSUME NEW p \in Processors, NEW S \in SUBSET Tasks,
           S \cap (InQueue(p) \cup InHand(p) \cup done[p] \cup dropped[p]) = {},
           Cardinality(InQueue(p) \cup S) <= MaxQueueSize,
           InQueue(p)' = InQueue(p) \cup S, InHand(p)' = InHand(p),
           \A q \in Processors : q # p => SameSeen(q),
           UNCHANGED <<done, dropped>>
    PROVE  Buffer!Next
<1>1. Buffer!Accept(p, S)
    <2>1. [q \in Processors |-> InQueue(q)'] =
            [[q \in Processors |-> InQueue(q)] EXCEPT ![p] = @ \cup S]
        BY DEF SameSeen
    <2>2. [q \in Processors |-> InHand(q)'] = [q \in Processors |-> InHand(q)]
        BY DEF SameSeen
    <2> QED
        BY <2>1, <2>2, SameCardinality DEF Buffer!Accept, Buffer!Known
<1> QED
    BY <1>1 DEF Buffer!Next

LEMMA SeenDeliver ==
    ASSUME NEW p \in Processors, NEW S \in SUBSET Tasks, S \subseteq InQueue(p),
           InQueue(p)' = InQueue(p) \ S, InHand(p)' = InHand(p) \cup S,
           \A q \in Processors : q # p => SameSeen(q),
           UNCHANGED <<done, dropped>>
    PROVE  Buffer!Next
<1>1. Buffer!Deliver(p, S)
    <2>1. [q \in Processors |-> InQueue(q)'] =
            [[q \in Processors |-> InQueue(q)] EXCEPT ![p] = @ \ S]
        BY DEF SameSeen
    <2>2. [q \in Processors |-> InHand(q)'] =
            [[q \in Processors |-> InHand(q)] EXCEPT ![p] = @ \cup S]
        BY DEF SameSeen
    <2> QED
        BY <2>1, <2>2 DEF Buffer!Deliver
<1> QED
    BY <1>1 DEF Buffer!Next

LEMMA SeenLeave ==
    ASSUME NEW p \in Processors, NEW S \in SUBSET Tasks, S \subseteq InHand(p),
           InQueue(p)' = InQueue(p), InHand(p)' = InHand(p) \ S,
           \A q \in Processors : q # p => SameSeen(q),
           \/ done' = [done EXCEPT ![p] = @ \cup S] /\ UNCHANGED dropped
           \/ dropped' = [dropped EXCEPT ![p] = @ \cup S] /\ UNCHANGED done
    PROVE  Buffer!Next
<1>1. [q \in Processors |-> InQueue(q)'] = [q \in Processors |-> InQueue(q)]
    BY DEF SameSeen
<1>2. [q \in Processors |-> InHand(q)'] =
        [[q \in Processors |-> InHand(q)] EXCEPT ![p] = @ \ S]
    BY DEF SameSeen
<1>3. Buffer!Handle(p, S) \/ Buffer!Lose(p, S)
    BY <1>1, <1>2 DEF Buffer!Handle, Buffer!Lose
<1> QED
    BY <1>3 DEF Buffer!Next

LEMMA SeenSame ==
    ASSUME \A p \in Processors : SameSeen(p), UNCHANGED <<done, dropped>>
    PROVE  UNCHANGED Buffer!vars
BY DEF Buffer!vars, SameSeen

\* The tasks of Home[w] that other workers hold.
OthersHold(w) == UNION {Holds(v) : v \in {u \in Workers : Home[u] = Home[w] /\ u # w}}

LEMMA HandsOf ==
    ASSUME NEW w \in Workers
    PROVE  /\ InHand(Home[w]) = OthersHold(w) \cup Holds(w)
           /\ (\A v, u \in Workers :
                    v # u /\ Home[v] = Home[u] => Held(v) \cap Held(u) = {})
              => OthersHold(w) \cap Held(w) = {}
<1>1. InHand(Home[w]) = OthersHold(w) \cup Holds(w)
    BY DEF InHand, OthersHold
<1>2. \A v \in Workers : Holds(v) \subseteq Held(v)
    BY DEF Holds, Held
<1> QED
    BY <1>1, <1>2 DEF OthersHold

\* A step of worker w changes what it holds itself.
LEMMA HandMoves ==
    ASSUME NEW w \in Workers, \A v \in Workers : v # w => Holds(v)' = Holds(v)
    PROVE  /\ OthersHold(w)' = OthersHold(w)
           /\ InHand(Home[w])' = OthersHold(w) \cup Holds(w)'
           /\ \A p \in Processors : p # Home[w] => InHand(p)' = InHand(p)
<1>1. OthersHold(w)' = OthersHold(w)
    BY DEF OthersHold
<1>2. InHand(Home[w])' = OthersHold(w)' \cup Holds(w)'
    BY DEF InHand, OthersHold
<1>3. \A p \in Processors : p # Home[w] => InHand(p)' = InHand(p)
    BY DEF InHand
<1> QED
    BY <1>1, <1>2, <1>3

LEMMA HandsStay ==
    ASSUME \A v \in Workers : Holds(v)' = Holds(v)
    PROVE  \A p \in Processors : InHand(p)' = InHand(p)
BY DEF InHand

-----------------------------------------------------------------------------
(* Where the tasks are, step by step *)

\* Steps that move no task: a worker may only forget a list it is done with.
LEMMA PlacesQuiet ==
    ASSUME PlacesInv, UNCHANGED <<queue, accepted, done, dropped>>,
           \A v \in Workers : Holds(v)' = Holds(v),
           \A v \in Workers :
                \/ /\ tasks'[v] = tasks[v] /\ fan'[v] = fan[v]
                   /\ wpc'[v] = "fan" => wpc[v] = "fan"
                \/ tasks'[v] = <<>> /\ wpc'[v] # "fan"
    PROVE  PlacesInv' /\ UNCHANGED Buffer!vars
<1>1. \A p \in Processors : InHand(p)' = InHand(p) /\ InQueue(p)' = InQueue(p)
    BY HandsStay DEF InQueue, Elems
<1>2. \A p \in Processors : Distinct(queue[p])' /\ Located(p)'
    BY <1>1 DEF PlacesInv, Located, Distinct, Elems
<1>3. \A v \in Workers : Distinct(tasks'[v])
    BY ElemsEmpty DEF PlacesInv
<1>4. \A v \in Workers : Held(v)' = Held(v) \/ Held(v)' = {}
    BY ElemsEmpty DEF Held
<1>5. \A v \in Workers : wpc'[v] = "fan" =>
            Held(v)' = Held(v) /\ fan'[v] = fan[v] /\ wpc[v] = "fan"
    BY DEF Held
<1>6. ASSUME NEW w \in Workers, wpc'[w] = "fan"
      PROVE  Held(w)' \subseteq done'[Home[w]] /\ NewAhead(w)'
    BY <1>5, <1>6 DEF PlacesInv, NewAhead, Elems, NextProcessors
<1>7. \A v, w \in Workers : v # w /\ Home[v] = Home[w] => Held(v)' \cap Held(w)' = {}
    BY <1>4 DEF PlacesInv
<1>8. \A p \in Processors : \A i \in DOMAIN NextOf[p] :
            Elems(accepted'[NextOf[p][i]]) \subseteq done'[p]
    BY DEF PlacesInv
<1>9. PlacesInv'
    BY <1>2, <1>3, <1>6, <1>7, <1>8 DEF PlacesInv, Distinct, Elems
<1> QED
    BY <1>1, <1>9, SeenSame DEF SameSeen

\* A push of tasks that are new to the processor.
LEMMA PlacesPush ==
    ASSUME TypeInv, QueueBounded', NEW p \in Processors, NEW ts \in Seq(Tasks), PushTo(p, ts),
           \A q \in Processors : Distinct(queue[q]) /\ Located(q),
           Distinct(ts), Elems(ts) \cap Elems(accepted[p]) = {},
           UNCHANGED <<wpc, tasks, done, dropped>>
    PROVE  /\ \A q \in Processors : Distinct(queue'[q]) /\ Located(q)'
           /\ Buffer!Next \/ UNCHANGED Buffer!vars
<1>0. /\ queue \in [Processors -> Seq(Tasks)] /\ accepted \in [Processors -> Seq(Tasks)]
    BY DEF TypeInv, TypeOK, QueueTypes, HistoryTypes
<1>1. \A q \in Processors : InHand(q)' = InHand(q)
    BY HandsStay DEF Holds, Elems
<1>2. \A q \in Processors : q # p => queue'[q] = queue[q] /\ accepted'[q] = accepted[q]
    BY PushTasks
<1>3. \A q \in Processors : q # p =>
            SameSeen(q) /\ Distinct(queue'[q]) /\ Located(q)'
    BY <1>1, <1>2 DEF SameSeen, InQueue, Located, Elems
<1>4. CASE queue'[p] = queue[p] /\ accepted'[p] = accepted[p]
    <2>1. SameSeen(p) /\ Distinct(queue'[p]) /\ Located(p)'
        BY <1>1, <1>4 DEF SameSeen, InQueue, Located, Elems
    <2> QED
        BY <1>3, <2>1, SeenSame
<1>5. CASE queue'[p] = queue[p] \o ts /\ accepted'[p] = accepted[p] \o ts
    <2>1. /\ Elems(queue'[p]) = Elems(queue[p]) \cup Elems(ts)
          /\ Elems(accepted'[p]) = Elems(accepted[p]) \cup Elems(ts)
        BY <1>0, <1>5, ElemsConcat
    <2>2. InQueue(p)' = InQueue(p) \cup Elems(ts)
        BY <2>1 DEF InQueue, Elems
    <2>3. /\ Elems(accepted[p]) = InQueue(p) \cup InHand(p) \cup done[p] \cup dropped[p]
          /\ InQueue(p) \cap (InHand(p) \cup done[p] \cup dropped[p]) = {}
          /\ InHand(p) \cap (done[p] \cup dropped[p]) = {}
          /\ done[p] \cap dropped[p] = {}
          /\ InQueue(p) = Elems(queue[p])
        BY DEF Located, InQueue
    <2>4. Distinct(queue'[p]) /\ queue'[p] \in Seq(Tasks)
        BY <1>0, <1>5, <2>3, ElemsConcat
    <2>5. Located(p)'
        <3>1. Elems(accepted[p])' = Elems(accepted[p]) \cup Elems(ts)
            BY <2>1 DEF Elems
        <3> QED
            BY <1>1, <2>2, <2>3, <3>1 DEF Located
    <2>6. Cardinality(InQueue(p) \cup Elems(ts)) <= MaxQueueSize
        <3>1. Cardinality(Elems(queue'[p])) = Len(queue'[p])
            BY <2>4, DistinctSize
        <3>2. Len(queue'[p]) <= MaxQueueSize
            BY DEF QueueBounded
        <3> QED
            BY <2>1, <2>3, <3>1, <3>2
    <2>7. Elems(ts) \in SUBSET Tasks
        BY ElemsType
    <2>8. Buffer!Next
        BY <1>1, <1>3, <2>2, <2>3, <2>6, <2>7, SeenAccept
    <2> QED
        BY <1>3, <2>4, <2>5, <2>8
<1> QED
    BY <1>4, <1>5, PushTasks

BufferSteps == Buffer!Next \/ UNCHANGED Buffer!vars

\* The operators on the tasks, in the state after a step.
LEMMA SeenNow ==
    /\ \A w : Held(w)' = Elems(tasks'[w])
    /\ \A w : Holds(w)' = IF wpc'[w] = "check" THEN Elems(tasks'[w]) ELSE {}
    /\ \A p : InQueue(p)' = Elems(queue'[p])
    /\ \A w : NewAhead(w)' <=> \A i \in DOMAIN NextOf[Home[w]] :
            fan'[w] <= i => Elems(tasks'[w]) \cap Elems(accepted'[NextOf[Home[w]][i]]) = {}
BY DEF Held, Holds, InQueue, NewAhead, NextProcessors, Elems

LEMMA PlacesNow ==
    ASSUME \A p \in Processors : Distinct(queue'[p]) /\ Located(p)',
           \A w \in Workers : Distinct(tasks'[w]),
           \A w \in Workers : wpc'[w] = "fan" =>
                Held(w)' \subseteq done'[Home[w]] /\ NewAhead(w)',
           \A v, w \in Workers :
                v # w /\ Home[v] = Home[w] => Held(v)' \cap Held(w)' = {},
           \A p \in Processors : \A i \in DOMAIN NextOf[p] :
                Elems(accepted'[NextOf[p][i]]) \subseteq done'[p]
    PROVE  PlacesInv'
BY DEF PlacesInv, Distinct, Elems

LEMMA PlacesEntry ==
    ASSUME NoRepeats, Tree, TypeInv, QueueBounded', PlacesInv,
           NEW p \in Entries, NEW ts \in Lists, Push(p, ts)
    PROVE  PlacesInv' /\ BufferSteps
<1>1. p \in Processors /\ ts \in Seq(Tasks) /\ Distinct(ts)
    BY OwnersAssumption, ListsAssumption DEF NoRepeats
<1>2. /\ PushTo(p, ts) /\ Elems(ts) \cap Elems(accepted[p]) = {}
      /\ UNCHANGED <<wpc, tasks, fan, done, dropped>>
    BY DEF Push, workerVars
<1>3. /\ \A q \in Processors : Distinct(queue'[q]) /\ Located(q)'
      /\ BufferSteps
    BY <1>1, <1>2, PlacesPush DEF PlacesInv, BufferSteps
<1>4. \A q \in Processors : q # p => accepted'[q] = accepted[q]
    BY <1>1, <1>2, PushTasks
<1>5. \A q \in Processors : \A i \in DOMAIN NextOf[q] :
            accepted'[NextOf[q][i]] = accepted[NextOf[q][i]]
    BY <1>4, NextAssumption DEF Tree
<1>6. \A w \in Workers : NewAhead(w)' <=> NewAhead(w)
    BY <1>2, <1>5, HomeAssumption, SeenNow DEF NewAhead, NextProcessors, Held
<1>7. \A w \in Workers : Held(w)' = Held(w)
    BY <1>2 DEF Held, Elems
<1>8. \A q \in Processors : \A i \in DOMAIN NextOf[q] :
            Elems(accepted'[NextOf[q][i]]) \subseteq done'[q]
    BY <1>2, <1>5 DEF PlacesInv
<1>9. PlacesInv'
    <2>1. \A w \in Workers : Distinct(tasks'[w])
        BY <1>2 DEF PlacesInv
    <2>2. \A w \in Workers : wpc'[w] = "fan" =>
                Held(w)' \subseteq done'[Home[w]] /\ NewAhead(w)'
        BY <1>2, <1>6, <1>7 DEF PlacesInv
    <2>3. \A v, w \in Workers :
                v # w /\ Home[v] = Home[w] => Held(v)' \cap Held(w)' = {}
        BY <1>7 DEF PlacesInv
    <2> QED
        BY <1>3, <1>8, <2>1, <2>2, <2>3, PlacesNow
<1> QED
    BY <1>3, <1>9

LEMMA PlacesFan ==
    ASSUME Tree, TypeInv, QueueBounded', PlacesInv, NEW w \in Workers, FanOut(w)
    PROVE  PlacesInv' /\ BufferSteps
<1> DEFINE h == Home[w]
           q == NextOf[h][fan[w]]
<1>0. fan \in [Workers -> Nat] /\ \A v \in Workers : Home[v] \in Processors
    BY HomeAssumption DEF TypeInv, TypeOK, WorkerTypes
<1>1. /\ h \in Processors /\ fan[w] \in DOMAIN NextOf[h] /\ q \in Processors
      /\ tasks[w] \in Seq(Tasks) /\ PushTo(q, tasks[w]) /\ wpc[w] = "fan"
      /\ fan' = [fan EXCEPT ![w] = @ + 1]
      /\ UNCHANGED <<wpc, tasks, done, dropped>>
    BY FanTarget
<1>2. /\ Distinct(tasks[w]) /\ Held(w) \subseteq done[h]
      /\ Held(w) \cap Elems(accepted[q]) = {}
    BY <1>0, <1>1 DEF PlacesInv, NewAhead, NextProcessors
<1>3. /\ \A p \in Processors : Distinct(queue'[p]) /\ Located(p)'
      /\ BufferSteps
    BY <1>1, <1>2, PlacesPush DEF PlacesInv, BufferSteps, Held
<1>4. /\ \A p \in Processors : p # q => accepted'[p] = accepted[p]
      /\ Elems(accepted'[q]) \subseteq Elems(accepted[q]) \cup Held(w)
    <2>1. Elems(accepted[q] \o tasks[w]) = Elems(accepted[q]) \cup Elems(tasks[w])
        BY <1>1, ElemsConcat DEF TypeInv, TypeOK, HistoryTypes
    <2> QED
        BY <1>1, <2>1, PushTasks DEF Held
<1>5. \A v \in Workers : Held(v)' = Held(v)
    BY <1>1 DEF Held, Elems
<1>6. \A p \in Processors : \A i \in DOMAIN NextOf[p] :
            NextOf[p][i] = q => p = h /\ i = fan[w]
    BY <1>1 DEF Tree
<1>7. \A p \in Processors : \A i \in DOMAIN NextOf[p] : NextOf[p][i] \in Processors /\ i \in Nat
    BY NextAssumption
<1> HIDE DEF h, q
<1>8. \A p \in Processors : \A i \in DOMAIN NextOf[p] :
            Elems(accepted'[NextOf[p][i]]) \subseteq done'[p]
    BY <1>1, <1>2, <1>4, <1>6, <1>7 DEF PlacesInv
<1>9. ASSUME NEW v \in Workers, wpc'[v] = "fan"
      PROVE  Held(v)' \subseteq done'[Home[v]] /\ NewAhead(v)'
    <2>1. Held(v) \subseteq done[Home[v]] /\ NewAhead(v)
        BY <1>1, <1>9 DEF PlacesInv
    <2>2. ASSUME NEW i \in DOMAIN NextOf[Home[v]], fan'[v] <= i
          PROVE  Held(v) \cap Elems(accepted'[NextOf[Home[v]][i]]) = {}
        <3>1. fan[v] <= i
            BY <1>0, <1>1, <1>7, <2>2
        <3>2. Held(v) \cap Elems(accepted[NextOf[Home[v]][i]]) = {}
            BY <2>1, <3>1 DEF NewAhead, NextProcessors
        <3>3. CASE NextOf[Home[v]][i] # q
            BY <1>0, <1>4, <1>7, <3>2, <3>3
        <3>4. CASE NextOf[Home[v]][i] = q
            <4>1. Home[v] = h /\ i = fan[w]
                BY <1>0, <1>6, <3>4
            <4>2. v # w
                BY <1>0, <1>1, <2>2, <4>1
            <4>3. Held(v) \cap Held(w) = {}
                BY <4>1, <4>2 DEF PlacesInv, h
            <4> QED
                BY <1>4, <3>2, <3>4, <4>3
        <3> QED
            BY <3>3, <3>4
    <2>3. Held(v)' \subseteq done'[Home[v]]
        BY <1>1, <1>5, <2>1
    <2>4. NewAhead(v)'
        BY <1>5, <2>2 DEF NewAhead, NextProcessors, Elems
    <2> QED
        BY <2>3, <2>4
<1>10. PlacesInv'
    <2>1. \A v \in Workers : Distinct(tasks'[v])
        BY <1>1 DEF PlacesInv
    <2>2. \A u, v \in Workers :
                u # v /\ Home[u] = Home[v] => Held(u)' \cap Held(v)' = {}
        BY <1>5 DEF PlacesInv
    <2> QED
        BY <1>3, <1>8, <1>9, <2>1, <2>2, PlacesNow
<1> QED
    BY <1>3, <1>10

LEMMA PlacesPop ==
    ASSUME TypeInv, QueueBounded, HandsInv, PlacesInv,
           NEW w \in Workers, PopBatch(w) \/ PopRest(w)
    PROVE  PlacesInv' /\ BufferSteps
<1> DEFINE p == Home[w]
<1>0. /\ wpc \in [Workers -> WorkerStates] /\ tasks \in [Workers -> Seq(Tasks)]
      /\ queue \in [Processors -> Seq(Tasks)] /\ p \in Processors
    BY HomeAssumption DEF TypeInv, TypeOK, WorkerTypes, QueueTypes
<1>1. /\ wpc[w] = "pop" /\ wpc' = [wpc EXCEPT ![w] = "check"]
      /\ UNCHANGED <<fan, history>>
    BY PopTakes
<1>2. PICK q \in SortedQueue(p), a \in Seq(Tasks), b \in Seq(Tasks), n \in Nat :
            Splits(w, q, a, b, n)
    BY PopTakes
<1>3. Distinct(q) /\ Elems(q) = InQueue(p) /\ Distinct(queue[p]) /\ Located(p)
    BY <1>0, <1>2, SortedQueueElems DEF PlacesInv
<1>4. /\ tasks' = [tasks EXCEPT ![w] = a] /\ queue' = [queue EXCEPT ![p] = b]
      /\ InQueue(p) = Elems(a) \cup Elems(b)
      /\ Distinct(a) /\ Distinct(b) /\ Elems(a) \cap Elems(b) = {}
    BY <1>2, <1>3 DEF Splits
<1> HIDE DEF p
<1>5. /\ queue'[p] = b /\ tasks'[w] = a /\ wpc'[w] = "check"
      /\ \A r \in Processors : r # p => queue'[r] = queue[r]
      /\ \A v \in Workers : v # w => tasks'[v] = tasks[v] /\ wpc'[v] = wpc[v]
    BY <1>0, <1>1, <1>4
<1>6. /\ \A v \in Workers : v # w => Held(v)' = Held(v) /\ Holds(v)' = Holds(v)
      /\ Held(w)' = Elems(a) /\ Holds(w)' = Elems(a) /\ Holds(w) = {}
    BY <1>1, <1>5, SeenNow DEF Held, Holds
<1>7. InHand(p)' = InHand(p) \cup Elems(a)
    BY <1>6, HandsOf, HandMoves DEF p
<1>8. \A r \in Processors : r # p => SameSeen(r)
    BY <1>5, <1>6, HandMoves DEF SameSeen, InQueue, Elems, p
<1>9. InQueue(p)' = InQueue(p) \ Elems(a)
    BY <1>4, <1>5, SeenNow
<1>10. UNCHANGED <<accepted, done, dropped>>
    BY <1>1 DEF history
<1>11. BufferSteps
    <2>1. Elems(a) \in SUBSET Tasks /\ Elems(a) \subseteq InQueue(p)
        BY <1>4, ElemsType
    <2> QED
        BY <1>0, <1>7, <1>8, <1>9, <1>10, <2>1, SeenDeliver DEF BufferSteps, p
<1>12. ASSUME NEW r \in Processors PROVE Distinct(queue'[r]) /\ Located(r)'
    <2>1. CASE r = p
        BY <1>3, <1>4, <1>5, <1>7, <1>9, <1>10, <2>1 DEF Located, Elems
    <2>2. CASE r # p
        BY <1>5, <1>8, <1>10, <2>2 DEF PlacesInv, Located, SameSeen, Elems
    <2> QED
        BY <2>1, <2>2
<1>13. \A v \in Workers : Distinct(tasks'[v])
    BY <1>4, <1>5 DEF PlacesInv
<1>14. ASSUME NEW v \in Workers, wpc'[v] = "fan"
      PROVE  Held(v)' \subseteq done'[Home[v]] /\ NewAhead(v)'
    <2>1. v # w /\ wpc[v] = "fan" /\ Held(v)' = Held(v)
        BY <1>5, <1>6, <1>14
    <2> QED
        BY <1>1, <1>10, <2>1, SeenNow DEF PlacesInv, NewAhead, NextProcessors, Held
<1>15. ASSUME NEW v \in Workers, v # w, Home[v] = p
       PROVE  Held(v) \cap Elems(a) = {}
    <2>1. CASE wpc[v] = "check"
        <3>1. Held(v) \subseteq InHand(p)
            BY <1>15, <2>1 DEF InHand, Held, Holds
        <3> QED
            BY <1>3, <1>4, <3>1 DEF Located
    <2>2. CASE wpc[v] = "fan"
        <3>1. Held(v) \subseteq done[p]
            BY <1>15, <2>2 DEF PlacesInv
        <3> QED
            BY <1>3, <1>4, <3>1 DEF Located
    <2>3. CASE wpc[v] \notin {"check", "fan"}
        BY <2>3, ElemsEmpty DEF HandsInv, Held
    <2> QED
        BY <2>1, <2>2, <2>3
<1>16. \A u, v \in Workers : u # v /\ Home[u] = Home[v] => Held(u)' \cap Held(v)' = {}
    BY <1>6, <1>15 DEF PlacesInv, p
<1>17. PlacesInv'
    <2>1. \A r \in Processors : \A i \in DOMAIN NextOf[r] :
            Elems(accepted'[NextOf[r][i]]) \subseteq done'[r]
        BY <1>10 DEF PlacesInv
    <2> QED
        BY <1>12, <1>13, <1>14, <1>16, <2>1, PlacesNow
<1> QED
    BY <1>11, <1>17

\* A worker's tasks leave its hands, for handle_task() or with the thread.
LEMMA PlacesLeave ==
    ASSUME TypeInv, PlacesInv, NEW w \in Workers, Handle(w) \/ Quit(w)
    PROVE  PlacesInv' /\ BufferSteps
<1> DEFINE p == Home[w]
<1>0. /\ wpc \in [Workers -> WorkerStates] /\ tasks \in [Workers -> Seq(Tasks)]
      /\ done \in [Processors -> SUBSET Tasks] /\ dropped \in [Processors -> SUBSET Tasks]
      /\ fan \in [Workers -> Nat] /\ p \in Processors
    BY HomeAssumption DEF TypeInv, TypeOK, WorkerTypes, HistoryTypes
<1>1. /\ wpc[w] = "check" /\ wpc'[w] \in {"fan", "gone"}
      /\ UNCHANGED <<queue, accepted>>
      /\ \A v \in Workers : v # w =>
            wpc'[v] = wpc[v] /\ tasks'[v] = tasks[v] /\ fan'[v] = fan[v]
    BY <1>0 DEF Handle, Quit, queueVars
<1>2. \/ /\ done' = [done EXCEPT ![p] = @ \cup Elems(tasks[w])] /\ UNCHANGED dropped
         /\ tasks'[w] = tasks[w] /\ wpc'[w] = "fan" /\ fan'[w] = 1
      \/ /\ dropped' = [dropped EXCEPT ![p] = @ \cup Elems(tasks[w])] /\ UNCHANGED done
         /\ tasks'[w] = <<>> /\ wpc'[w] = "gone"
    BY <1>0 DEF Handle, Quit
<1>3. Elems(tasks[w]) = Held(w) /\ Held(w) \in SUBSET Tasks
    BY <1>0, ElemsType DEF Held
<1> HIDE DEF p
<1>4. /\ \A v \in Workers : v # w => Held(v)' = Held(v) /\ Holds(v)' = Holds(v)
      /\ Holds(w)' = {} /\ Holds(w) = Held(w)
      /\ Held(w)' = Held(w) \/ Held(w)' = {}
    <2>1. Held(w)' = Held(w) \/ Held(w)' = {}
        BY <1>2, <1>3, SeenNow, ElemsEmpty
    <2> QED
        BY <1>1, <2>1, SeenNow DEF Held, Holds
<1>5. /\ InHand(p) = OthersHold(w) \cup Held(w)
      /\ OthersHold(w) \cap Held(w) = {}
    BY <1>4, HandsOf DEF p, PlacesInv
<1>6. /\ InHand(p)' = InHand(p) \ Held(w)
      /\ \A r \in Processors : r # p => InHand(r)' = InHand(r)
    BY <1>4, <1>5, HandMoves DEF p
<1>7. \A r \in Processors : InQueue(r)' = InQueue(r)
    BY <1>1, SeenNow DEF InQueue
<1>8. BufferSteps
    <2>1. \A r \in Processors : r # p => SameSeen(r)
        BY <1>6, <1>7 DEF SameSeen
    <2>2. /\ \/ done' = [done EXCEPT ![p] = @ \cup Held(w)] /\ UNCHANGED dropped
             \/ dropped' = [dropped EXCEPT ![p] = @ \cup Held(w)] /\ UNCHANGED done
          /\ Held(w) \subseteq InHand(p) /\ p \in Processors
        BY <1>0, <1>2, <1>3, <1>5 DEF p
    <2> QED
        BY <1>3, <1>6, <1>7, <2>1, <2>2, SeenLeave DEF BufferSteps
<1>9. ASSUME NEW r \in Processors PROVE Distinct(queue'[r]) /\ Located(r)'
    <2>1. /\ Elems(accepted[r]) = InQueue(r) \cup InHand(r) \cup done[r] \cup dropped[r]
          /\ InQueue(r) \cap (InHand(r) \cup done[r] \cup dropped[r]) = {}
          /\ InHand(r) \cap (done[r] \cup dropped[r]) = {}
          /\ done[r] \cap dropped[r] = {}
        BY DEF PlacesInv, Located
    <2>2. Elems(accepted[r])' = Elems(accepted[r])
        BY <1>1 DEF Elems
    <2>3. CASE r = p
        <3>1. \/ done'[r] = done[r] \cup Held(w) /\ dropped'[r] = dropped[r]
              \/ dropped'[r] = dropped[r] \cup Held(w) /\ done'[r] = done[r]
            BY <1>0, <1>2, <1>3, <2>3
        <3>2. InHand(r)' = InHand(r) \ Held(w) /\ Held(w) \subseteq InHand(r)
            BY <1>5, <1>6, <2>3
        <3>3. Located(r)'
            BY <1>7, <2>1, <2>2, <3>1, <3>2 DEF Located
        <3> QED
            BY <1>1, <3>3 DEF PlacesInv
    <2>4. CASE r # p
        <3>1. done'[r] = done[r] /\ dropped'[r] = dropped[r]
            BY <1>0, <1>2, <2>4
        <3>2. Located(r)'
            BY <1>6, <1>7, <2>1, <2>2, <2>4, <3>1 DEF Located
        <3> QED
            BY <1>1, <3>2 DEF PlacesInv
    <2> QED
        BY <2>3, <2>4
<1>10. \A v \in Workers : Distinct(tasks'[v])
    BY <1>1, <1>2, ElemsEmpty DEF PlacesInv
<1>11. \A r \in Processors : done[r] \subseteq done'[r]
    BY <1>0, <1>2
<1>12. ASSUME NEW v \in Workers, wpc'[v] = "fan"
       PROVE  Held(v)' \subseteq done'[Home[v]] /\ NewAhead(v)'
    <2>1. CASE v # w
        <3>1. /\ wpc[v] = "fan" /\ Held(v)' = Held(v) /\ Home[v] \in Processors
              /\ NewAhead(v)' <=> NewAhead(v)
            BY <1>1, <1>4, <1>12, <2>1, HomeAssumption, SeenNow
            DEF NewAhead, NextProcessors, Held
        <3> QED
            BY <1>11, <3>1 DEF PlacesInv
    <2>2. CASE v = w
        <3>1. done'[p] = done[p] \cup Held(w) /\ tasks'[w] = tasks[w]
            BY <1>0, <1>2, <1>3, <1>12, <2>2
        <3>2. Held(w) \cap done[p] = {}
            <4>1. Located(p)
                BY <1>0 DEF PlacesInv
            <4> QED
                BY <1>5, <4>1 DEF Located
        <3>3. \A i \in DOMAIN NextOf[p] : Elems(accepted[NextOf[p][i]]) \subseteq done[p]
            BY <1>0 DEF PlacesInv
        <3>4. NewAhead(w)'
            BY <1>1, <1>3, <3>1, <3>2, <3>3, SeenNow DEF p
        <3> QED
            BY <1>3, <2>2, <3>1, <3>4, SeenNow DEF p
    <2> QED
        BY <2>1, <2>2
<1>13. \A u, v \in Workers : u # v /\ Home[u] = Home[v] => Held(u)' \cap Held(v)' = {}
    BY <1>4 DEF PlacesInv
<1>14. \A r \in Processors : \A i \in DOMAIN NextOf[r] :
            Elems(accepted'[NextOf[r][i]]) \subseteq done'[r]
    BY <1>1, <1>11 DEF PlacesInv
<1> QED
    BY <1>8, <1>9, <1>10, <1>12, <1>13, <1>14, PlacesNow

LEMMA PlacesKeep ==
    ASSUME NoRepeats, Tree, TypeInv, QueueBounded, QueueBounded', HandsInv, PlacesInv,
           [Next]_vars
    PROVE  PlacesInv' /\ BufferSteps
<1>0. wpc \in [Workers -> WorkerStates] /\ tasks \in [Workers -> Seq(Tasks)]
    BY DEF TypeInv, TypeOK, WorkerTypes
<1>1. ASSUME UNCHANGED <<queue, accepted, done, dropped>>,
             \A v \in Workers : Holds(v)' = Holds(v),
             \A v \in Workers :
                \/ /\ tasks'[v] = tasks[v] /\ fan'[v] = fan[v]
                   /\ wpc'[v] = "fan" => wpc[v] = "fan"
                \/ tasks'[v] = <<>> /\ wpc'[v] # "fan"
      PROVE  PlacesInv' /\ BufferSteps
    BY <1>1, PlacesQuiet DEF BufferSteps
<1>2. ASSUME UNCHANGED <<queue, accepted, done, dropped, tasks, fan>>,
             \A v \in Workers : wpc'[v] = wpc[v] \/ (tasks[v] = <<>> /\ wpc'[v] # "fan")
      PROVE  PlacesInv' /\ BufferSteps
    <2>1. \A v \in Workers : Holds(v)' = Holds(v)
        BY <1>2, SeenNow, ElemsEmpty DEF Holds
    <2> QED
        BY <1>1, <1>2, <2>1
<1>3. ASSUME NEW w \in Workers, WorkerStep(w)
      PROVE  PlacesInv' /\ BufferSteps
    <2>1. CASE Start(w) \/ Take(w)
        <3>1. /\ UNCHANGED <<queue, accepted, done, dropped, tasks, fan>>
              /\ wpc[w] \in {"ready", "wait"} /\ wpc'[w] # "fan"
              /\ \A v \in Workers : v # w => wpc'[v] = wpc[v]
            BY <1>0, <2>1 DEF Start, Take, queueVars, history
        <3> QED
            BY <1>2, <3>1 DEF HandsInv
    <2>2. CASE TimeOut(w) \/ PopEmpty(w)
        <3>1. /\ UNCHANGED <<queue, accepted, done, dropped, tasks, fan>>
              /\ wpc[w] \in {"pop", "wait"} /\ wpc'[w] # "fan"
              /\ \A v \in Workers : v # w => wpc'[v] = wpc[v]
            BY <1>0, <2>2 DEF TimeOut, PopEmpty, PopReturn, queueVars, history
        <3> QED
            BY <1>2, <3>1 DEF HandsInv
    <2>3. CASE PopBatch(w) \/ PopRest(w)
        BY <2>3, PlacesPop
    <2>4. CASE Handle(w) \/ Quit(w)
        BY <2>4, PlacesLeave
    <2>5. CASE Ignore(w)
        <3>1. /\ UNCHANGED <<queue, accepted, done, dropped, tasks, fan>>
              /\ wpc[w] = "check" /\ result[w] # "SUCCESS" /\ wpc'[w] # "fan"
              /\ \A v \in Workers : v # w => wpc'[v] = wpc[v]
            BY <1>0, <2>5 DEF Ignore, queueVars, history
        <3> QED
            BY <1>2, <3>1 DEF HandsInv
    <2>6. CASE FanOut(w)
        BY <2>6, PlacesFan
    <2>7. CASE FanEnd(w)
        <3>1. /\ UNCHANGED <<queue, accepted, done, dropped, fan>>
              /\ wpc[w] = "fan" /\ wpc'[w] = "wait" /\ tasks'[w] = <<>>
              /\ \A v \in Workers : v # w => wpc'[v] = wpc[v] /\ tasks'[v] = tasks[v]
            BY <1>0, <2>7 DEF FanEnd, queueVars, history
        <3>2. \A v \in Workers : Holds(v)' = Holds(v)
            BY <3>1, SeenNow DEF Holds
        <3> QED
            BY <1>1, <3>1, <3>2
    <2> QED
        BY <1>3, <2>1, <2>2, <2>3, <2>4, <2>5, <2>6, <2>7 DEF WorkerStep, PopStep
<1>4. ASSUME NEW o \in Owners, OwnerCall(o) \/ OwnerStep(o)
      PROVE  PlacesInv' /\ BufferSteps
    <2>1. /\ UNCHANGED <<queueVars, history, tasks, result, fan>>
          /\ \A v \in Workers :
                wpc'[v] = wpc[v] \/ (wpc[v] = "none" /\ wpc'[v] = "ready")
        BY <1>4, OwnerLeaves
    <2> QED
        BY <1>2, <2>1 DEF HandsInv, queueVars, history
<1>5. ASSUME UNCHANGED <<queueVars, workerVars, history>>
      PROVE  PlacesInv' /\ BufferSteps
    BY <1>2, <1>5 DEF queueVars, workerVars, history
<1>6. ASSUME NEW p \in Entries, NEW ts \in Lists, Push(p, ts)
      PROVE  PlacesInv' /\ BufferSteps
    BY <1>6, PlacesEntry
<1> QED
    BY <1>3, <1>4, <1>5, <1>6 DEF Next, Terminated, Free, vars

-----------------------------------------------------------------------------
\* What holds of the tasks without any assumption on the graph.
TasksInv == IInv /\ HandsInv /\ HandedOn /\ OrderInv

LEMMA TasksInit == Init => TasksInv /\ PlacesInv
<1> SUFFICES ASSUME Init PROVE TasksInv /\ PlacesInv
    OBVIOUS
<1>1. /\ \A p \in Processors : /\ queue[p] = <<>> /\ accepted[p] = <<>> /\ ~ordered[p]
                               /\ done[p] = {} /\ dropped[p] = {}
      /\ \A w \in Workers : wpc[w] = "none" /\ tasks[w] = <<>>
    BY DEF Init
<1>2. DOMAIN <<>> = {}
    OBVIOUS
<1>3. HandsInv /\ HandedOn
    BY <1>1 DEF HandsInv, HandedOn
<1>4. OrderInv
    BY <1>1, <1>2, ElemsEmpty DEF OrderInv, OrderGood
<1>5. \A w \in Workers : Held(w) = {} /\ Holds(w) = {} /\ Distinct(tasks[w])
    BY <1>1, ElemsEmpty DEF Held, Holds
<1>6. \A p \in Processors : InHand(p) = {} /\ InQueue(p) = {} /\ Elems(accepted[p]) = {}
    BY <1>1, <1>5, ElemsEmpty DEF InHand, InQueue
<1>7. \A p \in Processors : Distinct(queue[p]) /\ Located(p)
    BY <1>1, <1>6, ElemsEmpty DEF Located
<1>8. \A p \in Processors : \A i \in DOMAIN NextOf[p] :
            Elems(accepted[NextOf[p][i]]) \subseteq done[p]
    <2>1. \A p \in Processors : \A i \in DOMAIN NextOf[p] : NextOf[p][i] \in Processors
        BY NextAssumption
    <2> QED
        BY <1>6, <2>1
<1>9. PlacesInv
    BY <1>1, <1>5, <1>7, <1>8 DEF PlacesInv
<1> QED
    BY <1>3, <1>4, <1>9, InitHolds DEF TasksInv

LEMMA TasksKeep == TasksInv /\ [Next]_vars => TasksInv'
<1> SUFFICES ASSUME TasksInv, [Next]_vars PROVE TasksInv'
    OBVIOUS
<1>1. IInv'
    BY StepKeeps DEF TasksInv
<1>2. TypeInv /\ TypeInv' /\ QueueBounded
    BY <1>1 DEF TasksInv, IInv
<1> QED
    BY <1>1, <1>2, HandsKeep, HandedKeeps, OrderKeeps DEF TasksInv

\* A task a worker has handled and handed on was taken or refused by every next
\* processor, though one that is full is skipped, whatever the graph.
THEOREM HandedOnTheorem == Spec => []HandedOn
<1>1. TasksInv => HandedOn
    BY DEF TasksInv
<1> QED
    BY <1>1, TasksInit, TasksKeep, PTL DEF Spec

\* What pop_task() takes goes before all it leaves, by operator< and then by
\* arrival, for any batch_size_, though queue_ordered_flag_ skips the sort.
THEOREM PopsInOrderTheorem == Spec => PopsInOrder
<1> DEFINE InOrder ==
        \A w \in Workers : wpc[w] = "pop" /\ wpc'[w] = "check" =>
            \A a \in Elems(tasks'[w]), b \in Elems(queue'[Home[w]]) :
                \/ Prio[a] < Prio[b]
                \/ Prio[a] = Prio[b] /\ Before(Home[w], a, b)
<1>1. TasksInv /\ [Next]_vars => [InOrder]_vars
    BY OrderHolds DEF TasksInv, IInv
<1>2. Spec => [][InOrder]_vars
    BY <1>1, TasksInit, TasksKeep, PTL DEF Spec
<1> QED
    BY <1>2, PTL DEF PopsInOrder

LEMMA PlacesAlways ==
    ASSUME NoRepeats, Tree
    PROVE  Spec => [](TasksInv /\ PlacesInv)
<1>1. TasksInv /\ PlacesInv /\ [Next]_vars => TasksInv' /\ PlacesInv'
    <2> SUFFICES ASSUME TasksInv, PlacesInv, [Next]_vars PROVE TasksInv' /\ PlacesInv'
        OBVIOUS
    <2>1. TasksInv'
        BY TasksKeep
    <2>2. TypeInv /\ QueueBounded /\ QueueBounded' /\ HandsInv
        BY <2>1 DEF TasksInv, IInv
    <2> QED
        BY <2>1, <2>2, PlacesKeep
<1> QED
    BY <1>1, TasksInit, PTL DEF Spec

\* Where each processor is fed by one other or by callers, and no list is pushed
\* with a task in it twice, every task push_task() answered SUCCESS for is in
\* exactly one place.
THEOREM AccountedTheorem ==
    ASSUME NoRepeats, Tree
    PROVE  Spec => []Accounted
<1>1. TasksInv /\ PlacesInv => Accounted
    <2> SUFFICES ASSUME TasksInv, PlacesInv, NEW p \in Processors
                 PROVE  /\ Located(p)
                        /\ Cardinality(InQueue(p)) = Len(queue[p])
                        /\ \A v, w \in Workers :
                            Home[v] = p /\ Home[w] = p /\ v # w =>
                                Holds(v) \cap Holds(w) = {}
        BY DEF Accounted, Located
    <2>1. Located(p) /\ Distinct(queue[p]) /\ queue[p] \in Seq(Tasks)
        BY DEF PlacesInv, TasksInv, IInv, TypeInv, TypeOK, QueueTypes
    <2>2. \A w \in Workers : Holds(w) \subseteq Held(w)
        BY DEF Holds, Held
    <2>3. Cardinality(InQueue(p)) = Len(queue[p])
        BY <2>1, DistinctSize DEF InQueue
    <2> QED
        BY <2>1, <2>2, <2>3 DEF PlacesInv
<1> QED
    BY <1>1, PlacesAlways, PTL

\* On such a graph every processor is the bounded buffer TaskBuffer: the steps
\* of the threads on list, counters, flags and semaphore are its steps or none.
THEOREM BufferKeptTheorem ==
    ASSUME NoRepeats, Tree
    PROVE  Spec => BufferKept
<1>1. Init => Buffer!Init
    <2> SUFFICES ASSUME Init PROVE Buffer!Init
        OBVIOUS
    <2>1. \A p \in Processors : queue[p] = <<>>
        BY DEF Init
    <2>2. \A w \in Workers : Holds(w) = {}
        BY DEF Init, Holds
    <2>3. \A p \in Processors : InQueue(p) = {} /\ InHand(p) = {}
        BY <2>1, <2>2, ElemsEmpty DEF InQueue, InHand
    <2> QED
        BY <2>3 DEF Init, Buffer!Init
<1>2. TasksInv /\ TasksInv' /\ PlacesInv /\ [Next]_vars => [Buffer!Next]_(Buffer!vars)
    BY PlacesKeep DEF TasksInv, IInv, BufferSteps
<1> QED
    BY <1>1, <1>2, PlacesAlways, PTL DEF Spec, BufferKept, Buffer!Spec
=============================================================================
