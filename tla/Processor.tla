------------------------------ MODULE Processor ------------------------------
(***************************************************************************)
(* zfz::Processor<T> (include/zfz/zfz_processor.hpp): a bounded task queue *)
(* served by a list of worker threads, which hand every task on to the     *)
(* queues of the next processors.  The module models a whole graph of      *)
(* processors at once, because workers of one push into the others.        *)
(*                                                                         *)
(* queue_lock_ is never held across a blocking call, so each stretch under *)
(* it is one action.  thread_lock_ is held by begin_thread() while it      *)
(* waits for the new thread, so it is a variable.  task_semphore_ and      *)
(* thread_create_event_ are used at the level that CountingSemaphore and   *)
(* SignalFlag promise (see Semphore and Event): wait() with a positive     *)
(* time-out takes a signal, or reports a time-out when there is none.      *)
(*                                                                         *)
(* wpc[w] says where worker w is in thread_funciton():                     *)
(*    "none"   the thread does not exist                                   *)
(*    "ready"  created, has not announced itself                           *)
(*    "wait"   in task_semphore_.wait() of pop_task()                      *)
(*    "pop"    past the semaphore, has not taken queue_lock_ yet           *)
(*    "check"  back from pop_task(), about to look at its quit flag        *)
(*    "fan"    has handled its tasks and is in fan_out()                   *)
(*    "gone"   the thread function has returned                            *)
(***************************************************************************)
EXTENDS Integers, Sequences, FiniteSets

CONSTANTS
    Processors,     \* the processor objects
    NextOf,         \* NextOf[p]: next_processors_ of p, in order
    Entries,        \* the processors that callers push into
    Tasks,          \* the tasks (shared pointers: two copies are one task)
    Prio,           \* Prio[t]: what operator< compares; constant without one
    Lists,          \* the task lists callers push
    Workers,        \* the worker threads, each created at most once
    Home,           \* Home[w]: the processor whose thread w is
    Owners,         \* the threads that begin and end workers
    Counts,         \* the counts passed to begin_thread() and end_thread()
    SyncModes,      \* the values of sync passed to end_thread()
    MaxQueueSize,   \* max_queue_size_
    MaxThreadSize,  \* max_thread_size_
    BatchSize,      \* batch_size_
    Nobody          \* thread_lock_ is free; an owner has called nothing yet

ASSUME NextAssumption == NextOf \in [Processors -> Seq(Processors)]
ASSUME PrioAssumption == Prio \in [Tasks -> Nat]
ASSUME ListsAssumption == Lists \subseteq Seq(Tasks) \ {<<>>}
ASSUME WorkersAssumption == IsFiniteSet(Workers)
ASSUME HomeAssumption == Home \in [Workers -> Processors]
ASSUME CountsAssumption == Counts \subseteq Nat \ {0}
ASSUME SyncAssumption == SyncModes \subseteq BOOLEAN
ASSUME MaxQueueSizeAssumption == MaxQueueSize \in Nat
ASSUME BatchSizeAssumption == BatchSize \in Int
ASSUME OwnersAssumption == Entries \subseteq Processors /\ Nobody \notin Owners

VARIABLES
    (* Processor<T> *)
    queue,          \* task_queue_
    size,           \* current_queue_size_
    full,           \* queue_full_flag_
    ordered,        \* queue_ordered_flag_
    signals,        \* the signals of task_semphore_
    threads,        \* thread_list_
    lock,           \* the holder of thread_lock_
    created,        \* thread_create_event_
    destroyed,      \* "no", "closing" (in the destructor) or "yes"
    (* the worker threads *)
    wpc,            \* where each is
    quit,           \* quit_flag_ of its ThreadWrapper
    tasks, result,  \* the locals of thread_funciton()
    fan,            \* position of fan_out() in next_processors_
    (* the threads that begin and end workers *)
    opc, call,
    (* history, read by no action *)
    accepted,       \* accepted[p]: the tasks push_task() took, in order
    refused,        \* refused[p]: the tasks it answered QUEUE_FULL for
    done,           \* done[p]: the tasks handle_task() was given
    dropped         \* dropped[p]: the tasks a quitting worker had popped

queueVars == <<queue, size, full, ordered, signals>>
threadVars == <<threads, lock, created, destroyed>>
workerVars == <<wpc, quit, tasks, result, fan>>
ownerVars == <<opc, call>>
history == <<accepted, refused, done, dropped>>
vars == <<queueVars, threadVars, workerVars, ownerVars, history>>

Elems(s) == {s[i] : i \in DOMAIN s}

WorkerStates == {"none", "ready", "wait", "pop", "check", "fan", "gone"}
Results == {"NONE", "SUCCESS", "TIME_OUT", "QUEUE_EMPTY"}
OwnerStates == {"idle", "begin", "await", "end", "signal", "join"}
Calls == [proc : Processors \cup {Nobody}, left : Nat, sync : BOOLEAN,
          targets : Seq(Workers)]

QueueTypes ==
    /\ queue \in [Processors -> Seq(Tasks)]
    /\ size \in [Processors -> Nat]
    /\ full \in [Processors -> BOOLEAN]
    /\ ordered \in [Processors -> BOOLEAN]
    /\ signals \in [Processors -> Nat]

ThreadTypes ==
    /\ threads \in [Processors -> Seq(Workers)]
    /\ lock \in [Processors -> Owners \cup {Nobody}]
    /\ created \in [Processors -> BOOLEAN]
    /\ destroyed \in [Processors -> {"no", "closing", "yes"}]

WorkerTypes ==
    /\ wpc \in [Workers -> WorkerStates]
    /\ quit \in [Workers -> BOOLEAN]
    /\ tasks \in [Workers -> Seq(Tasks)]
    /\ result \in [Workers -> Results]
    /\ fan \in [Workers -> Nat]

OwnerTypes ==
    /\ opc \in [Owners -> OwnerStates]
    /\ call \in [Owners -> Calls]

HistoryTypes ==
    /\ accepted \in [Processors -> Seq(Tasks)]
    /\ refused \in [Processors -> SUBSET Tasks]
    /\ done \in [Processors -> SUBSET Tasks]
    /\ dropped \in [Processors -> SUBSET Tasks]

TypeOK == QueueTypes /\ ThreadTypes /\ WorkerTypes /\ OwnerTypes /\ HistoryTypes

Init ==
    /\ queue = [p \in Processors |-> <<>>]
    /\ size = [p \in Processors |-> 0]
    /\ full = [p \in Processors |-> FALSE]
    /\ ordered = [p \in Processors |-> FALSE]
    /\ signals = [p \in Processors |-> 0]
    /\ threads = [p \in Processors |-> <<>>]
    /\ lock = [p \in Processors |-> Nobody]
    /\ created = [p \in Processors |-> FALSE]
    /\ destroyed = [p \in Processors |-> "no"]
    /\ wpc = [w \in Workers |-> "none"]
    /\ quit = [w \in Workers |-> FALSE]
    /\ tasks = [w \in Workers |-> <<>>]
    /\ result = [w \in Workers |-> "NONE"]
    /\ fan = [w \in Workers |-> 0]
    /\ opc = [o \in Owners |-> "idle"]
    /\ call = [o \in Owners |->
                [proc |-> Nobody, left |-> 0, sync |-> TRUE, targets |-> <<>>]]
    /\ accepted = [p \in Processors |-> <<>>]
    /\ refused = [p \in Processors |-> {}]
    /\ done = [p \in Processors |-> {}]
    /\ dropped = [p \in Processors |-> {}]

-----------------------------------------------------------------------------
(* push_task() *)

Fits_OneTooMany(p, ts) == size[p] < MaxQueueSize

Fits(p, ts) == size[p] + Len(ts) <= MaxQueueSize

\* task_semphore_.signal(task_size)
Posted(ts) == Len(ts)

Unsorts_Never(p) == ordered

\* queue_ordered_flag_ = 0
Unsorts(p) == [ordered EXCEPT ![p] = FALSE]

PushAccept(p, ts) ==
    /\ Fits(p, ts)
    /\ queue' = [queue EXCEPT ![p] = @ \o ts]
    /\ size' = [size EXCEPT ![p] = @ + Len(ts)]
    /\ signals' = [signals EXCEPT ![p] = @ + Posted(ts)]
    /\ ordered' = Unsorts(p)
    /\ accepted' = [accepted EXCEPT ![p] = @ \o ts]
    /\ UNCHANGED <<full, refused>>

\* QUEUE_FULL: all of the list is taken or nothing is.
PushRefuse(p, ts) ==
    /\ ~Fits(p, ts)
    /\ full' = [full EXCEPT ![p] = TRUE]
    /\ refused' = [refused EXCEPT ![p] = @ \cup Elems(ts)]
    /\ UNCHANGED <<queue, size, ordered, signals, accepted>>

PushTo(p, ts) == PushAccept(p, ts) \/ PushRefuse(p, ts)

\* A caller pushes tasks it has not pushed with success before.
Push(p, ts) ==
    /\ destroyed[p] = "no"
    /\ Elems(ts) \cap Elems(accepted[p]) = {}
    /\ PushTo(p, ts)
    /\ UNCHANGED <<threadVars, workerVars, ownerVars, done, dropped>>

-----------------------------------------------------------------------------
(* pop_task() *)

Take(w) ==
    /\ wpc[w] = "wait"
    /\ signals[Home[w]] > 0
    /\ signals' = [signals EXCEPT ![Home[w]] = @ - 1]
    /\ wpc' = [wpc EXCEPT ![w] = "pop"]
    /\ UNCHANGED <<queue, size, full, ordered, threadVars, ownerVars, history>>
    /\ UNCHANGED <<quit, tasks, result, fan>>

\* pop_task() returns r to thread_funciton().
PopReturn(w, r) ==
    /\ wpc' = [wpc EXCEPT ![w] = "check"]
    /\ result' = [result EXCEPT ![w] = r]
    /\ UNCHANGED <<quit, fan, threadVars, ownerVars, history>>

TimeOut(w) ==
    /\ wpc[w] = "wait"
    /\ signals[Home[w]] = 0
    /\ PopReturn(w, "TIME_OUT")
    /\ UNCHANGED <<queueVars, tasks>>

PopEmpty(w) ==
    /\ wpc[w] = "pop"
    /\ size[Home[w]] <= 0
    /\ full' = [full EXCEPT ![Home[w]] = FALSE]
    /\ PopReturn(w, "QUEUE_EMPTY")
    /\ UNCHANGED <<queue, size, ordered, signals, tasks>>

Precedes(s, i, j) ==
    \/ Prio[s[i]] < Prio[s[j]]
    \/ Prio[s[i]] = Prio[s[j]] /\ i < j

\* std::list::sort() with compare_t() is stable: the one rearrangement of s that
\* puts i before j whenever operator< does, or s does and operator< does not care.
StableSorts(s) ==
    {[i \in DOMAIN s |-> s[f[i]]] :
        f \in {g \in [DOMAIN s -> DOMAIN s] :
                \A i, j \in DOMAIN s : i < j => Precedes(s, g[i], g[j])}}

SortedQueue(p) == IF ordered[p] THEN {queue[p]} ELSE StableSorts(queue[p])

Lowered_ByBatch(n, k) == IF n < k + 1 THEN 0 ELSE n - k - 1

Lowered_NoClamp(n, k) == n - k

\* task_semphore_.release(k)
Lowered(n, k) == IF n < k THEN 0 ELSE n - k

Rest_OneTooMany(q) == SubSeq(q, BatchSize, Len(q))

\* What a full batch leaves.
Rest(q) == SubSeq(q, BatchSize + 1, Len(q))

\* The queue holds a full batch: take it, and the signals of the tasks but one.
PopBatch(w) == LET p == Home[w] IN
    /\ wpc[w] = "pop"
    /\ BatchSize > 0
    /\ size[p] > 0
    /\ size[p] >= BatchSize
    /\ \E q \in SortedQueue(p) :
        /\ tasks' = [tasks EXCEPT ![w] = SubSeq(q, 1, BatchSize)]
        /\ queue' = [queue EXCEPT ![p] = Rest(q)]
    /\ size' = [size EXCEPT ![p] = @ - BatchSize]
    /\ signals' = [signals EXCEPT ![p] = Lowered(@, BatchSize - 1)]
    /\ full' = [full EXCEPT ![p] = FALSE]
    /\ ordered' = [ordered EXCEPT ![p] = TRUE]
    /\ PopReturn(w, "SUCCESS")

\* It holds less (or batch_size_ sets no limit): take all.  poped_count is read
\* from current_queue_size_ after that was zeroed, so no signal is released.
PopRest(w) == LET p == Home[w] IN
    /\ wpc[w] = "pop"
    /\ size[p] > 0
    /\ ~(BatchSize > 0 /\ size[p] >= BatchSize)
    /\ \E q \in SortedQueue(p) : tasks' = [tasks EXCEPT ![w] = q]
    /\ queue' = [queue EXCEPT ![p] = <<>>]
    /\ size' = [size EXCEPT ![p] = 0]
    /\ full' = [full EXCEPT ![p] = FALSE]
    /\ ordered' = [ordered EXCEPT ![p] = TRUE]
    /\ PopReturn(w, "SUCCESS")
    /\ UNCHANGED signals

-----------------------------------------------------------------------------
(* thread_funciton() and fan_out() *)

Start(w) ==
    /\ wpc[w] = "ready"
    /\ created' = [created EXCEPT ![Home[w]] = TRUE]
    /\ wpc' = [wpc EXCEPT ![w] = "wait"]
    /\ UNCHANGED <<queueVars, threads, lock, destroyed, ownerVars, history>>
    /\ UNCHANGED <<quit, tasks, result, fan>>

\* The flag is looked at before the result: whatever was popped is lost.
Quit(w) ==
    /\ wpc[w] = "check"
    /\ quit[w]
    /\ wpc' = [wpc EXCEPT ![w] = "gone"]
    /\ tasks' = [tasks EXCEPT ![w] = <<>>]
    /\ dropped' = [dropped EXCEPT ![Home[w]] = @ \cup Elems(tasks[w])]
    /\ UNCHANGED <<queueVars, threadVars, ownerVars, quit, result, fan>>
    /\ UNCHANGED <<accepted, refused, done>>

Handle(w) ==
    /\ wpc[w] = "check"
    /\ ~quit[w]
    /\ result[w] = "SUCCESS"
    /\ done' = [done EXCEPT ![Home[w]] = @ \cup Elems(tasks[w])]
    /\ fan' = [fan EXCEPT ![w] = 1]
    /\ wpc' = [wpc EXCEPT ![w] = "fan"]
    /\ UNCHANGED <<queueVars, threadVars, ownerVars, quit, tasks, result>>
    /\ UNCHANGED <<accepted, refused, dropped>>

Ignore_Ends(w) ==
    /\ wpc[w] = "check"
    /\ ~quit[w]
    /\ result[w] # "SUCCESS"
    /\ wpc' = [wpc EXCEPT ![w] = "gone"]
    /\ UNCHANGED <<queueVars, threadVars, ownerVars, history>>
    /\ UNCHANGED <<quit, tasks, result, fan>>

Ignore_Unchecked(w) ==
    /\ wpc[w] = "check"
    /\ result[w] # "SUCCESS"
    /\ wpc' = [wpc EXCEPT ![w] = "wait"]
    /\ UNCHANGED <<queueVars, threadVars, ownerVars, history>>
    /\ UNCHANGED <<quit, tasks, result, fan>>

\* TIME_OUT and QUEUE_EMPTY: go round again.
Ignore(w) ==
    /\ wpc[w] = "check"
    /\ ~quit[w]
    /\ result[w] # "SUCCESS"
    /\ wpc' = [wpc EXCEPT ![w] = "wait"]
    /\ UNCHANGED <<queueVars, threadVars, ownerVars, history>>
    /\ UNCHANGED <<quit, tasks, result, fan>>

NextProcessors(w) == NextOf[Home[w]]

\* handle_fan_out_error() answers SUCCESS, so a full processor is skipped.
FanNext_StopsAtFull(w) ==
    fan' = [fan EXCEPT ![w] = IF Fits(NextProcessors(w)[@], tasks[w])
                              THEN @ + 1 ELSE Len(NextProcessors(w)) + 1]

FanNext(w) == fan' = [fan EXCEPT ![w] = @ + 1]

FanOut(w) ==
    /\ wpc[w] = "fan"
    /\ fan[w] \in DOMAIN NextProcessors(w)
    /\ PushTo(NextProcessors(w)[fan[w]], tasks[w])
    /\ FanNext(w)
    /\ UNCHANGED <<threadVars, ownerVars, wpc, quit, tasks, result>>
    /\ UNCHANGED <<done, dropped>>

FanEnd(w) ==
    /\ wpc[w] = "fan"
    /\ fan[w] \notin DOMAIN NextProcessors(w)
    /\ tasks' = [tasks EXCEPT ![w] = <<>>]
    /\ wpc' = [wpc EXCEPT ![w] = "wait"]
    /\ UNCHANGED <<queueVars, threadVars, ownerVars, history>>
    /\ UNCHANGED <<quit, result, fan>>

-----------------------------------------------------------------------------
(* begin_thread() *)

\* The call takes thread_lock_ and keeps it until it returns.
BeginThread(o, p, n) ==
    /\ opc[o] = "idle"
    /\ destroyed[p] = "no"
    /\ lock[p] = Nobody
    /\ lock' = [lock EXCEPT ![p] = o]
    /\ call' = [call EXCEPT ![o].proc = p, ![o].left = n]
    /\ opc' = [opc EXCEPT ![o] = "begin"]
    /\ UNCHANGED <<queueVars, threads, created, destroyed, workerVars, history>>

ResetsCreated_Never(p) == created

\* thread_create_event_.reset()
ResetsCreated(p) == [created EXCEPT ![p] = FALSE]

\* One round of the loop, up to the wait for thread_create_event_.  The spin
\* on inited_flag_ ends with this step.
Create(o) == LET p == call[o].proc IN
    /\ opc[o] = "begin"
    /\ call[o].left > 0
    /\ Len(threads[p]) < MaxThreadSize
    /\ created' = ResetsCreated(p)
    /\ \E w \in Workers :
        /\ wpc[w] = "none"
        /\ Home[w] = p
        /\ wpc' = [wpc EXCEPT ![w] = "ready"]
        /\ call' = [call EXCEPT ![o].targets = <<w>>]
    /\ opc' = [opc EXCEPT ![o] = "await"]
    /\ UNCHANGED <<queueVars, threads, lock, destroyed, history>>
    /\ UNCHANGED <<quit, tasks, result, fan>>

Created(o) == LET p == call[o].proc IN
    /\ opc[o] = "await"
    /\ created[p]
    /\ threads' = [threads EXCEPT ![p] = @ \o call[o].targets]
    /\ call' = [call EXCEPT ![o].targets = <<>>, ![o].left = @ - 1]
    /\ opc' = [opc EXCEPT ![o] = "begin"]
    /\ UNCHANGED <<queueVars, lock, created, destroyed, workerVars, history>>

\* The guard of thread_lock_ goes out of scope.
BeginDone(o) ==
    /\ lock' = [lock EXCEPT ![call[o].proc] = Nobody]
    /\ opc' = [opc EXCEPT ![o] = "idle"]
    /\ UNCHANGED <<queueVars, threads, destroyed, workerVars, call, history>>

BeginReturn(o) ==
    /\ opc[o] = "begin"
    /\ call[o].left = 0 \/ Len(threads[call[o].proc]) >= MaxThreadSize
    /\ BeginDone(o)
    /\ UNCHANGED created

\* std::thread threw: the workers created so far stay.
CreateFails(o) ==
    /\ opc[o] = "begin"
    /\ call[o].left > 0
    /\ Len(threads[call[o].proc]) < MaxThreadSize
    /\ created' = ResetsCreated(call[o].proc)
    /\ BeginDone(o)

-----------------------------------------------------------------------------
(* end_thread(), end_all_threads() and the destructor *)

\* The wrappers in ws leave the list; o goes on to stop them, and n more.
TakeThreads(o, p, n, ws, rest, sync) ==
    /\ lock[p] = Nobody
    /\ threads' = [threads EXCEPT ![p] = rest]
    /\ call' = [call EXCEPT ![o] =
                [proc |-> p, left |-> n, sync |-> sync, targets |-> ws]]
    /\ opc' = [opc EXCEPT ![o] = "signal"]

\* end_thread(n, sync) on a list with a thread in it, up to the unlock.
EndThread(o, p, n, sync) ==
    /\ opc[o] = "idle"
    /\ destroyed[p] = "no"
    /\ threads[p] # <<>>
    /\ TakeThreads(o, p, n - 1, <<Head(threads[p])>>, Tail(threads[p]), sync)
    /\ UNCHANGED <<queueVars, lock, created, destroyed, workerVars, history>>

\* The next round of its loop.
EndMore(o) == LET p == call[o].proc IN
    /\ opc[o] = "end"
    /\ threads[p] # <<>>
    /\ TakeThreads(o, p, call[o].left - 1,
                   <<Head(threads[p])>>, Tail(threads[p]), call[o].sync)
    /\ UNCHANGED <<queueVars, lock, created, destroyed, workerVars, history>>

EndNoMore(o) == LET p == call[o].proc IN
    /\ opc[o] = "end"
    /\ lock[p] = Nobody
    /\ threads[p] = <<>>
    /\ opc' = [opc EXCEPT ![o] = "idle"]
    /\ UNCHANGED <<queueVars, threadVars, workerVars, call, history>>

EndAllThreads(o, p, sync) ==
    /\ opc[o] = "idle"
    /\ destroyed[p] = "no"
    /\ threads[p] # <<>>
    /\ TakeThreads(o, p, 0, threads[p], <<>>, sync)
    /\ UNCHANGED <<queueVars, lock, created, destroyed, workerVars, history>>

\* Where an owner goes with the wrappers ts and the count n left.
AfterOne(o, ts) ==
    /\ call' = [call EXCEPT ![o].targets = ts]
    /\ opc' = [opc EXCEPT ![o] = IF ts # <<>> THEN "signal"
                                 ELSE IF call[o].left > 0 THEN "end"
                                 ELSE "idle"]

\* end_one_thread(): set_quit_flag(), then join() or detach().
SignalQuit(o) == LET w == Head(call[o].targets) IN
    /\ opc[o] = "signal"
    /\ quit' = [quit EXCEPT ![w] = TRUE]
    /\ IF call[o].sync
       THEN opc' = [opc EXCEPT ![o] = "join"] /\ UNCHANGED call
       ELSE AfterOne(o, Tail(call[o].targets))
    /\ UNCHANGED <<queueVars, threadVars, wpc, tasks, result, fan, history>>

Join_Detaches(o) ==
    /\ opc[o] = "join"
    /\ AfterOne(o, Tail(call[o].targets))
    /\ UNCHANGED <<queueVars, threadVars, workerVars, history>>

Join(o) ==
    /\ opc[o] = "join"
    /\ wpc[Head(call[o].targets)] = "gone"
    /\ AfterOne(o, Tail(call[o].targets))
    /\ UNCHANGED <<queueVars, threadVars, workerVars, history>>

Feeds(p) == {q \in Processors : p \in Elems(NextOf[q])}

\* ~Processor() runs end_all_threads(), or the destructor of the derived class
\* does, which has to: handle_task() is virtual.  As C++ demands, nobody else is
\* inside the object, and no processor that still exists points to it.
Destruct(o, p) ==
    /\ opc[o] = "idle"
    /\ destroyed[p] = "no"
    /\ \A b \in Owners : opc[b] = "idle" \/ call[b].proc # p
    /\ \A q \in Feeds(p) : destroyed[q] = "yes"
    /\ IF threads[p] = <<>>
       THEN /\ destroyed' = [destroyed EXCEPT ![p] = "yes"]
            /\ UNCHANGED <<threads, ownerVars>>
       ELSE /\ destroyed' = [destroyed EXCEPT ![p] = "closing"]
            /\ TakeThreads(o, p, 0, threads[p], <<>>, TRUE)
    /\ UNCHANGED <<queueVars, lock, created, workerVars, history>>

\* Its end_all_threads() has returned: the members go.
Free(p) ==
    /\ destroyed[p] = "closing"
    /\ \A b \in Owners : opc[b] = "idle" \/ call[b].proc # p
    /\ destroyed' = [destroyed EXCEPT ![p] = "yes"]
    /\ UNCHANGED <<queueVars, threads, lock, created>>
    /\ UNCHANGED <<workerVars, ownerVars, history>>

-----------------------------------------------------------------------------
PopStep(w) == Take(w) \/ TimeOut(w) \/ PopEmpty(w) \/ PopBatch(w) \/ PopRest(w)
WorkerStep(w) ==
    \/ Start(w) \/ PopStep(w)
    \/ Quit(w) \/ Handle(w) \/ Ignore(w) \/ FanOut(w) \/ FanEnd(w)

\* The rest of a call its owner has made.
OwnerStep(o) ==
    \/ Create(o) \/ CreateFails(o) \/ Created(o) \/ BeginReturn(o)
    \/ EndMore(o) \/ EndNoMore(o) \/ SignalQuit(o) \/ Join(o)

OwnerCall(o) == \E p \in Processors :
    \/ \E n \in Counts : BeginThread(o, p, n)
    \/ \E sync \in SyncModes :
        \/ \E n \in Counts : EndThread(o, p, n, sync)
        \/ EndAllThreads(o, p, sync)
    \/ Destruct(o, p)

\* Everything is gone: nothing more happens.
Terminated == (\A p \in Processors : destroyed[p] = "yes") /\ UNCHANGED vars

Next ==
    \/ \E p \in Entries, ts \in Lists : Push(p, ts)
    \/ \E w \in Workers : WorkerStep(w)
    \/ \E o \in Owners : OwnerCall(o) \/ OwnerStep(o)
    \/ \E p \in Processors : Free(p)
    \/ Terminated

\* A worker runs, and its wait() of 200 ms ends with a signal or a time-out; an
\* owner finishes the call it is in, and is not kept from thread_lock_ for ever
\* by other owners' calls.  Nobody has to make a call or a push.
Fairness ==
    /\ \A w \in Workers : WF_vars(WorkerStep(w))
    /\ \A o \in Owners : SF_vars(OwnerStep(o))

Spec == Init /\ [][Next]_vars /\ Fairness

-----------------------------------------------------------------------------
(* Properties *)

Popping(p) == {w \in Workers : wpc[w] = "pop" /\ Home[w] = p}

\* current_queue_size_, kept by hand beside the list, is its length, and
\* max_queue_size_ is never exceeded.
QueueBounded ==
    \A p \in Processors : size[p] = Len(queue[p]) /\ size[p] <= MaxQueueSize

\* No task is stranded: the semaphore's signals and the workers that hold one
\* cover the queue, though pops release signals in bulk, outside the step that
\* took theirs, and other workers may be in between.
SignalsCoverQueue ==
    \A p \in Processors :
        signals[p] + Cardinality(Popping(p)) >= size[p]

\* With batch_size_ 1 they match it exactly, so no worker finds it empty.
SignalsMatchQueue ==
    \A p \in Processors :
        signals[p] + Cardinality(Popping(p)) = size[p]

\* The tasks worker w has popped for its processor and not handled yet.
Holds(w) == IF wpc[w] = "check" THEN Elems(tasks[w]) ELSE {}

InQueue(p) == Elems(queue[p])
InHand(p) == UNION {Holds(w) : w \in {v \in Workers : Home[v] = p}}

\* Every task push_task() answered SUCCESS for is in exactly one place: queued,
\* popped by one worker, handled, or dropped by a worker told to quit.
Accounted ==
    \A p \in Processors :
        /\ Elems(accepted[p]) =
                InQueue(p) \cup InHand(p) \cup done[p] \cup dropped[p]
        /\ InQueue(p) \cap (InHand(p) \cup done[p] \cup dropped[p]) = {}
        /\ InHand(p) \cap (done[p] \cup dropped[p]) = {}
        /\ done[p] \cap dropped[p] = {}
        /\ Cardinality(InQueue(p)) = Len(queue[p])
        /\ \A v, w \in Workers :
            Home[v] = p /\ Home[w] = p /\ v # w => Holds(v) \cap Holds(w) = {}

\* A task a worker has handled and handed on was taken or refused by every next
\* processor: one that is full does not keep the tasks from the others.
HandedOn ==
    \A p \in Processors : \A t \in done[p] : \A i \in DOMAIN NextOf[p] :
        \/ t \in Elems(accepted[NextOf[p][i]]) \cup refused[NextOf[p][i]]
        \/ \E w \in Workers :
            /\ Home[w] = p /\ wpc[w] = "fan"
            /\ t \in Elems(tasks[w]) /\ fan[w] <= i

\* thread_list_ holds running workers that announced themselves, each once.
Listed ==
    \A p \in Processors :
        /\ \A i \in DOMAIN threads[p] :
            /\ Home[threads[p][i]] = p
            /\ wpc[threads[p][i]] \in {"wait", "pop", "check", "fan"}
            /\ ~quit[threads[p][i]]
        /\ \A i, j \in DOMAIN threads[p] : i # j => threads[p][i] # threads[p][j]

\* Once the destructor is through, no worker of the processor runs and no other
\* worker can push into it.
NothingTouchesDestroyed ==
    \A p \in Processors : destroyed[p] = "yes" =>
        \A w \in Workers :
            /\ Home[w] = p => wpc[w] \in {"none", "gone"}
            /\ p \in Elems(NextProcessors(w)) => wpc[w] \in {"none", "gone"}

\* b entered p's queue after a.
Before(p, a, b) == \E i, j \in DOMAIN accepted[p] :
    i < j /\ accepted[p][i] = a /\ accepted[p][j] = b

\* What is popped goes before all that stays, by operator< and then by arrival,
\* although pushes between two pops append behind a sorted list.
PopsInOrder ==
    [][\A w \in Workers : wpc[w] = "pop" /\ wpc'[w] = "check" =>
        \A a \in Elems(tasks'[w]), b \in Elems(queue'[Home[w]]) :
            \/ Prio[a] < Prio[b]
            \/ Prio[a] = Prio[b] /\ Before(Home[w], a, b)]_vars

\* A queued task leaves the queue, unless the processor runs out of workers.
QueuedLeaves ==
    \A p \in Processors : \A t \in Tasks :
        t \in InQueue(p) ~> (t \notin InQueue(p) \/ threads[p] = <<>>)

\* begin_thread(), end_thread() and end_all_threads() return, although the first
\* waits for an event, and the others join threads that wait for signals.
CallsReturn == \A o \in Owners : opc[o] # "idle" ~> opc[o] = "idle"

\* Seen from outside, each processor is a bounded buffer that delivers each task
\* it accepted to one worker, which handles it or loses it by quitting.
Buffer == INSTANCE TaskBuffer WITH
    Capacity <- MaxQueueSize,
    waiting <- [p \in Processors |-> InQueue(p)],
    out <- [p \in Processors |-> InHand(p)],
    handled <- done,
    lost <- dropped

BufferKept == Buffer!Spec
=============================================================================
