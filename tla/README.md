# A verification project for examplevega

examplevega holds the public headers of the Vega inference and codec SDK and three driver
programs. The SDK itself is a closed library. What the repository implements is the concurrency
toolkit under `src/include/zfz` and `src/include/station`, a few helpers, and the drivers in
`src/test_src`. This directory models that code in TLA+, checks the models with TLC on small
instances, and proves the invariants that matter most with TLAPS for all instances.

    tlc -workers 2 -config MCEvent.cfg MCEvent       # one run; the table below lists all
    tlapm EventProofs.tla                            # one module of proofs

## 1. The system

| part | source | state it keeps | operations | module |
|---|---|---|---|---|
| Semphore | `include/zfz/zfz_semphore.hpp` | `signals_`, `blocked_`, a mutex, a condition variable | wait (endless, polling, timed), signal, release, release_to, reset | `Semphore` |
| Event | `include/zfz/zfz_event.hpp` | `signal_`, `manual_reset_`, `blocked_` | wait, set, reset | `Event` |
| Processor | `include/zfz/zfz_processor.hpp` | bounded task list and its size, flags, a Semphore; thread list, its lock, an Event; pointers to the next processors | push_task, pop_task, the worker loop, fan_out, begin_thread, end_thread, end_all_threads, destructor | `Processor` |
| ObjectPool | `include/zfz/zfz_object_pool.hpp` | idle objects, available and holding counts, an Event | pop, push, reset, set_max_holding_count | `ObjectPool` |
| BlockQueue | `include/station/block_queue.h` | a queue, a mutex, a condition variable | push, pop | `BlockQueue` |
| DoableStation | `include/station/thread_pool.h:183-243` | a BlockQueue, `end_`, one thread | put, work, destructor | `DoableStation` |
| ThreadPool | `include/station/thread_pool.h:25-181` | a lock-free queue, `end_`, threads, a monitor | create, put, destroy, work, monitor | `ThreadPool` |
| video encoder driver | `test_src/test_video_encoder.cpp` | round, picture, two stations, three SDK interfaces, events, the output file | sendJpg, sendEncode, writeH26x, sendFree, three callbacks | `EncodeDriver` |
| video decoder driver | `test_src/test_video_decoder.cpp` | round, request, counter and event of the round, three SDK interfaces | a round of decode requests, fetchFrame, deleteFrame, three callbacks, the shutdown | `DecodeDriver` |
| ReadImageList | `include/read_image_list.h` | none | read_list | `DecodeDriver` |
| VegaTpAccumulator | `include/vega_time_pnt.h:146-260` | sums, minima, maxima, headers, a mutex | push, dump, avg | `TpAccumulator` |
| sample driver, Msg, Timer, plate filter, data types | `test_sample.cpp`, `work_msg.h`, `zfz_timer.hpp`, `vega_plate_filter.h`, `dg_types.h` | – | – | not modelled, see section 5 |
| WorkStation, SDK interfaces | `station/work_station.h`, `interface_base.h`, `vega_interface.h` | – | declarations only; the bodies are in the closed library | external |
| Boost, OpenCV, glog, moodycamel queues | `include/boost` ... `include/queue` | – | third-party | external |

How the parts interact:

* A Processor waits on its Semphore for tasks and on its Event for a new thread to announce itself.
  Workers of one processor call `push_task()` of the next ones (raw pointers).
* ObjectPool waits on an Event that it sets and resets under its own lock.
* A DoableStation's only channel is its BlockQueue. It ends its thread with a flag and one more
  doable that wakes the thread.
* The decoder driver sends all packets of a round without waiting and counts the callbacks in locals of the
  round. Frames it keeps go on to two global interfaces that outlive the rounds.
* The encoder driver joins main, two DoableStations and three SDK interfaces. Each stage calls
  `execute()`, then waits for an Event *on its own stack* that the SDK's callback sets. Callbacks
  put doables into the stations.

What makes the code hard to test, and what makes each part correct:

* **Semphore, Event**: waiters are counted by hand and notified by count; time-outs, other threads
  that take the signal first, and wake-ups for no reason race with posting and resetting. Correct: nobody sleeps
  beside a signal that nobody is fetching; a time-out is answered only when there is nothing to take.
* **Processor**: a pop takes *its* signal before it takes the lock and returns the other signals of
  its batch afterwards in bulk. Tasks arrive with priorities behind a list that is only sorted on
  demand. Workers are announced, counted, told to quit and joined by other threads. Correct: no task is stranded,
  doubled or lost without being accounted for, order is kept, calls return, and nothing runs in a destroyed processor.
* **ObjectPool**: `pop()` decides to wait from an unlocked read. Correct: the limit holds, permits are
  not lost, no object is out twice, the event matches the count.
* **BlockQueue, DoableStation, ThreadPool**: notification after unlock, destruction while a thread
  sleeps, `put()` racing `destroy()`.
* **EncodeDriver**: an end-of-stream mark passed through four threads must come out last.
* **DecodeDriver**: one event answers for all requests of a round; a wait that times out, a request that is refused
  or fails, and a late callback must not make callbacks write into a scope that is over, nor strand a frame.
* **VegaTpAccumulator**: `dump()` reads partly outside the mutex that `push()` takes.

`PROJECT.json` lists these hazards one by one, each at its line, with the property that guards it.

## 2. The modules

    CountingSemaphore <--implements-- Semphore <--proofs-- SemphoreProofs
    SignalFlag        <--implements-- Event    <--proofs-- EventProofs
    TaskBuffer        <--implements-- Processor <--proofs- ProcessorProofs
                                      ObjectPool <--proofs- ObjectPoolProofs
    BlockQueue <--INSTANCE-- DoableStation <--proofs-- DoableStationProofs (of both)
                                      ThreadPool <--proofs-- ThreadPoolProofs
                                      DecodeDriver <--proofs-- DecodeDriverProofs
                                      EncodeDriver <--proofs-- EncodeDriverProofs
    TpAccumulator

`CountingSemaphore`, `SignalFlag` and `TaskBuffer` are abstract specifications. Everything else is
translated from the code, and every `MC...` module fixes constants for TLC. A definition
named after an operation and, past an underscore, a mistake (`Signal_NotifyOnce`) is not part of any specification: it is the operation of that
name with a plausible mistake, kept to show that the properties would notice it.

**Steps.** A stretch of code under a mutex that is never held across a wait is one action. A wait on
a condition variable is split: falling asleep, being notified, expiring, waking for no reason, and the re-acquired
lock are separate actions. Where code reads shared state without the lock (`pop()`'s sign test,
`put()`'s test of `end_`), that read is a step of its own.

**Semphore / Event.** `pc[t]` is `asleep` (in the condition variable), `awake` (notified or woken, not
running yet), `expired` or `idle`; `mode[t]` is the kind of time-out. `Signal` and `Set` choose *which* sleepers `notify_one` /
`notify_all` move. `manual` is chosen in `Init`. The refinement mapping forgets everything but who is
waiting and what was answered (`Answer`). The abstract specifications promise steps and liveness: `PromiseKept` says that every
step is one of theirs, `WaitersServed` that a wait with a time-out ends (`Answers`) and that while permits or the flag stay
up every waiter gets through (`Serves`).

**Processor.** One module for a whole graph, because workers of one processor push into others. It uses
Semphore and Event at the level that their abstract specifications promise, which the runs
`semphore` and `event` justify. `thread_lock_` is held across waits and therefore a variable. `opc`
and `call` hold the call an owner thread is in. `accepted`, `refused`, `done` and `dropped` are history.
The graph, `max_queue_size_` and `batch_size_` are constants, fixed before the first thread starts. That is the model's choice:
`add_next_processor()` and `remove_next_processor()` are commented as not thread safe (lines 250, 271) and the thread
function reads `batch_size_` once, when it starts (line 330), but nothing in the source forbids to call the unguarded setters of both sizes later.
Lines 373-382, after an endless loop, are dead code and have no counterpart.

**ObjectPool.** Objects are addresses; `new T()` returns one that no living object has. An object comes
back from any thread, as a `shared_ptr`'s deleter does. `trimmed` is history: whether `reset()` or
`set_max_holding_count()` has been called.

**BlockQueue / DoableStation.** DoableStation instantiates BlockQueue with its own variables and takes
each of its steps, so the station is checked over the real queue and not over an idealised one.

**ThreadPool.** The moodycamel queue is external: a set, since it promises no order between producers.

**EncodeDriver.** Both builds: `newcuda`, chosen in `Init`, says whether `sendEncode()` waits for the encoder and the
encoder's callback sets its event. Stations are FIFO queues with one worker, which `DoableStationProofs`
and the run `station` justify. The SDK is external and taken to accept every request, to answer the requests of an
interface once, in order, one callback at a time, and to drop its tasks after the callback. A callback may also
report an error and a picture's file may be missing; either fails a `CHECK` and ends the process. `RoundsApart` states what main
may meet when g_evt has told it that the last picture is freed: nothing with work left, but `sendEncode()` of that picture may
not have returned. `g_evt` does not wait for it in either build; the next round, or `encoder.reset()` at line 419, may come first. The data that `writeH26x()` writes is followed by its owners.

**DecodeDriver.** As built without `NEWCUDA`. `lines` is the list file, each line known by its suffix; `ReadFile` is the loop of `read_list()`, a function of the number of lines read.
A request is its number in the round and whether its frame is discarded; number n + 1 is eos. The decoder may *refuse* a request,
because the driver ignores what `execute()` returns, and answers those it accepted in order, with or without an
error. The end of a round's scope destroys the decoder first (`Close`), which waits for its callbacks, and then the locals
(`Leave`). `fetcher.reset()` makes the pointer null before the destructor it calls has come back, as
`std::shared_ptr` does. `pool` is the SDK's pool of kept frames; `failed` is history: the frames it refused to fetch or free.

**TpAccumulator.** `push()` and `avg()` hold the mutex and are single steps, but for the first push: `dump()` reads without the mutex
and may see `hdrs_` filled and `max_`, `min_` not yet. Each line that `dump()` writes is a step.

## 3. The runs

| run | instance | what it shows |
|---|---|---|
| `semphore` | 3 threads, at most 3 signals, posted and revoked by 1 and 2 (and -1, which does nothing) | no lost wake-up; the class implements `CountingSemaphore`, its liveness included; signals never go negative |
| `event` | 3 threads, both kinds of event | the same for Event against `SignalFlag` |
| `processor_batch` | 2 workers, 1 owner, 4 tasks of 2 priorities (one pair), queue of 3, batches of 2, joining or detaching | signals cover the queue; every accepted task is in one place; pops keep priority and arrival order; the processor implements `TaskBuffer` |
| `processor_graph` | p1 feeds p2 and p3, 2 owners, 2 workers, both p1's, 1 task pushed into p1 and p2, queues of 1, two workers begun or ended per call | a full target does not cost the others their tasks; `thread_list_` holds exactly announced, running workers; nothing runs in, or pushes into, a destroyed processor; queued tasks leave; begin/end calls return |
| `pool` | 3 threads, 4 addresses, no limit / 1 / 2, holding counts -1, 0, 1, 3 | event and count agree; no object out twice; no permit lost; an untrimmed pool keeps its limit; no pop starves |
| `pool_trim` | the same | **violation**: a trimmed pool exceeds its limit (section 6) |
| `station` | 2 putters, 3 doables | the queue keeps their order; the destructor returns and starts at most one doable more; otherwise every doable is run |
| `thread_pool` | 2 putters, 2 doables, pools of 1 and 2 threads, created twice | no thread outlives `destroy()`; each accepted doable is in one place; only a `put()` overtaken by `destroy()` leaves something behind; `destroy()` returns; queued doables run |
| `encode` | 2 rounds of 3 pictures, both builds | a round leaves nothing with work left to the next; the file holds round 0 in order; callbacks set only events whose owner waits; every round ends |
| `encode_data` | the same | **violation**: encoded data may be gone when it is written (section 6) |
| `decode` | 2 rounds of every list of up to 3 lines | the locals of a round outlive its callbacks; the count is complete unless something was refused or timed out; every frame kept is freed before the SDK goes; a list decoded as h264 is pure; every round ends |
| `timing_dump` | a thread that dumps, one that pushes groups of 2 and 3 points, 3 pushes | **violation**: a dump that overlaps the first push writes lines that do not exist (section 6) |

**Bounds and why they are enough.** Three waiters are the smallest number with one asleep, one roused
and one barging in, which every lost wake-up needs; three signals are more than one `signal(2)` can
hand to two of them. Batches of two over two workers give a pop that returns a partial batch while the other
worker is between semaphore and lock; four tasks with a pair and one urgent latecomer make the queue full, overtaken
and re-sorted. In `processor_graph` owners begin and end two workers per call: a creation that fails, or
an end that finds one worker only, makes it one. Two owners are needed for the races on `thread_lock_` and the shared creation
event. A fan of two has one full and one empty target: p2 is also fed from outside, and has no worker to empty it. The pool's limits of 1 and 2 with three
threads always leave a loser; four addresses allow the limit to be broken. `MaxSignals`, `MaxAvailable`,
`MaxPushes`, `MaxPuts` and `MaxCreates` bound counters that the code does not bound; each appears as
a guard of the action that counts up. Three pictures have a first, a middle and a last one; two
rounds have a boundary between them. Three lines of a list give two packets in flight behind one that is being answered, and every mixture
of two types around a line that is skipped. In `processor_graph` owners only join
(`SyncModes = {TRUE}`); `end_thread(n, false)` leaves a detached worker for which the destructor does not wait,
and its caller has to. Deadlock is checked wherever the system can go on for ever; it is not for `station`,
`encode` and `decode`, which end.

**Fairness.** Weak fairness for each thread inside a call: it runs when it can. Strong fairness in two places: a
timed wait expires even if the thread is woken again and again in between (`wait_for` with a predicate
keeps one absolute deadline, and the clock goes on), and an owner of a processor gets `thread_lock_` although other
owners keep taking it (a mutex that starves a thread for ever is not considered). User code -- `handle_task()`,
`start()`, the SDK's work on a request it accepted -- is assumed to return. Nobody is ever obliged to make a call. In `decode` the 60 s of main's wait do
pass, for nothing else ends it when eos was refused; in `encode` main's 40 s need not.

## 4. The proofs

Every proof is of the form: an inductive invariant `IInv`, `Init => IInv`, one lemma per action (or group
of actions) that `IInv` survives, and a temporal step. All are for arbitrary constants that satisfy
the named assumptions.

| theorem | statement | why the invariant needs more than the property |
|---|---|---|
| `SemphoreProofs!NoLostWakeUpTheorem` | no wake-up is lost, if `release_to()` is only used to lower (`~ReleaseToRaises`) | `signal()` notifies `min(blocked_, count)` threads, so `blocked_` must be exact for the wake-up count to add up |
| `SemphoreProofs!BlockedCountsTheorem`, `TypeTheorem` | `blocked_` is exact, no counter goes below zero; no hypothesis | that `blocked_` stays a natural number follows from its being a count |
| `SemphoreProofs!PromiseTheorem`, `EventProofs!PromiseTheorem` | every step is one that `CountingSemaphore`, `SignalFlag` allow, or none; no hypothesis | only a timed wait can be `expired`, and signals stay within their bound |
| `EventProofs!NoLostWakeUpTheorem`, `BlockedCountsTheorem` | as for Semphore, both kinds of event | `set()` notifies nobody if `blocked_` is 0 |
| `ProcessorProofs!TypeTheorem` | type correctness of the whole graph | an owner in the middle of a call has someone's threads in its list of targets |
| `ProcessorProofs!QueueBoundedTheorem` | `current_queue_size_` is the length and never exceeds the maximum | – |
| `ProcessorProofs!SignalsCoverQueueTheorem` | signals plus workers that hold one cover every queue, for every graph and batch size | needs the size kept by hand to be the length; a pop lowers both sides, by possibly different amounts, the clamp at zero included |
| `ProcessorProofs!SignalsMatchQueueTheorem` | with `batch_size_` 1 they match exactly | carried along as `BatchSize = 1 => SignalsMatchQueue` |
| `ProcessorProofs!ListedTheorem` | `thread_list_` holds each running worker once | calls in progress own disjoint sets of threads, and a new one is in no list |
| `ProcessorProofs!NothingTouchesDestroyedTheorem` | nothing runs in a destroyed processor, if every caller joins (`SyncModes \subseteq {TRUE}`) | a processor is destroyed after those that feed it, and each running thread is listed or the target of a call |
| `ProcessorProofs!HandedOnTheorem` | a task handed on was taken or refused by every next processor | a worker holds tasks only between its pop and the end of its hand-over |
| `ProcessorProofs!PopsInOrderTheorem` | a pop takes what goes before the rest, by priority and arrival | `queue_ordered_flag_` implies an ordered list; equally urgent tasks stand as they came |
| `ProcessorProofs!AccountedTheorem`, `BufferKeptTheorem` | every accepted task is in one place; the processor implements `TaskBuffer`. For `Tree` and `NoRepeats`, see below | the places exclude each other: on its way in, queued, held, done, dropped |
| `ObjectPoolProofs!NoDoubleHandOutTheorem` | no object is out twice, or kept twice; any limit | an object that comes back is known to be nowhere else |
| `ObjectPoolProofs!EventTheorem`, `PermitsTheorem` | as in `pool`, unless a limit is 0 | the sign of the count never changes, and a thread that skips the wait does so in an unlimited pool: otherwise one late `pop()` takes the count from 0 to -1 |
| `ObjectPoolProofs!LimitTheorem` | an untrimmed pool keeps its limit | in addition, until somebody trims, limit - available = number handed out |
| `DoableStationProofs!NoLostWakeUpTheorem`, `QueueFifoTheorem` | of BlockQueue alone: while a consumer sleeps, each queued value has a consumer or a notification on its way; what was popped and what is queued is what was pushed. For any finite sets of producers and consumers (`Finite`), any values | – |
| `DoableStationProofs!StationFifoTheorem` | a station starts what is put in its order, each once | – |
| `DoableStationProofs!AtMostOneMoreTheorem` | once `end_` is set one doable more is started at most | that one belongs to the `pop()` under way: `wpc = "pop"` exactly while the worker is in the queue |
| `ThreadPoolProofs!AccountedTheorem` | each accepted doable is in one place | a doable on its way into the queue must be known to be nowhere else |
| `ThreadPoolProofs!QuietTheorem` | no thread outlives `destroy()` | every thread is one of the `pool_` that is joined, and a monitor exists only beside a thread |
| `ThreadPoolProofs!LeftOverTheorem` | only overtaken puts leave anything | while `end_` is set, every `put()` under way is an overtaken one |
| `EncodeDriverProofs!RoundsApartTheorem`, `FileInOrderTheorem` | a round leaves at most a `sendEncode()` that is answered and about to return, the file holds round 0 in order; any number of pictures and rounds | the pictures of a round stand in order along the chain of stations and interfaces, each in one place, so the last one out is the last one in; the thread of `s_enc_video` holds the one it took last |
| `EncodeDriverProofs!LocalEventsTheorem` | callbacks set only events whose owner waits, in both builds | each caller has one request out, and its event is up once that is answered |
| `DecodeDriverProofs!LocalsTheorem` | callbacks find the locals of their round | – |
| `DecodeDriverProofs!CountTheorem` | the count is complete without a refusal or time-out | each accepted request is waiting or counted, and eos is the last: when it is answered, none waits |
| `DecodeDriverProofs!FramesTheorem` | every frame kept is freed | each frame in the SDK's pool is with one of the three interfaces, and freer goes only when nothing can come to it |
| `DecodeDriverProofs!PureTheorem` | a list decoded as h264 is pure, of any length | induction over the lines: the recursion defines a function (`ReadsExists`), and what has been read as h264 so far is pure |

**Hypotheses.** `0 \notin Limits`: `set_available_count(0)` leaves the event set beside a count of 0, and `pop()` then
spins for ever. Nobody limits a pool to nothing; the assumption is stated where it is needed.
`Tree`: each processor is fed by one other or by callers, not by several; `NoRepeats`: no list pushed holds a task twice.
Tasks are shared pointers: where two ways through the graph meet again, or a list repeats one, the same task is rightly
pushed into a processor twice, and "in exactly one place" is not what the code means to do. The order of pops,
the hand-over and the cover of signals need neither. `SyncModes \subseteq {TRUE}`: `end_thread(n, false)` detaches workers
that nothing waits for (section 3). `ThreadPool` assumes that the pool sizes asked for are positive and have a maximum.
The theorem about Semphore's wake-ups, and its run, take `release_to()` as its name says: it only lowers; raising would wake nobody.
Nothing in the repository calls it.

`BlockedCounts`, `QueueBounded` and `SignalsMatchQueue` are proved and not listed as properties of a run; `UsedCounted` is a lemma's invariant.

**Induction over data.** The induction theorems of the library take the formula as a parameter, which the provers cannot
instantiate. `InductionOnSet` takes the *set* of the numbers that satisfy it and follows from the well-foundedness of `<`; the
existence of the function that `ReadFile` recurses on is proved with it, and so is what it returns.

**Only model-checked:** liveness (`WaitersServed`, `QueuedLeaves`, `CallsReturn`, `PopMeetsObject`, `DestructorReturns`,
`PutRuns`, `DestroyReturns`, `QueuedRuns`, `RoundsEnd`), which under fairness is out of reach of the prover. Every other property of a
passing run has a theorem.

## 5. Not modelled, and assumptions

* WorkStation and the SDK have no source here: their headers declare, the closed library defines.
* `Msg` sets an event in its destructor; its only users are WorkStation's missing functions, so who waits for it and when it
  dies is not in the repository.
* The sample driver is one thread that executes one request after the other and waits for one event: the hand-shake that
  `LocalEventsLive` checks, with one caller and no loop.
* `vega_plate_filter.h` declares filters that the closed library defines; what it defines are string tests and
  scores over floating-point confidences. `dg_types.h` is data with a few sequential setters, `zfz_timer.hpp` two reads of a clock.
  `VegaTpGrp` is the data that `TpAccumulator` is given.
* The `NEWCUDA` build of the decoder driver sends a flush request before eos (`test_video_decoder.cpp:177-193`) and still checks for n + 1
  callbacks: whether that can hold depends on whether the SDK calls back for a flush. (The encoder driver is modelled in both builds.)
* The SDK's interfaces are taken to drain in their destructors: no callback comes when a destructor has returned. The decoder
  driver needs that for its locals, and the order of its two `reset()` calls for its frames. The encoder driver ignores
  what `execute()` returns, and a refused request would leave `sendJpg()` or `sendFree()` waiting for ever; the model assumes none is refused.
* Data races: `end_` of ThreadPool and DoableStation and `available_count_` in `pop()` are plain variables read
  without a lock. Between two such reads the code calls into a mutex or a library, so each is a load of its own, and the
  model reads the current value. `is_working()`, `size()` and `empty()` read lists without their
  locks; their results reach only log lines or callers told by a comment not to do it.
* `~Processor()` ends the threads when the derived object is already gone, so a derived class must call
  `end_all_threads()` in its own destructor; `Destruct` models that. As C++ demands, nobody calls an object that is
  being destroyed: a processor goes after those that point to it.
* A station's `put()` may be between its unlock and its `notify_one()` when the destructor ends; the queue's memory is
  taken to outlive it.
* A doable is put once; a task is pushed once into each entry. `create(num)` is called with `num >= 1`, `max_queue_size_`
  is not negative (a negative one converts to a huge `size_t`; nothing in the repository sets it).
* Content: task data, images, `clear_object()`, log lines, time stamps.

## 6. Findings

1. **A trimmed ObjectPool exceeds its limit** (`zfz_object_pool.hpp:207, 239`). `push()` counts an object as
   available when it comes back; `reset()` and `set_max_holding_count()` count it again when they delete it. After
   pop, push, reset a pool limited to one hands out two. Run `pool_trim`; the limit is proved for pools that are not trimmed.
2. **The encoder driver writes from data nobody holds** (`test_video_encoder.cpp:195-204`). The
   callback captures `result_.data_.get()` but no `shared_ptr`; the sender's tasks go when it is woken, the SDK's when the
   callback returns, and the station may write after both. Run `encode_data`. It rests on the SDK not keeping the task.
3. **`VegaTpAccumulator::dump()` reads past its tables** (`vega_time_pnt.h:164-179`). The averages are taken under the mutex, the
   walk over `hdrs_`, `max_` and `min_` is not. If the first `push()` comes between the two, line 168 indexes an empty
   vector. Run `timing_dump`.

## 7. Plan

Done in this order: Semphore, Event, Processor, ObjectPool, BlockQueue, DoableStation, ThreadPool, EncodeDriver, DecodeDriver,
TpAccumulator, with the proofs of section 4. What is left:

1. More general hypotheses for `AccountedTheorem` and `BufferKeptTheorem`: tasks counted per way through the graph, so that
   they hold for graphs that are not trees.
2. `TpAccumulator`: what `avg()` returns once the first push is over.
