---------------------------- MODULE EncodeDriver ----------------------------
(***************************************************************************)
(* test_src/test_video_encoder.cpp: rounds of N pictures that are decoded, *)
(* encoded, written and freed by three SDK interfaces, two DoableStations  *)
(* and the main thread.                                                    *)
(*                                                                         *)
(*   main --execute--> decoder --callback--> s_enc_video --execute-->      *)
(*   encoder --callback--> s_free_frame --execute--> freer                 *)
(*                                                                         *)
(* Each execute() is followed by a wait for an Event that the callback     *)
(* sets; the Event is a local variable of the caller.  Built with NEWCUDA, *)
(* s_enc_video does not wait for the encoder.  Only the last               *)
(* picture of a round carries eos, and g_evt carries it back to main.      *)
(*                                                                         *)
(* The SDK is external.  It is taken to answer the requests of one         *)
(* interface in their order, once each, one callback at a time, and to     *)
(* drop its tasks when the callback returns (interface_base.h:79-84,       *)
(* 100-104, vega_interface.h:16-20, 66-68).  A station is a FIFO queue and *)
(* a worker, as DoableStation shows it to be.                              *)
(***************************************************************************)
EXTENDS Integers, Sequences

CONSTANTS
    N,              \* the length of h264_list_
    Rounds          \* ROUND

ASSUME NAssumption == N \in Nat \ {0}               \* CHECK at line 376
ASSUME RoundsAssumption == Rounds \in Nat \ {0}     \* CHECK at line 386

VARIABLES
    newcuda,        \* is this a NEWCUDA build?
    mpc,            \* main: "send", "decode" (event.wait), "done" (g_evt.wait),
                    \* "ended" or "aborted"
    round, i,       \* test_round, and the picture sendJpg() is at
    decoder, encoder, freer,            \* the requests each interface still has
    decCallback, encCallback,           \* the picture a callback is about to put
    encVideo, freeFrame,                \* the queues of s_enc_video, s_free_frame
    encWorker, freeWorker,              \* the picture each station's thread has
    written,        \* s_free_frame's thread is past writeH26x()
    decEvent, encEvent, freeEvent,      \* the local events of the three callers
    g_evt,
    file,           \* the output file
    owners          \* who holds a shared_ptr to each picture's EncodeTask

sdk == <<decoder, encoder, freer, decCallback, encCallback>>
stations == <<encVideo, freeFrame, encWorker, freeWorker, written>>
events == <<decEvent, encEvent, freeEvent, g_evt>>
vars == <<newcuda, mpc, round, i, sdk, stations, events, file, owners>>

Pictures == 1 .. N
None == 0

TypeOK ==
    /\ newcuda \in BOOLEAN
    /\ mpc \in {"send", "decode", "done", "ended", "aborted"}
    /\ round \in 0 .. Rounds /\ i \in Pictures
    /\ decoder \in Seq(Pictures) /\ encoder \in Seq(Pictures) /\ freer \in Seq(Pictures)
    /\ encVideo \in Seq(Pictures) /\ freeFrame \in Seq(Pictures) /\ file \in Seq(Pictures)
    /\ decCallback \in Pictures \cup {None} /\ encCallback \in Pictures \cup {None}
    /\ encWorker \in Pictures \cup {None} /\ freeWorker \in Pictures \cup {None}
    /\ decEvent \in BOOLEAN /\ encEvent \in BOOLEAN /\ freeEvent \in BOOLEAN
    /\ g_evt \in BOOLEAN /\ written \in BOOLEAN
    /\ owners \in [Pictures -> SUBSET {"sender", "sdk"}]

Init ==
    /\ newcuda \in BOOLEAN
    /\ mpc = "send" /\ round = 0 /\ i = 1
    /\ decoder = <<>> /\ encoder = <<>> /\ freer = <<>>
    /\ decCallback = None /\ encCallback = None
    /\ encVideo = <<>> /\ freeFrame = <<>>
    /\ encWorker = None /\ freeWorker = None /\ written = FALSE
    /\ decEvent = FALSE /\ encEvent = FALSE /\ freeEvent = FALSE /\ g_evt = FALSE
    /\ file = <<>>
    /\ owners = [f \in Pictures |-> {}]

\* A failed CHECK takes the whole process down.
Running == mpc # "aborted"

Eos_BeforeLast(f) == f + 1 >= N

Eos_PastTheEnd(f) == f > N

Eos(f) == f = N

-----------------------------------------------------------------------------
(* The main thread: sendJpg() and the loop over the rounds *)

SendJpg ==
    /\ mpc = "send"
    /\ decoder' = Append(decoder, i)
    /\ mpc' = "decode"
    /\ UNCHANGED <<newcuda, round, i, encoder, freer, decCallback, encCallback>>
    /\ UNCHANGED <<stations, events, file, owners>>

\* The picture cannot be opened.
NoSuchFile ==
    /\ mpc = "send"
    /\ mpc' = "aborted"
    /\ UNCHANGED <<newcuda, round, i, sdk, stations, events, file, owners>>

\* event.wait() returns, event.reset(), and the next picture or g_evt.wait().
Sent ==
    /\ mpc = "decode" /\ decEvent
    /\ decEvent' = FALSE
    /\ IF i < N THEN i' = i + 1 /\ mpc' = "send"
                ELSE i' = 1 /\ mpc' = "done"
    /\ UNCHANGED <<newcuda, round, sdk, stations, encEvent, freeEvent, g_evt, file, owners>>

RoundDone_KeepsEvent ==
    /\ mpc = "done" /\ g_evt
    /\ round' = round + 1
    /\ mpc' = IF round + 1 < Rounds THEN "send" ELSE "ended"
    /\ UNCHANGED <<newcuda, i, sdk, stations, events, file, owners>>

RoundDone ==
    /\ mpc = "done" /\ g_evt
    /\ g_evt' = FALSE
    /\ round' = round + 1
    /\ mpc' = IF round + 1 < Rounds THEN "send" ELSE "ended"
    /\ UNCHANGED <<newcuda, i, sdk, stations, decEvent, encEvent, freeEvent, file, owners>>

\* 40 s without the event.
Abort ==
    /\ mpc = "done" /\ ~g_evt
    /\ mpc' = "aborted"
    /\ UNCHANGED <<newcuda, round, i, sdk, stations, events, file, owners>>

-----------------------------------------------------------------------------
(* The decoder's callback sets the event first and puts the doable after it *)

DecodeSet ==
    /\ Running /\ decoder # <<>> /\ decCallback = None
    /\ decEvent' = TRUE
    /\ decCallback' = Head(decoder) /\ decoder' = Tail(decoder)
    /\ UNCHANGED <<newcuda, mpc, round, i, encoder, freer, encCallback, stations>>
    /\ UNCHANGED <<encEvent, freeEvent, g_evt, file, owners>>

DecodePut ==
    /\ Running /\ decCallback # None
    /\ encVideo' = Append(encVideo, decCallback)
    /\ decCallback' = None
    /\ UNCHANGED <<newcuda, mpc, round, i, decoder, encoder, freer, encCallback>>
    /\ UNCHANGED <<freeFrame, encWorker, freeWorker, written, events, file, owners>>

-----------------------------------------------------------------------------
(* s_enc_video runs sendEncode() *)

SendEncode ==
    /\ Running /\ encWorker = None /\ encVideo # <<>>
    /\ encWorker' = Head(encVideo) /\ encVideo' = Tail(encVideo)
    /\ encoder' = Append(encoder, Head(encVideo))
    /\ owners' = [owners EXCEPT ![Head(encVideo)] = {"sender", "sdk"}]
    /\ UNCHANGED <<newcuda, mpc, round, i, decoder, freer, decCallback, encCallback>>
    /\ UNCHANGED <<freeFrame, freeWorker, written, events, file>>

SendEncodeReturns_NoWait ==
    /\ Running /\ encWorker # None
    /\ encEvent' = FALSE
    /\ encWorker' = None
    /\ owners' = [owners EXCEPT ![encWorker] = @ \ {"sender"}]
    /\ UNCHANGED <<newcuda, mpc, round, i, sdk, encVideo, freeFrame, freeWorker, written>>
    /\ UNCHANGED <<decEvent, freeEvent, g_evt, file>>

\* event.wait() returns, if there is one, and encode_tasks goes with the call.
SendEncodeReturns ==
    /\ Running /\ encWorker # None /\ (encEvent \/ newcuda)
    /\ encEvent' = FALSE
    /\ encWorker' = None
    /\ owners' = [owners EXCEPT ![encWorker] = @ \ {"sender"}]
    /\ UNCHANGED <<newcuda, mpc, round, i, sdk, encVideo, freeFrame, freeWorker, written>>
    /\ UNCHANGED <<decEvent, freeEvent, g_evt, file>>

EncodeSet ==
    /\ Running /\ encoder # <<>> /\ encCallback = None
    /\ encEvent' = (encEvent \/ ~newcuda)
    /\ encCallback' = Head(encoder) /\ encoder' = Tail(encoder)
    /\ UNCHANGED <<newcuda, mpc, round, i, decoder, freer, decCallback, stations>>
    /\ UNCHANGED <<decEvent, freeEvent, g_evt, file, owners>>

\* The doable keeps the address of the result, not its shared_ptr.
EncodePut ==
    /\ Running /\ encCallback # None
    /\ freeFrame' = Append(freeFrame, encCallback)
    /\ owners' = [owners EXCEPT ![encCallback] = @ \ {"sdk"}]
    /\ encCallback' = None
    /\ UNCHANGED <<newcuda, mpc, round, i, decoder, encoder, freer, decCallback>>
    /\ UNCHANGED <<encVideo, encWorker, freeWorker, written, events, file>>

-----------------------------------------------------------------------------
(* s_free_frame runs writeH26x() and sendFree() *)

\* Only round 0 reaches the file.
WriteH26x ==
    /\ Running /\ freeWorker = None /\ freeFrame # <<>>
    /\ freeWorker' = Head(freeFrame) /\ freeFrame' = Tail(freeFrame)
    /\ file' = IF round = 0 THEN Append(file, Head(freeFrame)) ELSE file
    /\ written' = TRUE
    /\ UNCHANGED <<newcuda, mpc, round, i, sdk, encVideo, encWorker, events, owners>>

SendFree ==
    /\ Running /\ freeWorker # None /\ written
    /\ freer' = Append(freer, freeWorker)
    /\ written' = FALSE
    /\ UNCHANGED <<newcuda, mpc, round, i, decoder, encoder, decCallback, encCallback>>
    /\ UNCHANGED <<encVideo, freeFrame, encWorker, freeWorker, events, file, owners>>

FreeSet ==
    /\ Running /\ freer # <<>>
    /\ freeEvent' = TRUE
    /\ freer' = Tail(freer)
    /\ UNCHANGED <<newcuda, mpc, round, i, decoder, encoder, decCallback, encCallback>>
    /\ UNCHANGED <<stations, decEvent, encEvent, g_evt, file, owners>>

\* A callback is told of an error: its CHECK fails.
CallbackFails ==
    /\ Running
    /\ \/ decoder # <<>> /\ decCallback = None
       \/ encoder # <<>> /\ encCallback = None
       \/ freer # <<>>
    /\ mpc' = "aborted"
    /\ UNCHANGED <<newcuda, round, i, sdk, stations, events, file, owners>>

\* The last picture tells main that the round is over.
SendFreeReturns ==
    /\ Running /\ freeWorker # None /\ freeEvent
    /\ freeEvent' = FALSE
    /\ g_evt' = (g_evt \/ Eos(freeWorker))
    /\ freeWorker' = None
    /\ UNCHANGED <<newcuda, mpc, round, i, sdk, encVideo, freeFrame, encWorker, written>>
    /\ UNCHANGED <<decEvent, encEvent, file, owners>>

-----------------------------------------------------------------------------
Main == SendJpg \/ Sent \/ RoundDone

EncVideo == SendEncode \/ SendEncodeReturns

FreeFrame == WriteH26x \/ SendFree \/ SendFreeReturns

Next ==
    \/ Main \/ NoSuchFile \/ Abort
    \/ EncVideo \/ FreeFrame
    \/ DecodeSet \/ DecodePut \/ EncodeSet \/ EncodePut \/ FreeSet
    \/ CallbackFails

\* Threads that can run do, and the SDK answers.  Main's 40 s need not pass,
\* and no request has to fail.
Fairness ==
    /\ WF_vars(Main) /\ WF_vars(EncVideo) /\ WF_vars(FreeFrame)
    /\ WF_vars(DecodeSet \/ DecodePut)
    /\ WF_vars(EncodeSet \/ EncodePut)
    /\ WF_vars(FreeSet)

Spec == Init /\ [][Next]_vars /\ Fairness

-----------------------------------------------------------------------------
(* Properties *)

\* No request, callback or queued doable, and no doable running but sendEncode()
\* of the last picture, for which there is nothing left to wait.
OnlyReturning ==
    /\ \A s \in {decoder, encoder, freer, encVideo, freeFrame} : s = <<>>
    /\ decCallback = None /\ encCallback = None /\ freeWorker = None
    /\ encWorker # None => encWorker = N /\ (encEvent \/ newcuda)
    /\ ~g_evt

\* When main starts a round or destroys the interfaces (lines 404-421), eos, passed
\* from hand to hand behind all other pictures, is enough of an answer: nothing of
\* the round before has work left.  One doable may still run: sendEncode() of the
\* last picture, which is answered, but whose thread has not come back from
\* execute() or event.wait() (lines 335-341); nobody waits for it.
RoundsApart == (mpc = "send" /\ i = 1) \/ mpc = "ended" => OnlyReturning

\* The file holds the pictures of round 0 in their order, all of them once that
\* round is over, although another thread reads test_round (lines 274-280).
FileInOrder ==
    /\ \A n \in DOMAIN file : file[n] = n
    /\ round > 0 => Len(file) = N

\* A callback sets a local event only while the call that owns it is waiting for
\* that very request (lines 146, 174, 186): never a dead stack frame's, and
\* never for another picture.  A NEWCUDA encoder sets none.
LocalEventsLive ==
    Running =>
    /\ decoder # <<>> => mpc = "decode" /\ ~decEvent /\ decoder = <<i>>
    /\ encoder # <<>> /\ ~newcuda => ~encEvent /\ encoder = <<encWorker>>
    /\ freer # <<>> => ~freeEvent /\ freer = <<freeWorker>>

\* Every round ends, unless a failed CHECK ends the process.
RoundsEnd == <>(mpc \in {"ended", "aborted"})

\* A task contains its output data (vega_interface.h:17-18), so what is written
\* to the file is still held by someone.
WritesHeldData ==
    [][file' # file => owners[file'[Len(file')]] # {}]_vars
=============================================================================
