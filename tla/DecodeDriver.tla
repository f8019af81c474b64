---------------------------- MODULE DecodeDriver ----------------------------
(***************************************************************************)
(* test_src/test_video_decoder.cpp, as built without NEWCUDA, with the     *)
(* list it reads (include/read_image_list.h): rounds in which main sends   *)
(* every packet of the list and an eos to a decoder and counts its         *)
(* callbacks, while two global interfaces fetch and free the frames kept.  *)
(*                                                                         *)
(*   main --execute--> decoder --callback--> fetcher --callback--> freer   *)
(*                                                                         *)
(* Nobody waits for a packet; main waits 60 s for the eos only and goes on *)
(* with the round whether or not it came.  What execute() of the decoder   *)
(* returns is ignored: a request may be refused, and has no callback then. *)
(*                                                                         *)
(* The SDK is external.  It is taken to answer the requests it accepts of  *)
(* one interface in their order, once each, one callback at a time, some   *)
(* with an error (interface_base.h:79-84, 98-107, 133-138), and to return  *)
(* from an interface's destructor only when all that is over.              *)
(***************************************************************************)
EXTENDS Integers, Sequences, FiniteSets

CONSTANTS
    Lists,          \* the lists of files main may be given
    Rounds          \* round

ASSUME ListsAssumption == Lists \subseteq Seq({"h264", "h265", "jpg", "skip", "bad"})
ASSUME RoundsAssumption == Rounds \in Nat \ {0}     \* CHECK at line 74

VARIABLES
    lines, jpegDir, \* the arguments: the list's lines, and whether to keep frames
    mpc,            \* where main is; "aborted" and "miscounted" are failed CHECKs
    round, seq,     \* test_round, and the request of the round that is sent next
    timedOut, refused,      \* history: a wait failed, a request was refused
    live, rcv, g_evt,       \* the locals of a round, and whether they exist
    decoder, decCallback,   \* the decoder's requests, and the one being answered
    fetching, fetched,      \* the fetcher's, as frames
    freeing,                \* the freer's, as frames
    up,             \* which of the global pointers are set
    pool, failed    \* the SDK's frames, and those it refused to fetch or to free

input == <<lines, jpegDir>>
progress == <<round, seq, timedOut, refused>>
main == <<mpc, progress>>
locals == <<live, rcv, g_evt>>
decode == <<decoder, decCallback>>
fetch == <<fetching, fetched>>
frames == <<freeing, pool, failed>>
vars == <<input, main, locals, decode, fetch, frames, up>>

None == 0

-----------------------------------------------------------------------------
(* ReadImageList::read_list(): a line is known by its suffix; blank lines    *)
(* and comments are skipped; the type is the last file's.                    *)

ReadLine_Unchecked(r, line) ==
    IF line = "skip" \/ ~r.ok THEN r ELSE [ok |-> line # "bad", vtype |-> line]

ReadLine(r, line) ==
    IF line = "skip" \/ ~r.ok THEN r
    ELSE [ok |-> line # "bad" /\ (line = "h264" => r.vtype = "h264"), vtype |-> line]

ReadFile(ls) ==
    LET read[i \in 0 .. Len(ls)] ==
            IF i = 0 THEN [ok |-> TRUE, vtype |-> "h264"]
                     ELSE ReadLine(read[i - 1], ls[i])
    IN  read[Len(ls)]

ReadList == ReadFile(lines)

\* The packets of a round; request n + 1 is its eos.
n == Cardinality({i \in DOMAIN lines : lines[i] # "skip"})

NeedFetch == jpegDir /\ round = 0

TypeOK ==
    /\ lines \in Lists /\ jpegDir \in BOOLEAN
    /\ mpc \in {"read", "round", "send", "wait", "reset", "check", "close", "leave",
                "closing", "ended", "aborted", "miscounted"}
    /\ round \in 0 .. Rounds /\ seq \in 1 .. n + 2 /\ rcv \in 0 .. n + 1
    /\ {timedOut, refused, live, g_evt} \subseteq BOOLEAN
    /\ decoder \in Seq([k : 1 .. n + 1, discard : BOOLEAN])
    /\ {fetching, freeing} \subseteq Seq(1 .. n) /\ fetched \in 0 .. n
    /\ up \subseteq {"fetcher", "freer"}
    /\ pool \subseteq 1 .. n /\ failed \subseteq 1 .. n

Init ==
    /\ lines \in Lists /\ jpegDir \in BOOLEAN
    /\ mpc = "read" /\ round = 0 /\ seq = 1 /\ timedOut = FALSE /\ refused = FALSE
    /\ live = FALSE /\ rcv = 0 /\ g_evt = FALSE
    /\ decoder = <<>> /\ decCallback = <<>>
    /\ fetching = <<>> /\ fetched = None /\ freeing = <<>>
    /\ up = {"fetcher", "freer"} /\ pool = {} /\ failed = {}

\* A failed CHECK takes the whole process down.
Running == mpc \notin {"aborted", "miscounted"}

-----------------------------------------------------------------------------
(* The main thread *)

Start ==
    /\ mpc = "read"
    /\ mpc' = IF ReadList.ok /\ n > 0 THEN "round" ELSE "aborted"
    /\ UNCHANGED <<input, progress, locals, decode, fetch, frames, up>>

BeginRound ==
    /\ mpc = "round"
    /\ mpc' = "send" /\ seq' = 1
    /\ live' = TRUE /\ rcv' = 0 /\ g_evt' = FALSE
    /\ UNCHANGED <<input, round, timedOut, refused, decode, fetch, frames, up>>

\* The packets, then eos, accepted or not.
Send ==
    /\ mpc = "send"
    /\ \/ /\ decoder' = Append(decoder, [k |-> seq, discard |-> ~NeedFetch])
          /\ UNCHANGED refused
       \/ refused' = TRUE /\ UNCHANGED decoder
    /\ seq' = seq + 1
    /\ mpc' = IF seq <= n THEN "send" ELSE "wait"
    /\ UNCHANGED <<input, round, timedOut, locals, decCallback, fetch, frames, up>>

\* g_evt.wait() returns: with the event, or after 60 s without it.
Wait ==
    /\ mpc = "wait" /\ g_evt
    /\ mpc' = "reset"
    /\ UNCHANGED <<input, progress, locals, decode, fetch, frames, up>>

TimeOut_Endless ==
    /\ mpc = "wait" /\ ~g_evt /\ FALSE
    /\ mpc' = "reset" /\ timedOut' = TRUE
    /\ UNCHANGED <<input, round, seq, refused, locals, decode, fetch, frames, up>>

TimeOut ==
    /\ mpc = "wait" /\ ~g_evt
    /\ mpc' = "reset" /\ timedOut' = TRUE
    /\ UNCHANGED <<input, round, seq, refused, locals, decode, fetch, frames, up>>

Reset ==
    /\ mpc = "reset"
    /\ g_evt' = FALSE /\ mpc' = "check"
    /\ UNCHANGED <<input, progress, live, rcv, decode, fetch, frames, up>>

Check_LocalsFirst ==
    /\ mpc = "check"
    /\ IF rcv = n + 1 THEN mpc' = "close" /\ live' = FALSE
                      ELSE mpc' = "miscounted" /\ live' = live
    /\ UNCHANGED <<input, progress, rcv, g_evt, decode, fetch, frames, up>>

Check ==
    /\ mpc = "check"
    /\ mpc' = IF rcv = n + 1 THEN "close" ELSE "miscounted"
    /\ UNCHANGED <<input, progress, locals, decode, fetch, frames, up>>

\* The end of the scope: decoder was declared last and goes first.
Close ==
    /\ mpc = "close" /\ decoder = <<>> /\ decCallback = <<>>
    /\ mpc' = "leave"
    /\ UNCHANGED <<input, progress, locals, decode, fetch, frames, up>>

Leave ==
    /\ mpc = "leave"
    /\ live' = FALSE
    /\ round' = round + 1
    /\ mpc' = IF round + 1 < Rounds THEN "round" ELSE "closing"
    /\ UNCHANGED <<input, seq, timedOut, refused, rcv, g_evt, decode, fetch, frames, up>>

Closing_FreerFirst == <<"freer", "fetcher">>

Closing == <<"fetcher", "freer">>

Drained(x) == IF x = "fetcher" THEN fetching = <<>> /\ fetched = None
                               ELSE freeing = <<>>

\* fetcher.reset(), freer.reset(): the pointer is null before the destructor
\* that it calls has come back, and the next reset() comes after that.
ResetPointer ==
    /\ mpc = "closing"
    /\ \E i \in DOMAIN Closing :
          /\ Closing[i] \in up
          /\ \A j \in 1 .. i - 1 : Closing[j] \notin up /\ Drained(Closing[j])
          /\ up' = up \ {Closing[i]}
    /\ UNCHANGED <<input, main, locals, decode, fetch, frames>>

\* SDKDestroy()
Destroy ==
    /\ mpc = "closing" /\ up = {} /\ Drained("fetcher") /\ Drained("freer")
    /\ mpc' = "ended"
    /\ UNCHANGED <<input, progress, locals, decode, fetch, frames, up>>

-----------------------------------------------------------------------------
(* The callbacks *)

\* A kept frame is in the SDK's pool when the callback is told of it.
Keeps(r, ok) == ok /\ r.k <= n /\ ~r.discard

\* fetchFrame() and deleteFrame() do nothing once the pointer is null.
FetchFrame(k) == IF "fetcher" \in up THEN Append(fetching, k) ELSE fetching

DeleteFrame(k) == IF "freer" \in up THEN Append(freeing, k) ELSE freeing

Decoded_CountsOk ==
    /\ Running /\ decoder # <<>> /\ decCallback = <<>>
    /\ \E ok \in BOOLEAN :
          /\ decCallback' = <<Head(decoder), ok>>
          /\ rcv' = IF ok THEN rcv + 1 ELSE rcv
          /\ pool' = IF Keeps(Head(decoder), ok) THEN pool \cup {Head(decoder).k} ELSE pool
    /\ decoder' = Tail(decoder)
    /\ UNCHANGED <<input, main, live, g_evt, fetch, freeing, failed, up>>

Decoded ==
    /\ Running /\ decoder # <<>> /\ decCallback = <<>>
    /\ \E ok \in BOOLEAN :
          /\ decCallback' = <<Head(decoder), ok>>
          /\ pool' = IF Keeps(Head(decoder), ok) THEN pool \cup {Head(decoder).k} ELSE pool
    /\ decoder' = Tail(decoder)
    /\ rcv' = rcv + 1
    /\ UNCHANGED <<input, main, live, g_evt, fetch, freeing, failed, up>>

\* eos is answered by the event, also when it failed; a kept frame is fetched.
DecodeReturns ==
    /\ Running /\ decCallback # <<>>
    /\ LET r == decCallback[1]
           ok == decCallback[2]
       IN  /\ g_evt' = (g_evt \/ r.k = n + 1)
           /\ fetching' = IF Keeps(r, ok) THEN FetchFrame(r.k) ELSE fetching
    /\ decCallback' = <<>>
    /\ UNCHANGED <<input, main, live, rcv, decoder, fetched, frames, up>>

Fetched ==
    /\ Running /\ fetching # <<>> /\ fetched = None
    /\ \/ fetched' = Head(fetching) /\ UNCHANGED failed
       \/ failed' = failed \cup {Head(fetching)} /\ UNCHANGED fetched
    /\ fetching' = Tail(fetching)
    /\ UNCHANGED <<input, main, locals, decode, freeing, pool, up>>

\* The picture is written.
FetchReturns ==
    /\ Running /\ fetched # None
    /\ freeing' = DeleteFrame(fetched)
    /\ fetched' = None
    /\ UNCHANGED <<input, main, locals, decode, fetching, pool, failed, up>>

Freed ==
    /\ Running /\ freeing # <<>>
    /\ \/ pool' = pool \ {Head(freeing)} /\ UNCHANGED failed
       \/ failed' = failed \cup {Head(freeing)} /\ UNCHANGED pool
    /\ freeing' = Tail(freeing)
    /\ UNCHANGED <<input, main, locals, decode, fetch, up>>

\* The decoder cannot be created, a packet's file is missing, a picture cannot be
\* written, or execute() of the fetcher or the freer refuses.
Dies ==
    /\ \/ mpc = "round"
       \/ mpc = "send" /\ seq <= n
       \/ Running /\ decCallback # <<>> /\ Keeps(decCallback[1], decCallback[2])
       \/ Running /\ fetched # None
    /\ mpc' = "aborted"
    /\ UNCHANGED <<input, progress, locals, decode, fetch, frames, up>>

-----------------------------------------------------------------------------
Main ==
    \/ Start \/ BeginRound \/ Send \/ Wait \/ Reset \/ Check \/ Close \/ Leave
    \/ ResetPointer \/ Destroy

Next ==
    \/ Main \/ TimeOut
    \/ Decoded \/ DecodeReturns \/ Fetched \/ FetchReturns \/ Freed
    \/ Dies

\* Main goes on, 60 s pass if nothing else ends the wait, and the SDK answers
\* what it accepted; nothing has to fail.
Fairness ==
    /\ WF_vars(Main \/ TimeOut)
    /\ WF_vars(Decoded \/ DecodeReturns)
    /\ WF_vars(Fetched \/ FetchReturns) /\ WF_vars(Freed)

Spec == Init /\ [][Next]_vars /\ Fairness

-----------------------------------------------------------------------------
(* Properties *)

\* A callback counts into rcv and sets g_evt only while they exist, also after a
\* wait that timed out: the decoder is destroyed first (lines 120-122, 208-219).
LocalsOutliveCallbacks == decoder # <<>> \/ decCallback # <<>> => live

\* The CHECK on the number of callbacks (line 213) fails only after a time-out
\* or a refusal: eos, which is answered last, vouches for all packets accepted,
\* also for those that failed.
CountComplete == mpc = "miscounted" => timedOut \/ refused

\* When the SDK is destroyed its pool holds no frame but those it refused to
\* fetch or to free: no fetch answered late finds freer gone (lines 221-224).
FramesFreed == mpc = "ended" => pool \subseteq failed

\* A list decoded as h264 holds nothing else (read_image_list.h:86-98), though
\* only h264 files look at the type found so far.
PureH264 ==
    mpc \notin {"read", "aborted"} /\ ReadList.vtype = "h264" =>
        \A i \in DOMAIN lines : lines[i] \in {"h264", "skip"}

\* Every round ends, unless a failed CHECK ends the process: also when eos was
\* refused and nobody will ever set g_evt.
RoundsEnd == <>(mpc \in {"ended", "aborted", "miscounted"})
=============================================================================
