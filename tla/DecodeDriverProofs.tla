-------------------------- MODULE DecodeDriverProofs --------------------------
(***************************************************************************)
(* Proofs about the video decoder driver, for any lists of files and any   *)
(* number of rounds.  Why one event is enough to count n + 1 callbacks:    *)
(* eos is the last request of a round, so when it has been answered none   *)
(* is left, and each accepted request is either waiting or counted.        *)
(*                                                                         *)
(* What read_list() returns is proved by induction over the lines.  The    *)
(* induction theorems of the library take the formula as a parameter,      *)
(* which the provers cannot instantiate; InductionOnSet takes the set of the *)
(* numbers that satisfy it, and rests on the well-foundedness of <.        *)
(***************************************************************************)
EXTENDS DecodeDriver, SequencesExt, FiniteSetTheorems, SequenceTheorems,
        WellFoundedInduction, TLAPS

Positive == Nat \ {0}

Requests == [k : Positive, discard : BOOLEAN]

Types ==
    /\ lines \in Lists
    /\ seq \in Positive /\ rcv \in Nat
    /\ decoder \in Seq(Requests)
    /\ decCallback = <<>> \/ decCallback \in Requests \X BOOLEAN
    /\ fetching \in Seq(Positive) /\ fetched \in Nat /\ freeing \in Seq(Positive)

\* A round's locals exist from its first line to its last, and its decoder has
\* nothing left when they go.
Scope ==
    /\ mpc \in {"send", "wait", "reset", "check", "close", "leave"} => live
    /\ decoder # <<>> \/ decCallback # <<>> =>
          live /\ mpc \notin {"read", "round", "leave", "closing", "ended"}

InRound == mpc \in {"send", "wait", "reset", "check"}

\* Before the count is checked, each accepted request is waiting or counted.
Counted ==
    /\ InRound /\ ~refused => rcv + Len(decoder) = seq - 1
    /\ mpc = "send" => seq <= n + 1
    /\ mpc \in {"wait", "reset", "check"} => seq = n + 2

\* Once eos is with its callback, no request is left.
EosLast ==
    /\ \A j \in DOMAIN decoder :
          decoder[j].k = n + 1 => j = Len(decoder) /\ seq = n + 2
    /\ decCallback # <<>> /\ decCallback[1].k = n + 1 =>
          decoder = <<>> /\ seq = n + 2
    /\ mpc \in {"send", "wait"} /\ g_evt => decoder = <<>> /\ seq = n + 2
    /\ mpc \in {"reset", "check"} /\ ~timedOut => decoder = <<>>

IInv == Types /\ Scope /\ Counted /\ EosLast /\ CountComplete

LEMMA PacketsCounted == ASSUME lines \in Lists PROVE n \in Nat
<1> DEFINE files == {i \in DOMAIN lines : lines[i] # "skip"}
<1>1. lines \in Seq({"h264", "h265", "jpg", "skip", "bad"})
    BY ListsAssumption
<1>2. DOMAIN lines = 1 .. Len(lines) /\ Len(lines) \in Nat
    BY <1>1
<1>3. IsFiniteSet(DOMAIN lines)
    BY <1>2, FS_Interval
<1>4. IsFiniteSet(files)
    BY <1>3, FS_Subset
<1> QED
    BY <1>4, FS_CardinalityType DEF n

LEMMA InitIInv == Init => IInv
BY DEF Init, IInv, Positive, Types, Scope, Counted, EosLast, InRound, CountComplete, None

\* The main thread, with its time-out.
LEMMA MainKeeps ==
    ASSUME IInv, Main \/ TimeOut
    PROVE  IInv'
<1>1. n \in Nat /\ n' = n /\ lines' = lines
    BY PacketsCounted
       DEF n, IInv, Types, Main, TimeOut, Start, BeginRound, Send, Wait, Reset, Check,
           Close, Leave, ResetPointer, Destroy, input
<1>2. CASE Start
    BY <1>1, <1>2 DEF Start, IInv, Types, Positive, Scope, Counted, EosLast, InRound, CountComplete,
                 progress, locals, decode, fetch, frames
<1>3. CASE BeginRound
    BY <1>1, <1>3 DEF BeginRound, IInv, Types, Positive, Scope, Counted, EosLast, InRound,
                 CountComplete, decode, fetch, frames
<1>4. CASE Send
    <2>1. CASE decoder' = Append(decoder, [k |-> seq, discard |-> ~NeedFetch]) /\ refused' = refused
        <3> DEFINE r == [k |-> seq, discard |-> ~NeedFetch]
        <3>1. r \in Requests /\ r.k = seq
            BY DEF IInv, Types, Positive, Requests, NeedFetch
        <3> HIDE DEF r
        <3>2. /\ decoder' \in Seq(Requests) /\ Len(decoder') = Len(decoder) + 1
              /\ \A j \in DOMAIN decoder' :
                    decoder'[j] = IF j = Len(decoder') THEN r ELSE decoder[j]
              /\ \A j \in DOMAIN decoder' : j # Len(decoder') => j \in DOMAIN decoder
            BY <2>1, <3>1 DEF IInv, Types, r
        <3>3. Types' /\ Scope'
            BY <1>1, <1>4, <3>2 DEF Send, IInv, Types, Positive, Scope, locals, fetch, frames
        <3>4. Counted' /\ CountComplete'
            BY <1>1, <1>4, <2>1, <3>2
               DEF Send, IInv, Types, Positive, Counted, InRound, CountComplete, locals
        <3>5. EosLast'
            BY <1>1, <1>4, <2>1, <3>1, <3>2
               DEF Send, IInv, Types, Positive, Scope, Counted, EosLast, locals
        <3> QED
            BY <3>3, <3>4, <3>5 DEF IInv
    <2>2. CASE decoder' = decoder /\ refused' = TRUE
        <3>1. Types' /\ Scope' /\ Counted' /\ CountComplete'
            BY <1>1, <1>4, <2>2
               DEF Send, IInv, Types, Positive, Scope, Counted, InRound, CountComplete,
                   locals, fetch, frames
        <3>2. EosLast'
            BY <1>1, <1>4, <2>2 DEF Send, IInv, Types, Positive, Scope, Counted, EosLast, locals
        <3> QED
            BY <3>1, <3>2 DEF IInv
    <2> QED
        BY <1>4, <2>1, <2>2 DEF Send
<1>5. CASE Wait \/ TimeOut
    BY <1>1, <1>5 DEF Wait, TimeOut, IInv, Types, Positive, Scope, Counted, EosLast, InRound,
                      CountComplete, progress, locals, decode, fetch, frames
<1>6. CASE Reset
    BY <1>1, <1>6 DEF Reset, IInv, Types, Positive, Scope, Counted, EosLast, InRound,
                      CountComplete, progress, decode, fetch, frames
<1>7. CASE Check
    BY <1>1, <1>7 DEF Check, IInv, Types, Positive, Scope, Counted, EosLast, InRound,
                      CountComplete, progress, locals, decode, fetch, frames
<1>8. CASE Close \/ Leave
    BY <1>1, <1>8 DEF Close, Leave, IInv, Types, Positive, Scope, Counted, EosLast, InRound,
                      CountComplete, progress, locals, decode, fetch, frames
<1>9. CASE ResetPointer \/ Destroy
    BY <1>1, <1>9 DEF ResetPointer, Destroy, IInv, Types, Positive, Scope, Counted, EosLast, InRound,
                      CountComplete, main, progress, locals, decode, fetch, frames
<1> QED
    BY <1>2, <1>3, <1>4, <1>5, <1>6, <1>7, <1>8, <1>9 DEF Main

\* The decoder's callback: the request taken is counted at once.
LEMMA DecoderKeeps ==
    ASSUME IInv, Decoded \/ DecodeReturns
    PROVE  IInv'
<1>1. n \in Nat /\ n' = n /\ lines' = lines
    BY PacketsCounted DEF n, IInv, Types, Decoded, DecodeReturns, input
<1>2. CASE Decoded
    <2>1. /\ decoder # <<>> /\ Head(decoder) = decoder[1] /\ decoder[1] \in Requests
          /\ decoder' \in Seq(Requests) /\ Len(decoder') = Len(decoder) - 1
          /\ \A j \in DOMAIN decoder' :
                j + 1 \in DOMAIN decoder /\ decoder'[j] = decoder[j + 1]
          /\ decoder' = <<>> <=> Len(decoder) = 1
        <3>1. decoder # <<>> /\ decoder' = Tail(decoder) /\ decoder \in Seq(Requests)
            BY <1>2 DEF Decoded, IInv, Types
        <3>2. Len(decoder) \in Nat \ {0} /\ DOMAIN decoder = 1 .. Len(decoder)
            BY <3>1
        <3>3. decoder' \in Seq(Requests) /\ Len(decoder') = Len(decoder) - 1
            BY <3>1, <3>2
        <3>4. \A j \in 1 .. Len(decoder) - 1 : decoder'[j] = decoder[j + 1]
            BY <3>1, <3>2
        <3>5. DOMAIN decoder' = 1 .. Len(decoder) - 1
            BY <3>2, <3>3
        <3>6. decoder' = <<>> <=> Len(decoder) = 1
            <4>1. decoder' # <<>> => Len(decoder') \in Nat \ {0}
                BY <3>3, EmptySeq
            <4>2. decoder' = <<>> => Len(decoder') = 0
                OBVIOUS
            <4> QED
                BY <4>1, <4>2, <3>2, <3>3
        <3>7. decoder[1] \in Requests
            BY <3>1, <3>2
        <3> QED
            BY <3>1, <3>2, <3>3, <3>4, <3>5, <3>6, <3>7
    <2>2. PICK ok \in BOOLEAN : decCallback' = <<decoder[1], ok>>
        BY <1>2, <2>1 DEF Decoded
    <2>3. decCallback' \in Requests \X BOOLEAN /\ decCallback'[1] = decoder[1]
        BY <2>1, <2>2
    <2>4. Types' /\ Scope'
        BY <1>1, <1>2, <2>1, <2>3 DEF Decoded, IInv, Types, Positive, Scope, main, progress, fetch
    <2>5. Counted' /\ CountComplete'
        BY <1>1, <1>2, <2>1
           DEF Decoded, IInv, Types, Counted, InRound, CountComplete, main, progress
    <2>6. 1 \in DOMAIN decoder /\ (decoder[1].k = n + 1 => Len(decoder) = 1 /\ seq = n + 2)
        BY <2>1 DEF IInv, Types, EosLast
    <2>7. EosLast'
        BY <1>1, <1>2, <2>1, <2>3, <2>6 DEF Decoded, IInv, Types, EosLast, main, progress
    <2> QED
        BY <2>4, <2>5, <2>7 DEF IInv
<1>3. CASE DecodeReturns
    <2>1. /\ decCallback # <<>> /\ decCallback \in Requests \X BOOLEAN
          /\ decCallback' = <<>> /\ decoder' = decoder
          /\ UNCHANGED <<mpc, progress, live, rcv, freeing>>
          /\ g_evt' => g_evt \/ decCallback[1].k = n + 1
        BY <1>3 DEF DecodeReturns, IInv, Types, main, frames
    <2>2. fetching' \in Seq(Positive) /\ fetched' = fetched
        BY <1>3, <2>1 DEF DecodeReturns, FetchFrame, IInv, Types, Requests
    <2> QED
        BY <1>1, <2>1, <2>2
           DEF IInv, Types, Positive, Scope, Counted, EosLast, InRound, CountComplete, progress
<1> QED
    BY <1>2, <1>3

\* The other interfaces, and a CHECK that fails anywhere.
LEMMA OthersKeep ==
    ASSUME IInv, Fetched \/ FetchReturns \/ Freed \/ Dies
    PROVE  IInv'
<1>1. n' = n /\ lines' = lines
    BY DEF n, Fetched, FetchReturns, Freed, Dies, input
<1>2. UNCHANGED <<progress, locals, decode>> /\ mpc' \in {mpc, "aborted"}
    BY DEF Fetched, FetchReturns, Freed, Dies, main
<1>3. fetching' \in Seq(Positive) /\ fetched' \in Nat /\ freeing' \in Seq(Positive)
    <2>1. fetching \in Seq(Positive) /\ fetched \in Nat /\ freeing \in Seq(Positive)
        BY DEF IInv, Types
    <2>2. CASE Fetched
        <3>1. /\ fetching # <<>> /\ fetching' = Tail(fetching) /\ freeing' = freeing
              /\ fetched' = Head(fetching) \/ fetched' = fetched
            BY <2>2 DEF Fetched, frames
        <3> QED
            BY <2>1, <3>1 DEF Positive
    <2>3. CASE FetchReturns
        BY <2>1, <2>3 DEF FetchReturns, DeleteFrame, None, Positive
    <2>4. CASE Freed
        BY <2>1, <2>4 DEF Freed, fetch
    <2>5. CASE Dies
        BY <2>1, <2>5 DEF Dies, fetch, frames
    <2> QED
        BY <2>2, <2>3, <2>4, <2>5
<1> QED
    BY <1>1, <1>2, <1>3
       DEF IInv, Types, Positive, Scope, Counted, EosLast, InRound, CountComplete,
           progress, locals, decode

LEMMA StepIInv == IInv /\ [Next]_vars => IInv'
<1>1. IInv /\ Next => IInv'
    BY MainKeeps, DecoderKeeps, OthersKeep DEF Next
<1>2. IInv /\ UNCHANGED vars => IInv'
    BY DEF vars, input, main, progress, locals, decode, fetch, frames, n,
           IInv, Types, Positive, Scope, Counted, EosLast, InRound, CountComplete
<1> QED
    BY <1>1, <1>2

LEMMA Invariance == Spec => []IInv
BY InitIInv, StepIInv, PTL DEF Spec

-----------------------------------------------------------------------------
(* Every frame in the pool is on its way to be freed, or was refused; freer  *)
(* goes when nothing can come to it any more.                                *)

OnItsWay(k) ==
    \/ decCallback # <<>> /\ Keeps(decCallback[1], decCallback[2]) /\ decCallback[1].k = k
    \/ k \in ToSet(fetching) \/ k = fetched \/ k \in ToSet(freeing)

FramesInv ==
    /\ pool \subseteq Positive
    /\ \A k \in pool : k \in failed \/ OnItsWay(k)
    /\ mpc \notin {"closing", "ended", "aborted", "miscounted"} => up = {"fetcher", "freer"}
    /\ "freer" \notin up => "fetcher" \notin up /\ fetching = <<>> /\ fetched = None
    /\ mpc = "ended" => fetching = <<>> /\ fetched = None /\ freeing = <<>>

LEMMA FramesInit == Init => FramesInv
BY DEF Init, FramesInv

LEMMA TakeHead ==
    ASSUME NEW S, NEW s \in Seq(S), s # <<>>
    PROVE  ToSet(s) = {Head(s)} \cup ToSet(Tail(s)) /\ Head(s) \in S
<1>1. Len(s) \in Nat \ {0} /\ DOMAIN s = 1 .. Len(s)
    BY EmptySeq
<1>2. Head(s) = s[1] /\ Tail(s) \in Seq(S) /\ Len(Tail(s)) = Len(s) - 1
    BY <1>1
<1>3. DOMAIN Tail(s) = 1 .. Len(s) - 1
    BY <1>1, <1>2
<1>4. \A j \in 1 .. Len(s) - 1 : Tail(s)[j] = s[j + 1]
    BY <1>1
<1>5. ToSet(s) \subseteq {Head(s)} \cup ToSet(Tail(s))
    <2> SUFFICES ASSUME NEW j \in DOMAIN s, j # 1 PROVE s[j] \in ToSet(Tail(s))
        BY <1>2 DEF ToSet
    <2>1. j - 1 \in DOMAIN Tail(s) /\ Tail(s)[j - 1] = s[j]
        BY <1>1, <1>3, <1>4
    <2> QED
        BY <2>1 DEF ToSet
<1>6. {Head(s)} \cup ToSet(Tail(s)) \subseteq ToSet(s)
    <2>1. \A j \in DOMAIN Tail(s) : Tail(s)[j] = s[j + 1] /\ j + 1 \in DOMAIN s
        BY <1>1, <1>3, <1>4
    <2>2. 1 \in DOMAIN s
        BY <1>1
    <2> QED
        BY <1>2, <2>1, <2>2 DEF ToSet
<1> QED
    BY <1>1, <1>2, <1>5, <1>6

LEMMA AppendOne ==
    ASSUME NEW S, NEW s \in Seq(S), NEW e \in S
    PROVE  ToSet(Append(s, e)) = ToSet(s) \cup {e}
<1>1. DOMAIN Append(s, e) = 1 .. Len(s) + 1 /\ DOMAIN s = 1 .. Len(s) /\ Len(s) \in Nat
    OBVIOUS
<1>2. /\ \A j \in 1 .. Len(s) : Append(s, e)[j] = s[j]
      /\ Append(s, e)[Len(s) + 1] = e
    OBVIOUS
<1> QED
    BY <1>1, <1>2 DEF ToSet

LEMMA FramesStep == IInv /\ FramesInv /\ [Next]_vars => FramesInv'
<1> SUFFICES ASSUME IInv, FramesInv, [Next]_vars PROVE FramesInv'
    OBVIOUS
<1>1. n' = n
    BY DEF n, Next, vars, Main, TimeOut, Start, BeginRound, Send, Wait, Reset, Check,
           Close, Leave, ResetPointer, Destroy, Decoded, DecodeReturns, Fetched,
           FetchReturns, Freed, Dies, input
<1>2. CASE \/ Start \/ BeginRound \/ Send \/ Wait \/ TimeOut \/ Reset \/ Check
           \/ Close \/ Leave \/ UNCHANGED vars
    <2>1. /\ UNCHANGED <<decCallback, fetch, frames, up>>
          /\ mpc' # "ended" \/ mpc' = mpc
          /\ mpc \in {"closing", "ended", "aborted", "miscounted"} => mpc' = mpc
        BY <1>2 DEF Start, BeginRound, Send, Wait, TimeOut, Reset, Check, Close, Leave,
                    vars, main, decode, fetch, frames
    <2> QED
        BY <1>1, <2>1 DEF FramesInv, OnItsWay, Keeps, fetch, frames
<1>3. CASE ResetPointer \/ Destroy
    <2>1. UNCHANGED <<decCallback, fetch, frames>> /\ mpc = "closing"
        BY <1>3 DEF ResetPointer, Destroy, main, decode
    <2>2. \A k \in pool' : k \in failed' \/ OnItsWay(k)'
        BY <1>1, <2>1 DEF FramesInv, OnItsWay, Keeps, fetch, frames
    <2>3. CASE ResetPointer
        <3>1. "freer" \notin up' => "fetcher" \notin up' /\ fetching = <<>> /\ fetched = None
            BY <2>3 DEF ResetPointer, Closing, Drained, FramesInv
        <3> QED
            BY <2>1, <2>2, <2>3, <3>1 DEF ResetPointer, FramesInv, main, fetch, frames
    <2>4. CASE Destroy
        BY <2>1, <2>2, <2>4 DEF Destroy, Drained, FramesInv, fetch, frames
    <2> QED
        BY <1>3, <2>3, <2>4
<1>4. CASE Decoded
    <2>1. PICK ok \in BOOLEAN :
              /\ decCallback' = <<Head(decoder), ok>>
              /\ pool' = IF Keeps(Head(decoder), ok) THEN pool \cup {Head(decoder).k} ELSE pool
        BY <1>4 DEF Decoded
    <2>2. decCallback = <<>> /\ UNCHANGED <<mpc, fetch, freeing, failed, up>>
        BY <1>4 DEF Decoded, main
    <2>3. Head(decoder) \in Requests
        BY <1>4, TakeHead DEF Decoded, IInv, Types
    <2>4. /\ decCallback' # <<>> /\ decCallback'[1] = Head(decoder)
          /\ decCallback'[2] = ok
        BY <2>1
    <2>5. \A k \in pool' : k \in failed' \/ OnItsWay(k)'
        BY <1>1, <2>1, <2>2, <2>4 DEF FramesInv, OnItsWay, Keeps, fetch
    <2> QED
        BY <2>1, <2>2, <2>3, <2>5 DEF FramesInv, Requests, fetch
<1>5. CASE DecodeReturns
    <2>1. /\ decCallback # <<>> /\ Running /\ decCallback \in Requests \X BOOLEAN
          /\ decCallback' = <<>>
          /\ UNCHANGED <<mpc, fetched, freeing, pool, failed, up>>
        BY <1>5 DEF DecodeReturns, main, frames, IInv, Types
    <2>2. up = {"fetcher", "freer"} /\ mpc # "ended"
        BY <2>1 DEF Running, IInv, Scope, FramesInv
    <2>3. fetching' = IF Keeps(decCallback[1], decCallback[2])
                      THEN Append(fetching, decCallback[1].k) ELSE fetching
        BY <1>5, <2>2 DEF DecodeReturns, FetchFrame
    <2>4. ToSet(fetching') = IF Keeps(decCallback[1], decCallback[2])
                             THEN ToSet(fetching) \cup {decCallback[1].k} ELSE ToSet(fetching)
        <3>1. decCallback[1].k \in Positive /\ fetching \in Seq(Positive)
            BY <2>1 DEF IInv, Types, Requests
        <3>2. ToSet(Append(fetching, decCallback[1].k)) =
                  ToSet(fetching) \cup {decCallback[1].k}
            BY <3>1, AppendOne
        <3> QED
            BY <2>3, <3>2
    <2> QED
        BY <2>1, <2>2, <2>4 DEF FramesInv, OnItsWay
<1>6. CASE Fetched
    <2>1. /\ fetching # <<>> /\ fetched = None /\ fetching' = Tail(fetching)
          /\ \/ fetched' = Head(fetching) /\ failed' = failed
             \/ failed' = failed \cup {Head(fetching)} /\ fetched' = fetched
          /\ UNCHANGED <<mpc, decCallback, freeing, pool, up>>
        BY <1>6 DEF Fetched, main, decode
    <2>2. ToSet(fetching) = {Head(fetching)} \cup ToSet(Tail(fetching))
        BY <2>1, TakeHead DEF IInv, Types
    <2>3. \A k \in pool' : k \in failed' \/ OnItsWay(k)'
        BY <1>1, <2>1, <2>2 DEF FramesInv, OnItsWay, Keeps, Positive, None
    <2> QED
        BY <2>1, <2>3 DEF FramesInv
<1>7. CASE FetchReturns
    <2>1. /\ fetched # None /\ fetched' = None
          /\ UNCHANGED <<mpc, decCallback, fetching, pool, failed, up>>
        BY <1>7 DEF FetchReturns, main, decode
    <2>2. freeing' = Append(freeing, fetched) /\ mpc # "ended" /\ fetched \in Positive
        BY <1>7, <2>1 DEF FetchReturns, DeleteFrame, FramesInv, IInv, Types, Positive, None
    <2>3. ToSet(freeing') = ToSet(freeing) \cup {fetched}
        BY <2>2, AppendOne DEF IInv, Types
    <2> QED
        BY <1>1, <2>1, <2>2, <2>3 DEF FramesInv, OnItsWay, Keeps
<1>8. CASE Freed
    <2>1. /\ freeing # <<>> /\ freeing' = Tail(freeing)
          /\ \/ pool' = pool \ {Head(freeing)} /\ failed' = failed
             \/ failed' = failed \cup {Head(freeing)} /\ pool' = pool
          /\ UNCHANGED <<mpc, decCallback, fetch, up>>
        BY <1>8 DEF Freed, main, decode
    <2>2. ToSet(freeing) = {Head(freeing)} \cup ToSet(Tail(freeing))
        BY <2>1, TakeHead DEF IInv, Types
    <2> QED
        BY <1>1, <2>1, <2>2 DEF FramesInv, OnItsWay, Keeps, fetch
<1>9. CASE Dies
    <2>1. UNCHANGED <<decCallback, fetch, frames, up>> /\ mpc' = "aborted"
        BY <1>9 DEF Dies, decode
    <2> QED
        BY <1>1, <2>1 DEF FramesInv, OnItsWay, Keeps, fetch, frames
<1> QED
    BY <1>2, <1>3, <1>4, <1>5, <1>6, <1>7, <1>8, <1>9 DEF Next, Main

-----------------------------------------------------------------------------
(* read_list() *)

LEMMA InductionOnSet ==
    ASSUME NEW T \in SUBSET Nat, 0 \in T, \A i \in T : i + 1 \in T
    PROVE  T = Nat
<1> DEFINE Less == {p \in Nat \X Nat : p[1] < p[2]}
           Rest == Nat \ T
<1> SUFFICES ASSUME T # Nat PROVE FALSE
    OBVIOUS
<1>0. Rest # {}
    OBVIOUS
<1>1. PICK x \in Rest : \A y \in Rest : <<y, x>> \notin Less
    <2>1. Rest \subseteq Nat
        OBVIOUS
    <2> HIDE DEF Rest, Less
    <2>2. IsWellFoundedOn(Less, Nat)
        BY NatLessThanWellFounded DEF Less, OpToRel
    <2> QED
        BY <1>0, <2>1, <2>2, WFMin
<1>2. x \in Nat /\ x # 0 /\ \A y \in Rest : ~(y < x)
    BY <1>1
<1>3. x - 1 \in T
    BY <1>2
<1>4. (x - 1) + 1 \in T
    BY <1>3
<1> QED
    BY <1>2, <1>4

Empty == [ok |-> TRUE, vtype |-> "h264"]

\* g[i] is what has been read after i lines, for i up to k.
Reads(g, ls, k) ==
    g = [i \in 0 .. k |-> IF i = 0 THEN Empty ELSE ReadLine(g[i - 1], ls[i])]

\* The recursion of ReadFile defines something.
LEMMA ReadsExists == \A ls : \A k \in Nat : \E g : Reads(g, ls, k)
<1> SUFFICES ASSUME NEW ls PROVE \A k \in Nat : \E g : Reads(g, ls, k)
    OBVIOUS
<1> DEFINE T == {k \in Nat : \E g : Reads(g, ls, k)}
<1>1. 0 \in T
    <2>1. Reads([i \in 0 .. 0 |-> Empty], ls, 0)
        BY DEF Reads
    <2> QED
        BY <2>1
<1>2. ASSUME NEW k \in T PROVE k + 1 \in T
    <2>1. PICK g : Reads(g, ls, k)
        OBVIOUS
    <2> DEFINE h == [i \in 0 .. k + 1 |->
                        IF i = 0 THEN Empty ELSE ReadLine(g[i - 1], ls[i])]
    <2>2. \A i \in 0 .. k : h[i] = g[i]
        <3>1. \A i \in 0 .. k :
                g[i] = IF i = 0 THEN Empty ELSE ReadLine(g[i - 1], ls[i])
            BY <2>1 DEF Reads
        <3>2. \A i \in 0 .. k : i \in 0 .. k + 1
            OBVIOUS
        <3> QED
            BY <3>1, <3>2
    <2>3. \A i \in 0 .. k + 1 : i # 0 => h[i - 1] = g[i - 1]
        <3>1. \A i \in 0 .. k + 1 : i # 0 => i - 1 \in 0 .. k
            OBVIOUS
        <3> HIDE DEF h
        <3> QED
            BY <2>2, <3>1
    <2>4. h = [i \in 0 .. k + 1 |->
                  IF i = 0 THEN Empty ELSE ReadLine(h[i - 1], ls[i])]
        <3> DEFINE e == [i \in 0 .. k + 1 |->
                            IF i = 0 THEN Empty ELSE ReadLine(h[i - 1], ls[i])]
        <3>1. \A i \in 0 .. k + 1 : h[i] = e[i]
            BY <2>3
        <3> QED
            BY <3>1
    <2>5. Reads(h, ls, k + 1)
        BY <2>4 DEF Reads
    <2> QED
        BY <2>5
<1>3. T = Nat
    <2>1. T \in SUBSET Nat /\ \A k \in T : k + 1 \in T
        BY <1>2
    <2> HIDE DEF T
    <2> QED
        BY <1>1, <2>1, InductionOnSet
<1> QED
    BY <1>3

LEMMA ReadFileReads ==
    ASSUME NEW ls, Len(ls) \in Nat
    PROVE  \E g : Reads(g, ls, Len(ls)) /\ ReadFile(ls) = g[Len(ls)]
<1>1. PICK f : Reads(f, ls, Len(ls))
    BY ReadsExists
<1> DEFINE g == CHOOSE g : Reads(g, ls, Len(ls))
<1>2. Reads(g, ls, Len(ls))
    BY <1>1
<1>3. ReadFile(ls) = g[Len(ls)]
    BY DEF ReadFile, Reads, Empty
<1> QED
    BY <1>2, <1>3

\* What is read as h264 is h264, line by line.
LEMMA PureFile ==
    ASSUME NEW ls, Len(ls) \in Nat,
           ReadFile(ls).ok, ReadFile(ls).vtype = "h264"
    PROVE  \A j \in 1 .. Len(ls) : ls[j] \in {"h264", "skip"}
<1>1. PICK g : Reads(g, ls, Len(ls)) /\ ReadFile(ls) = g[Len(ls)]
    BY ReadFileReads
<1> DEFINE Pure(k) == g[k].ok /\ g[k].vtype = "h264" =>
                          \A j \in 1 .. k : ls[j] \in {"h264", "skip"}
           T == {k \in Nat : k <= Len(ls) => Pure(k)}
<1>2. 0 \in T
    OBVIOUS
<1>3. ASSUME NEW k \in T PROVE k + 1 \in T
    <2> SUFFICES ASSUME k + 1 <= Len(ls), g[k + 1].ok, g[k + 1].vtype = "h264"
                 PROVE  \A j \in 1 .. k + 1 : ls[j] \in {"h264", "skip"}
        OBVIOUS
    <2>1. k + 1 \in 0 .. Len(ls) /\ k \in Nat /\ (k + 1) - 1 = k /\ k + 1 # 0
        OBVIOUS
    <2>2. g[k + 1] = ReadLine(g[k], ls[k + 1])
        BY <1>1, <2>1 DEF Reads
    <2>3. /\ g[k].ok /\ g[k].vtype = "h264"
          /\ ls[k + 1] \in {"h264", "skip"}
        <3>1. CASE ls[k + 1] = "skip" \/ ~g[k].ok
            BY <2>2, <3>1 DEF ReadLine
        <3>2. CASE ~(ls[k + 1] = "skip" \/ ~g[k].ok)
            <4> DEFINE fits == /\ ls[k + 1] # "bad"
                               /\ ls[k + 1] = "h264" => g[k].vtype = "h264"
            <4>1. g[k + 1] = [ok |-> fits, vtype |-> ls[k + 1]]
                BY <2>2, <3>2 DEF ReadLine
            <4>2. ls[k + 1] = "h264"
                BY <4>1
            <4>3. fits
                <5> HIDE DEF fits
                <5>1. g[k + 1].ok = fits
                    BY <4>1
                <5> QED
                    BY <5>1
            <4>4. g[k].vtype = "h264"
                BY <4>2, <4>3
            <4> QED
                BY <3>2, <4>2, <4>4
        <3> QED
            BY <3>1, <3>2
    <2>4. \A j \in 1 .. k : ls[j] \in {"h264", "skip"}
        BY <2>1, <2>3
    <2>5. \A j \in 1 .. k + 1 : j \in 1 .. k \/ j = k + 1
        BY <2>1
    <2> QED
        BY <2>3, <2>4, <2>5
<1>4. T = Nat
    <2>1. T \in SUBSET Nat /\ \A k \in T : k + 1 \in T
        BY <1>3
    <2> HIDE DEF T
    <2> QED
        BY <1>2, <2>1, InductionOnSet
<1> QED
    BY <1>1, <1>4

\* main goes on with a list only if it was read to its end.
ReadInv == mpc \notin {"read", "aborted"} => ReadList.ok

LEMMA ReadInvStep == IInv /\ ReadInv /\ [Next]_vars => ReadInv'
<1> SUFFICES ASSUME IInv, ReadInv, [Next]_vars PROVE ReadInv'
    OBVIOUS
<1>1. ReadList' = ReadList
    <2>1. lines' = lines
        BY DEF Next, vars, Main, TimeOut, Start, BeginRound, Send, Wait, Reset, Check,
               Close, Leave, ResetPointer, Destroy, Decoded, DecodeReturns, Fetched,
               FetchReturns, Freed, Dies, input
    <2> QED
        BY <2>1 DEF ReadList
<1>2. CASE Start
    BY <1>1, <1>2 DEF Start, ReadInv
<1>3. CASE ~Start
    <2>1. mpc' \in {"read", "aborted"} \/ mpc \notin {"read", "aborted"}
        BY <1>3
        DEF Next, vars, Main, TimeOut, BeginRound, Send, Wait, Reset, Check, Close,
            Leave, ResetPointer, Destroy, Decoded, DecodeReturns, Fetched,
            FetchReturns, Freed, Dies, main
    <2> QED
        BY <1>1, <2>1 DEF ReadInv
<1> QED
    BY <1>2, <1>3

LEMMA ReadInvPure == IInv /\ ReadInv => PureH264
<1> SUFFICES ASSUME IInv, mpc \notin {"read", "aborted"}, ReadInv,
                    ReadList.vtype = "h264"
             PROVE  \A i \in DOMAIN lines : lines[i] \in {"h264", "skip"}
    BY DEF PureH264
<1>1. lines \in Seq({"h264", "h265", "jpg", "skip", "bad"})
    BY ListsAssumption DEF IInv, Types
<1>2. DOMAIN lines = 1 .. Len(lines) /\ Len(lines) \in Nat
    BY <1>1
<1>3. ReadFile(lines).ok /\ ReadFile(lines).vtype = "h264"
    BY DEF ReadInv, ReadList
<1> QED
    BY <1>2, <1>3, PureFile

-----------------------------------------------------------------------------
\* A callback counts into rcv and sets g_evt only while they exist, also after a
\* wait that timed out.
THEOREM LocalsTheorem == Spec => []LocalsOutliveCallbacks
<1>1. IInv => LocalsOutliveCallbacks
    BY DEF IInv, Scope, LocalsOutliveCallbacks
<1> QED
    BY <1>1, Invariance, PTL

\* The CHECK on the number of callbacks fails only after a time-out or a refusal.
THEOREM CountTheorem == Spec => []CountComplete
<1>1. IInv => CountComplete
    BY DEF IInv
<1> QED
    BY <1>1, Invariance, PTL

\* When the SDK is destroyed its pool holds no frame but those it refused to
\* fetch or to free.
THEOREM FramesTheorem == Spec => []FramesFreed
<1>1. Spec => []FramesInv
    BY FramesInit, FramesStep, Invariance, PTL DEF Spec
<1>2. IInv /\ FramesInv => FramesFreed
    <2> SUFFICES ASSUME IInv, FramesInv, mpc = "ended", NEW k \in pool PROVE k \in failed
        BY DEF FramesFreed
    <2>1. decCallback = <<>> /\ k # None
        BY DEF IInv, Scope, FramesInv, Positive, None
    <2>2. ToSet(<<>>) = {}
        BY DEF ToSet
    <2> QED
        BY <2>1, <2>2 DEF FramesInv, OnItsWay
<1> QED
    BY <1>1, <1>2, Invariance, PTL

\* A list decoded as h264 holds nothing else, however long it is and whatever
\* lines are skipped (read_image_list.h:86-98): by induction over the lines.
THEOREM PureTheorem == Spec => []PureH264
<1>1. Init => ReadInv
    BY DEF Init, ReadInv
<1> QED
    BY <1>1, InitIInv, StepIInv, ReadInvStep, ReadInvPure, PTL DEF Spec
=============================================================================
