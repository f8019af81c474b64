-------------------------- MODULE EncodeDriverProofs --------------------------
(***************************************************************************)
(* Proofs about the video encoder driver, for any number of pictures and   *)
(* rounds and both builds.  The argument: the pictures of a round stand in *)
(* order along the way from main to the freer, without a gap.  So each     *)
(* place can be computed from the number of pictures before it, and when   *)
(* picture N, the one that carries eos, is freed, none is left.            *)
(***************************************************************************)
EXTENDS EncodeDriver, SequenceTheorems, TLAPS

\* The queue s holds consecutive pictures, the last of them top.
Stands(s, top) == \A j \in 1 .. Len(s) : s[j] = top - Len(s) + j

Ones(f) == IF f = None THEN 0 ELSE 1

\* How many pictures of the round have come past each place.
JpgSent == CASE mpc = "decode" -> i [] mpc = "done" -> N [] OTHER -> i - 1
Decoded == JpgSent - Len(decoder)
ToEncode == Decoded - Ones(decCallback)
EncodeSent == ToEncode - Len(encVideo)
Encoded == EncodeSent - Len(encoder)
ToFree == Encoded - Ones(encCallback)
Written == ToFree - Len(freeFrame)
Freed == Written - Ones(freeWorker)

\* s_enc_video runs the doable it took last, until it takes the first of the next
\* round.
Chain ==
    /\ Stands(decoder, JpgSent)
    /\ decCallback # None => decCallback = Decoded
    /\ Stands(encVideo, ToEncode)
    /\ Stands(encoder, EncodeSent)
    /\ encWorker # None => encWorker = EncodeSent \/ (EncodeSent = 0 /\ encWorker = N)
    /\ encCallback # None => encCallback = Encoded
    /\ Stands(freeFrame, ToFree)
    /\ freeWorker # None => freeWorker = Written
    /\ 0 <= Freed /\ (g_evt <=> Freed = N)
    /\ mpc \in {"done", "ended"} => i = 1

\* Each caller has one request out, and its event is up when that is answered.
Callers ==
    /\ decEvent => mpc = "decode" /\ decoder = <<>>
    /\ decoder # <<>> => mpc = "decode" /\ Len(decoder) = 1
    /\ newcuda => ~encEvent
    /\ ~newcuda /\ (encEvent \/ encoder # <<>>) => encWorker # None
    /\ ~newcuda /\ encoder # <<>> => ~encEvent /\ encoder = <<encWorker>>
    /\ ~newcuda /\ encWorker # None => encEvent \/ encoder # <<>>
    /\ freeWorker = None => ~freeEvent /\ freer = <<>> /\ ~written
    /\ written => ~freeEvent /\ freer = <<>>
    /\ freer # <<>> => ~freeEvent /\ freer = <<freeWorker>>

\* The file has what was written in round 0.
Filed ==
    /\ \A k \in DOMAIN file : file[k] = k
    /\ round > 0 => Len(file) = N
    /\ Running /\ round = 0 => Len(file) = Written

\* There is a round to finish.
InRound == mpc \in {"send", "decode", "done"} => round < Rounds

IInv == TypeOK /\ InRound /\ (Running => Chain /\ Callers) /\ Filed

-----------------------------------------------------------------------------
(* Queues *)

LEMMA NoneLeft == ASSUME NEW S, NEW s \in Seq(S)
                  PROVE  Len(s) \in Nat /\ (s = <<>> <=> Len(s) = 0)
<1>1. s # <<>> => Len(s) \in Nat \ {0}
    BY EmptySeq
<1>2. s = <<>> => Len(s) = 0
    OBVIOUS
<1> QED
    BY <1>1, <1>2

LEMMA Taken ==
    ASSUME NEW s \in Seq(Pictures), s # <<>>, NEW top \in Int, Stands(s, top)
    PROVE  /\ Head(s) \in Pictures /\ Head(s) = top - Len(s) + 1
           /\ Tail(s) \in Seq(Pictures) /\ Len(Tail(s)) = Len(s) - 1
           /\ Stands(Tail(s), top)
<1>1. Len(s) \in Nat \ {0}
    BY EmptySeq
<1>2. Tail(s) \in Seq(Pictures) /\ Len(Tail(s)) = Len(s) - 1
    BY <1>1
<1>3. \A j \in 1 .. Len(s) - 1 : Tail(s)[j] = s[j + 1]
    BY <1>1
<1>4. Stands(Tail(s), top)
    BY <1>1, <1>2, <1>3 DEF Stands
<1>5. Head(s) = s[1] /\ s[1] \in Pictures
    BY <1>1
<1>6. s[1] = top - Len(s) + 1
    BY <1>1 DEF Stands
<1> QED
    BY <1>2, <1>4, <1>5, <1>6

LEMMA Appended ==
    ASSUME NEW s \in Seq(Pictures), NEW top \in Int, Stands(s, top),
           NEW f \in Pictures, f = top + 1
    PROVE  /\ Append(s, f) \in Seq(Pictures) /\ Len(Append(s, f)) = Len(s) + 1
           /\ Append(s, f) # <<>> /\ Stands(Append(s, f), top + 1)
<1>1. Len(s) \in Nat /\ Len(Append(s, f)) = Len(s) + 1 /\ Append(s, f) \in Seq(Pictures)
    OBVIOUS
<1>2. \A j \in 1 .. Len(s) + 1 : Append(s, f)[j] = IF j = Len(s) + 1 THEN f ELSE s[j]
    BY <1>1
<1>3. Stands(Append(s, f), top + 1)
    BY <1>1, <1>2 DEF Stands, Pictures
<1>4. Append(s, f) # <<>>
    BY <1>1, NoneLeft
<1> QED
    BY <1>1, <1>3, <1>4

LEMMA Numbers ==
    ASSUME TypeOK
    PROVE  /\ N \in Nat \ {0} /\ JpgSent \in 0 .. N
           /\ Len(decoder) \in Nat /\ Len(encVideo) \in Nat /\ Len(encoder) \in Nat
           /\ Len(freeFrame) \in Nat /\ Len(file) \in Nat
           /\ Ones(decCallback) \in {0, 1} /\ Ones(encCallback) \in {0, 1}
           /\ Ones(freeWorker) \in {0, 1}
           /\ Decoded \in Int /\ ToEncode \in Int /\ EncodeSent \in Int /\ Encoded \in Int
           /\ ToFree \in Int /\ Written \in Int /\ Freed \in Int
<1>1. N \in Nat \ {0} /\ JpgSent \in 0 .. N
    BY NAssumption DEF TypeOK, JpgSent, Pictures
<1>2. /\ Len(decoder) \in Nat /\ Len(encVideo) \in Nat /\ Len(encoder) \in Nat
      /\ Len(freeFrame) \in Nat /\ Len(file) \in Nat
    BY NoneLeft DEF TypeOK
<1>3. /\ Ones(decCallback) \in {0, 1} /\ Ones(encCallback) \in {0, 1}
      /\ Ones(freeWorker) \in {0, 1}
    BY DEF Ones
<1>4. Decoded \in Int /\ ToEncode \in Int
    BY <1>1, <1>2, <1>3 DEF Decoded, ToEncode
<1>5. EncodeSent \in Int /\ Encoded \in Int
    BY <1>2, <1>4 DEF EncodeSent, Encoded
<1>6. ToFree \in Int /\ Written \in Int /\ Freed \in Int
    BY <1>2, <1>3, <1>5 DEF ToFree, Written, Freed
<1> QED
    BY <1>1, <1>2, <1>3, <1>4, <1>5, <1>6

LEMMA InitIInv == Init => IInv
<1> SUFFICES ASSUME Init PROVE IInv
    OBVIOUS
<1>1. TypeOK
    <2>1. round \in 0 .. Rounds /\ i \in Pictures
        BY NAssumption, RoundsAssumption DEF Init, Pictures
    <2>2. owners \in [Pictures -> SUBSET {"sender", "sdk"}]
        BY DEF Init
    <2>3. <<>> \in Seq(Pictures)
        OBVIOUS
    <2> QED
        BY <2>1, <2>2, <2>3 DEF Init, TypeOK
<1>2. /\ JpgSent = 0 /\ Decoded = 0 /\ ToEncode = 0 /\ EncodeSent = 0 /\ Encoded = 0
      /\ ToFree = 0 /\ Written = 0 /\ Freed = 0
    BY DEF Init, JpgSent, Decoded, ToEncode, EncodeSent, Encoded, ToFree, Written, Freed, Ones
<1>3. Chain /\ Callers
    BY <1>2, NAssumption DEF Init, Chain, Callers, Stands
<1>4. Filed /\ InRound
    BY <1>2, RoundsAssumption DEF Init, Filed, InRound
<1> QED
    BY <1>1, <1>3, <1>4 DEF IInv

-----------------------------------------------------------------------------
(* Types *)

LEMMA TypeKeeps == ASSUME TypeOK, InRound, Next PROVE TypeOK' /\ InRound'
<1> USE DEF TypeOK, sdk, stations, events
<1>1. CASE SendJpg
    BY <1>1 DEF SendJpg, InRound
<1>2. CASE Sent
    <2>1. i' \in Pictures /\ mpc' \in {"send", "done"} /\ decEvent' = FALSE
        BY <1>2, NAssumption DEF Sent, Pictures
    <2> QED
        BY <1>2, <2>1 DEF Sent, InRound
<1>3. CASE RoundDone
    <2>1. round' \in 0 .. Rounds /\ mpc' \in {"send", "ended"}
          /\ (mpc' = "send" => round' < Rounds)
        BY <1>3, RoundsAssumption DEF RoundDone, InRound
    <2> QED
        BY <1>3, <2>1 DEF RoundDone, InRound
<1>4. CASE NoSuchFile \/ Abort \/ CallbackFails
    BY <1>4 DEF NoSuchFile, Abort, CallbackFails, InRound
<1>5. CASE DecodeSet
    <2>1. Head(decoder) \in Pictures /\ Tail(decoder) \in Seq(Pictures)
        BY <1>5, HeadTailProperties DEF DecodeSet
    <2> QED
        BY <1>5, <2>1 DEF DecodeSet, InRound
<1>6. CASE DecodePut
    BY <1>6 DEF DecodePut, InRound
<1>7. CASE SendEncode
    <2>1. Head(encVideo) \in Pictures /\ Tail(encVideo) \in Seq(Pictures)
        BY <1>7, HeadTailProperties DEF SendEncode
    <2>2. owners' \in [Pictures -> SUBSET {"sender", "sdk"}]
        BY <1>7 DEF SendEncode
    <2> QED
        BY <1>7, <2>1, <2>2 DEF SendEncode, InRound
<1>8. CASE SendEncodeReturns
    <2>1. owners' \in [Pictures -> SUBSET {"sender", "sdk"}]
        BY <1>8 DEF SendEncodeReturns
    <2> QED
        BY <1>8, <2>1 DEF SendEncodeReturns, InRound
<1>9. CASE EncodeSet
    <2>1. Head(encoder) \in Pictures /\ Tail(encoder) \in Seq(Pictures)
        BY <1>9, HeadTailProperties DEF EncodeSet
    <2> QED
        BY <1>9, <2>1 DEF EncodeSet, InRound
<1>10. CASE EncodePut
    <2>1. owners' \in [Pictures -> SUBSET {"sender", "sdk"}]
        BY <1>10 DEF EncodePut
    <2> QED
        BY <1>10, <2>1 DEF EncodePut, InRound
<1>11. CASE WriteH26x
    <2>1. Head(freeFrame) \in Pictures /\ Tail(freeFrame) \in Seq(Pictures)
        BY <1>11, HeadTailProperties DEF WriteH26x
    <2>2. file' \in Seq(Pictures)
        BY <1>11, <2>1 DEF WriteH26x
    <2> QED
        BY <1>11, <2>1, <2>2 DEF WriteH26x, InRound
<1>12. CASE SendFree
    <2>1. freer' \in Seq(Pictures)
        BY <1>12 DEF SendFree
    <2> QED
        BY <1>12, <2>1 DEF SendFree, InRound
<1>13. CASE FreeSet
    <2>1. Tail(freer) \in Seq(Pictures)
        BY <1>13, HeadTailProperties DEF FreeSet
    <2> QED
        BY <1>13, <2>1 DEF FreeSet, InRound
<1>14. CASE SendFreeReturns
    BY <1>14 DEF SendFreeReturns, InRound
<1> QED
    BY <1>1, <1>2, <1>3, <1>4, <1>5, <1>6, <1>7, <1>8, <1>9, <1>10, <1>11, <1>12, <1>13, <1>14
       DEF Next, Main, EncVideo, FreeFrame

-----------------------------------------------------------------------------
(* The steps *)

\* What the proofs below use of the invariant while the process runs.
LEMMA WhileRunning ==
    ASSUME IInv, Running
    PROVE  TypeOK /\ InRound /\ Chain /\ Callers /\ Filed
BY DEF IInv

LEMMA SendJpgKeeps == ASSUME IInv, SendJpg PROVE (Chain /\ Callers /\ Filed)'
<1>1. TypeOK /\ Chain /\ Callers /\ Filed /\ decoder = <<>> /\ JpgSent = i - 1 /\ i \in Pictures
    BY WhileRunning DEF SendJpg, Running, Callers, JpgSent, TypeOK
<1>2. decoder' = <<i>> /\ Len(decoder') = 1 /\ decoder'[1] = i /\ mpc' = "decode"
    BY <1>1 DEF SendJpg
<1>3. JpgSent' = i /\ Decoded' = Decoded
    BY <1>1, <1>2 DEF SendJpg, JpgSent, Decoded, Pictures
<1>4. /\ ToEncode' = ToEncode /\ EncodeSent' = EncodeSent /\ Encoded' = Encoded
      /\ ToFree' = ToFree /\ Written' = Written /\ Freed' = Freed
    BY <1>3 DEF SendJpg, stations, ToEncode, EncodeSent, Encoded, ToFree, Written, Freed
<1>5. Stands(decoder', JpgSent')
    BY <1>1, <1>2, <1>3 DEF Stands, Pictures
<1>6. Chain'
    BY <1>1, <1>3, <1>4, <1>5 DEF SendJpg, Chain, Stands, stations, events
<1>7. Callers'
    BY <1>1, <1>2 DEF SendJpg, Callers, stations, events
<1>8. Filed'
    BY <1>1, <1>4 DEF SendJpg, Filed, Running
<1> QED
    BY <1>6, <1>7, <1>8

LEMMA SentKeeps == ASSUME IInv, Sent PROVE (Chain /\ Callers /\ Filed)'
<1>1. TypeOK /\ Chain /\ Callers /\ Filed /\ decoder = <<>> /\ JpgSent = i /\ i \in Pictures
    BY WhileRunning DEF Sent, Running, Callers, JpgSent, TypeOK
<1>2. JpgSent' = JpgSent
    BY <1>1, NAssumption DEF Sent, JpgSent, Pictures
<1>3. /\ Decoded' = Decoded
      /\ ToEncode' = ToEncode /\ EncodeSent' = EncodeSent /\ Encoded' = Encoded
      /\ ToFree' = ToFree /\ Written' = Written /\ Freed' = Freed
    BY <1>2 DEF Sent, sdk, stations,
                Decoded, ToEncode, EncodeSent, Encoded, ToFree, Written, Freed
<1>4. Chain'
    BY <1>1, <1>2, <1>3 DEF Sent, Chain, Stands, sdk, stations
<1>5. Callers'
    BY <1>1 DEF Sent, Callers, sdk, stations
<1>6. Filed'
    BY <1>1, <1>3 DEF Sent, Filed, Running
<1> QED
    BY <1>4, <1>5, <1>6

\* The numbers grow from the freer to main.
LEMMA NoneAhead ==
    ASSUME TypeOK
    PROVE  /\ Freed <= Written /\ Written <= ToFree /\ ToFree <= Encoded
           /\ Encoded <= EncodeSent /\ EncodeSent <= ToEncode /\ ToEncode <= Decoded
           /\ Decoded <= JpgSent /\ Freed <= JpgSent
<1>1. Decoded <= JpgSent /\ ToEncode <= Decoded /\ EncodeSent <= ToEncode
    BY Numbers DEF Decoded, ToEncode, EncodeSent
<1>2. Encoded <= EncodeSent /\ ToFree <= Encoded
    BY Numbers DEF Encoded, ToFree
<1>3. Written <= ToFree /\ Freed <= Written
    BY Numbers DEF Written, Freed
<1> QED
    BY <1>1, <1>2, <1>3, Numbers

\* When picture N, the one with eos, is freed, or none has been sent, none of the
\* round is under way.
LEMMA NoneUnderWay ==
    ASSUME TypeOK, Chain, JpgSent = Freed
    PROVE  /\ Written = JpgSent
           /\ decoder = <<>> /\ encVideo = <<>> /\ encoder = <<>> /\ freeFrame = <<>>
           /\ decCallback = None /\ encCallback = None /\ freeWorker = None
<1>1. /\ Decoded = JpgSent /\ ToEncode = Decoded /\ EncodeSent = ToEncode
      /\ Encoded = EncodeSent /\ ToFree = Encoded /\ Written = ToFree /\ Freed = Written
    BY NoneAhead, Numbers
<1>2. Len(decoder) = 0
    BY <1>1, Numbers DEF Decoded
<1>3. Ones(decCallback) = 0
    BY <1>1, Numbers DEF ToEncode
<1>4. Len(encVideo) = 0
    BY <1>1, Numbers DEF EncodeSent
<1>5. Len(encoder) = 0
    BY <1>1, Numbers DEF Encoded
<1>6. Ones(encCallback) = 0
    BY <1>1, Numbers DEF ToFree
<1>7. Len(freeFrame) = 0
    BY <1>1, Numbers DEF Written
<1>8. Ones(freeWorker) = 0
    BY <1>1, Numbers DEF Freed
<1> QED
    BY <1>1, <1>2, <1>3, <1>4, <1>5, <1>6, <1>7, <1>8, NoneLeft DEF TypeOK, Ones

LEMMA RoundDoneKeeps == ASSUME IInv, RoundDone PROVE (Chain /\ Callers /\ Filed)'
<1>1. TypeOK /\ Chain /\ Callers /\ Filed /\ InRound /\ i = 1 /\ Freed = N /\ JpgSent = N
    BY WhileRunning DEF RoundDone, Running, Chain, JpgSent
<1>2. /\ Written = N
      /\ decoder = <<>> /\ encVideo = <<>> /\ encoder = <<>> /\ freeFrame = <<>>
      /\ decCallback = None /\ encCallback = None /\ freeWorker = None
    BY <1>1, NoneUnderWay
<1>3. UNCHANGED <<sdk, stations>> /\ mpc' \in {"send", "ended"} /\ i' = 1 /\ ~g_evt'
    BY <1>1 DEF RoundDone
<1>4. /\ JpgSent' = 0 /\ Decoded' = 0 /\ ToEncode' = 0 /\ EncodeSent' = 0 /\ Encoded' = 0
      /\ ToFree' = 0 /\ Written' = 0 /\ Freed' = 0
    BY <1>2, <1>3 DEF JpgSent, Decoded, ToEncode, EncodeSent, Encoded, ToFree, Written,
                      Freed, Ones, sdk, stations
<1>5. encWorker # None => encWorker = N
    BY <1>1, NoneAhead, Numbers DEF Chain
<1>6. Chain'
    BY <1>2, <1>3, <1>4, <1>5, NAssumption DEF Chain, Stands, sdk, stations
<1>7. Callers'
    BY <1>1, <1>2 DEF RoundDone, Callers, sdk, stations
<1>8. file' = file /\ Len(file) = N /\ round' = round + 1 /\ round \in Nat
    BY <1>1, <1>2 DEF RoundDone, Filed, Running, TypeOK
<1>9. Filed'
    BY <1>1, <1>8 DEF Filed
<1> QED
    BY <1>6, <1>7, <1>9

\* The process ends: only the file matters.
LEMMA AbortKeeps == ASSUME IInv, NoSuchFile \/ Abort \/ CallbackFails PROVE Filed' /\ ~Running'
BY DEF NoSuchFile, Abort, CallbackFails, IInv, Filed, Running

LEMMA DecodeSetKeeps == ASSUME IInv, DecodeSet PROVE (Chain /\ Callers /\ Filed)'
<1>1. TypeOK /\ Chain /\ Callers /\ Filed /\ decoder # <<>> /\ decCallback = None
    BY WhileRunning DEF DecodeSet
<1>2. /\ decCallback' = Head(decoder) /\ decoder' = Tail(decoder) /\ decEvent' = TRUE
      /\ UNCHANGED <<newcuda, mpc, round, i, encoder, freer, encCallback, encVideo, freeFrame,
                     encWorker, freeWorker, written, encEvent, freeEvent, g_evt, file>>
    BY DEF DecodeSet, stations
<1>3. /\ Head(decoder) \in Pictures /\ Head(decoder) = Decoded + 1
      /\ Len(decoder') = Len(decoder) - 1 /\ Stands(decoder', JpgSent)
      /\ decoder' \in Seq(Pictures)
    BY <1>1, <1>2, Numbers, Taken DEF TypeOK, Chain, Decoded
<1>4. JpgSent' = JpgSent /\ Decoded' = Decoded + 1 /\ ToEncode' = ToEncode
    <2>1. JpgSent' = JpgSent /\ Ones(decCallback) = 0 /\ Ones(decCallback') = 1
        BY <1>1, <1>2, <1>3 DEF JpgSent, Ones, Pictures, None
    <2> QED
        BY <1>1, <1>3, <2>1, Numbers DEF Decoded, ToEncode
<1>5. /\ EncodeSent' = EncodeSent /\ Encoded' = Encoded
      /\ ToFree' = ToFree /\ Written' = Written /\ Freed' = Freed
    BY <1>2, <1>4 DEF EncodeSent, Encoded, ToFree, Written, Freed
<1>6. Chain'
    BY <1>1, <1>2, <1>3, <1>4, <1>5 DEF Chain, Stands
<1>7. decoder' = <<>> /\ mpc = "decode"
    BY <1>1, <1>3, NoneLeft DEF Callers
<1>8. Callers'
    BY <1>1, <1>2, <1>7 DEF Callers
<1>9. Filed'
    BY <1>1, <1>2, <1>5 DEF Filed, Running
<1> QED
    BY <1>6, <1>8, <1>9

LEMMA DecodePutKeeps == ASSUME IInv, DecodePut PROVE (Chain /\ Callers /\ Filed)'
<1>1. TypeOK /\ Chain /\ Callers /\ Filed /\ decCallback # None
    BY WhileRunning DEF DecodePut
<1>2. /\ decCallback' = None /\ encVideo' = Append(encVideo, decCallback)
      /\ UNCHANGED <<newcuda, mpc, round, i, decoder, encoder, freer, encCallback, freeFrame,
                     encWorker, freeWorker, written, decEvent, encEvent, freeEvent, g_evt, file>>
    BY DEF DecodePut, events
<1>3. decCallback \in Pictures /\ decCallback = ToEncode + 1
    BY <1>1, Numbers DEF TypeOK, Chain, ToEncode, Ones
<1>4. Len(encVideo') = Len(encVideo) + 1 /\ Stands(encVideo', ToEncode + 1)
    BY <1>1, <1>2, <1>3, Numbers, Appended DEF TypeOK, Chain
<1>5. JpgSent' = JpgSent /\ Decoded' = Decoded /\ ToEncode' = ToEncode + 1
      /\ EncodeSent' = EncodeSent
    <2>1. /\ JpgSent' = JpgSent /\ Decoded' = Decoded
          /\ Ones(decCallback) = 1 /\ Ones(decCallback') = 0
        BY <1>1, <1>2 DEF JpgSent, Decoded, Ones
    <2>2. ToEncode' = ToEncode + 1
        BY <1>1, <2>1, Numbers DEF ToEncode
    <2> QED
        BY <1>1, <1>4, <2>1, <2>2, Numbers DEF EncodeSent
<1>6. /\ Encoded' = Encoded /\ ToFree' = ToFree /\ Written' = Written /\ Freed' = Freed
    BY <1>2, <1>5 DEF Encoded, ToFree, Written, Freed
<1>7. Chain'
    BY <1>1, <1>2, <1>4, <1>5, <1>6 DEF Chain, Stands
<1>8. Callers'
    BY <1>1, <1>2 DEF Callers
<1>9. Filed'
    BY <1>1, <1>2, <1>6 DEF Filed, Running
<1> QED
    BY <1>7, <1>8, <1>9

LEMMA SendEncodeKeeps == ASSUME IInv, SendEncode PROVE (Chain /\ Callers /\ Filed)'
<1>1. TypeOK /\ Chain /\ Callers /\ Filed /\ encVideo # <<>> /\ encWorker = None
    BY WhileRunning DEF SendEncode
<1>2. /\ encWorker' = Head(encVideo) /\ encVideo' = Tail(encVideo)
      /\ encoder' = Append(encoder, Head(encVideo))
      /\ UNCHANGED <<newcuda, mpc, round, i, decoder, freer, decCallback, encCallback, freeFrame,
                     freeWorker, written, decEvent, encEvent, freeEvent, g_evt, file>>
    BY DEF SendEncode, events
<1>3. /\ Head(encVideo) \in Pictures /\ Head(encVideo) = EncodeSent + 1
      /\ Len(encVideo') = Len(encVideo) - 1 /\ Stands(encVideo', ToEncode)
    BY <1>1, <1>2, Numbers, Taken DEF TypeOK, Chain, EncodeSent
<1>4. Len(encoder') = Len(encoder) + 1 /\ Stands(encoder', EncodeSent + 1)
    BY <1>1, <1>2, <1>3, Numbers, Appended DEF TypeOK, Chain
<1>5. /\ JpgSent' = JpgSent /\ Decoded' = Decoded /\ ToEncode' = ToEncode
      /\ EncodeSent' = EncodeSent + 1 /\ Encoded' = Encoded
    <2>1. JpgSent' = JpgSent /\ Decoded' = Decoded /\ ToEncode' = ToEncode
        BY <1>2 DEF JpgSent, Decoded, ToEncode
    <2>2. EncodeSent' = EncodeSent + 1
        BY <1>1, <1>3, <2>1, Numbers DEF EncodeSent
    <2> QED
        BY <1>1, <1>4, <2>1, <2>2, Numbers DEF Encoded
<1>6. ToFree' = ToFree /\ Written' = Written /\ Freed' = Freed
    BY <1>2, <1>5 DEF ToFree, Written, Freed
<1>7. Chain'
    BY <1>1, <1>2, <1>3, <1>4, <1>5, <1>6 DEF Chain, Stands
<1>8. encWorker' # None /\ (~newcuda => encoder' = <<encWorker'>> /\ ~encEvent)
    <2>1. encWorker' # None
        BY <1>2, <1>3 DEF Pictures, None
    <2>2. ~newcuda => encoder = <<>> /\ ~encEvent
        BY <1>1 DEF Callers
    <2>3. ~newcuda => encoder' = <<encWorker'>>
        BY <1>2, <2>2
    <2> QED
        BY <2>1, <2>2, <2>3
<1>9. Callers'
    BY <1>1, <1>2, <1>8 DEF Callers
<1>10. Filed'
    BY <1>1, <1>2, <1>6 DEF Filed, Running
<1> QED
    BY <1>7, <1>9, <1>10

LEMMA SendEncodeReturnsKeeps ==
    ASSUME IInv, SendEncodeReturns PROVE (Chain /\ Callers /\ Filed)'
<1>1. TypeOK /\ Chain /\ Callers /\ Filed /\ encWorker # None /\ (encEvent \/ newcuda)
    BY WhileRunning DEF SendEncodeReturns
<1>2. /\ encWorker' = None /\ encEvent' = FALSE
      /\ UNCHANGED <<newcuda, mpc, round, i, decoder, encoder, freer, decCallback, encCallback,
                     encVideo, freeFrame, freeWorker, written, decEvent, freeEvent, g_evt, file>>
    BY DEF SendEncodeReturns, sdk
<1>3. /\ JpgSent' = JpgSent /\ Decoded' = Decoded /\ ToEncode' = ToEncode
      /\ EncodeSent' = EncodeSent /\ Encoded' = Encoded
      /\ ToFree' = ToFree /\ Written' = Written /\ Freed' = Freed
    BY <1>2 DEF JpgSent, Decoded, ToEncode, EncodeSent, Encoded, ToFree, Written, Freed
<1>4. Chain'
    BY <1>1, <1>2, <1>3 DEF Chain, Stands
<1>5. Callers'
    BY <1>1, <1>2 DEF Callers
<1>6. Filed'
    BY <1>1, <1>2, <1>3 DEF Filed, Running
<1> QED
    BY <1>4, <1>5, <1>6

LEMMA EncodeSetKeeps == ASSUME IInv, EncodeSet PROVE (Chain /\ Callers /\ Filed)'
<1>1. TypeOK /\ Chain /\ Callers /\ Filed /\ encoder # <<>> /\ encCallback = None
    BY WhileRunning DEF EncodeSet
<1>2. /\ encCallback' = Head(encoder) /\ encoder' = Tail(encoder)
      /\ encEvent' = (encEvent \/ ~newcuda)
      /\ UNCHANGED <<newcuda, mpc, round, i, decoder, freer, decCallback, encVideo, freeFrame,
                     encWorker, freeWorker, written, decEvent, freeEvent, g_evt, file>>
    BY DEF EncodeSet, stations
<1>3. /\ Head(encoder) \in Pictures /\ Head(encoder) = Encoded + 1
      /\ Len(encoder') = Len(encoder) - 1 /\ Stands(encoder', EncodeSent)
    BY <1>1, <1>2, Numbers, Taken DEF TypeOK, Chain, Encoded
<1>4. /\ JpgSent' = JpgSent /\ Decoded' = Decoded /\ ToEncode' = ToEncode
      /\ EncodeSent' = EncodeSent
    BY <1>2 DEF JpgSent, Decoded, ToEncode, EncodeSent
<1>5. Encoded' = Encoded + 1 /\ ToFree' = ToFree
    BY <1>1, <1>2, <1>3, <1>4, Numbers DEF Encoded, ToFree, Ones, Pictures, None
<1>6. Written' = Written /\ Freed' = Freed
    BY <1>2, <1>5 DEF Written, Freed
<1>7. Chain'
    BY <1>1, <1>2, <1>3, <1>4, <1>5, <1>6 DEF Chain, Stands
<1>8. ~newcuda => encWorker # None /\ encoder' = <<>>
    BY <1>1, <1>2 DEF Callers
<1>9. Callers'
    BY <1>1, <1>2, <1>8 DEF Callers
<1>10. Filed'
    BY <1>1, <1>2, <1>6 DEF Filed, Running
<1> QED
    BY <1>7, <1>9, <1>10

LEMMA EncodePutKeeps == ASSUME IInv, EncodePut PROVE (Chain /\ Callers /\ Filed)'
<1>1. TypeOK /\ Chain /\ Callers /\ Filed /\ encCallback # None
    BY WhileRunning DEF EncodePut
<1>2. /\ encCallback' = None /\ freeFrame' = Append(freeFrame, encCallback)
      /\ UNCHANGED <<newcuda, mpc, round, i, decoder, encoder, freer, decCallback, encVideo,
                     encWorker, freeWorker, written, decEvent, encEvent, freeEvent, g_evt, file>>
    BY DEF EncodePut, events
<1>3. encCallback \in Pictures /\ encCallback = ToFree + 1
    BY <1>1, Numbers DEF TypeOK, Chain, ToFree, Ones
<1>4. Len(freeFrame') = Len(freeFrame) + 1 /\ Stands(freeFrame', ToFree + 1)
    BY <1>1, <1>2, <1>3, Numbers, Appended DEF TypeOK, Chain
<1>5. /\ JpgSent' = JpgSent /\ Decoded' = Decoded /\ ToEncode' = ToEncode
      /\ EncodeSent' = EncodeSent /\ Encoded' = Encoded
    BY <1>2 DEF JpgSent, Decoded, ToEncode, EncodeSent, Encoded
<1>6. ToFree' = ToFree + 1 /\ Written' = Written
    <2>1. Ones(encCallback) = 1 /\ Ones(encCallback') = 0
        BY <1>1, <1>2 DEF Ones
    <2> QED
        BY <1>1, <1>4, <1>5, <2>1, Numbers DEF ToFree, Written
<1>7. Freed' = Freed
    BY <1>2, <1>6 DEF Freed
<1>8. Chain'
    BY <1>1, <1>2, <1>4, <1>5, <1>6, <1>7 DEF Chain, Stands
<1>9. Callers'
    BY <1>1, <1>2 DEF Callers
<1>10. Filed'
    BY <1>1, <1>2, <1>6 DEF Filed, Running
<1> QED
    BY <1>8, <1>9, <1>10

LEMMA WriteH26xKeeps == ASSUME IInv, WriteH26x PROVE (Chain /\ Callers /\ Filed)'
<1>1. TypeOK /\ Chain /\ Callers /\ Filed /\ freeFrame # <<>> /\ freeWorker = None
    BY WhileRunning DEF WriteH26x
<1>2. /\ freeWorker' = Head(freeFrame) /\ freeFrame' = Tail(freeFrame) /\ written' = TRUE
      /\ UNCHANGED <<newcuda, mpc, round, i, decoder, encoder, freer, decCallback, encCallback,
                     encVideo, encWorker, decEvent, encEvent, freeEvent, g_evt>>
    BY DEF WriteH26x, sdk, events
<1>3. /\ Head(freeFrame) \in Pictures /\ Head(freeFrame) = Written + 1
      /\ Len(freeFrame') = Len(freeFrame) - 1 /\ Stands(freeFrame', ToFree)
    BY <1>1, <1>2, Numbers, Taken DEF TypeOK, Chain, Written
<1>4. /\ JpgSent' = JpgSent /\ Decoded' = Decoded /\ ToEncode' = ToEncode
      /\ EncodeSent' = EncodeSent /\ Encoded' = Encoded /\ ToFree' = ToFree
    BY <1>2 DEF JpgSent, Decoded, ToEncode, EncodeSent, Encoded, ToFree
<1>5. Written' = Written + 1 /\ Freed' = Freed
    BY <1>1, <1>2, <1>3, <1>4, Numbers DEF Written, Freed, Ones, Pictures, None
<1>6. Chain'
    BY <1>1, <1>2, <1>3, <1>4, <1>5 DEF Chain, Stands
<1>7. freeWorker' # None
    BY <1>2, <1>3 DEF Pictures, None
<1>8. Callers'
    BY <1>1, <1>2, <1>7 DEF Callers
<1>9. Filed'
    <2>1. CASE round = 0
        <3>1. file' = Append(file, Written + 1) /\ Len(file) = Written
            BY <1>1, <1>3, <2>1 DEF WriteH26x, Filed, Running
        <3>2. /\ Len(file') = Written + 1
              /\ \A k \in 1 .. Len(file) + 1 :
                    file'[k] = IF k = Len(file) + 1 THEN Written + 1 ELSE file[k]
              /\ DOMAIN file' = 1 .. Len(file) + 1 /\ DOMAIN file = 1 .. Len(file)
            BY <1>1, <3>1, Numbers DEF TypeOK
        <3> QED
            BY <1>1, <1>2, <1>5, <2>1, <3>1, <3>2, Numbers DEF Filed, Running
    <2>2. CASE round # 0
        BY <1>1, <1>2, <2>2 DEF WriteH26x, Filed
    <2> QED
        BY <2>1, <2>2
<1> QED
    BY <1>6, <1>8, <1>9

LEMMA SendFreeKeeps == ASSUME IInv, SendFree PROVE (Chain /\ Callers /\ Filed)'
<1>1. TypeOK /\ Chain /\ Callers /\ Filed /\ freeWorker # None /\ written
    BY WhileRunning DEF SendFree
<1>2. /\ freer' = Append(freer, freeWorker) /\ written' = FALSE
      /\ UNCHANGED <<newcuda, mpc, round, i, decoder, encoder, decCallback, encCallback,
                     encVideo, freeFrame, encWorker, freeWorker, decEvent, encEvent, freeEvent,
                     g_evt, file>>
    BY DEF SendFree, events
<1>3. /\ JpgSent' = JpgSent /\ Decoded' = Decoded /\ ToEncode' = ToEncode
      /\ EncodeSent' = EncodeSent /\ Encoded' = Encoded
      /\ ToFree' = ToFree /\ Written' = Written /\ Freed' = Freed
    BY <1>2 DEF JpgSent, Decoded, ToEncode, EncodeSent, Encoded, ToFree, Written, Freed
<1>4. Chain'
    BY <1>1, <1>2, <1>3 DEF Chain, Stands
<1>5. freer' = <<freeWorker>> /\ ~freeEvent
    BY <1>1, <1>2 DEF Callers
<1>6. Callers'
    BY <1>1, <1>2, <1>5 DEF Callers
<1>7. Filed'
    BY <1>1, <1>2, <1>3 DEF Filed, Running
<1> QED
    BY <1>4, <1>6, <1>7

LEMMA FreeSetKeeps == ASSUME IInv, FreeSet PROVE (Chain /\ Callers /\ Filed)'
<1>1. TypeOK /\ Chain /\ Callers /\ Filed /\ freer # <<>>
    BY WhileRunning DEF FreeSet
<1>2. /\ freer' = Tail(freer) /\ freeEvent' = TRUE
      /\ UNCHANGED <<newcuda, mpc, round, i, decoder, encoder, decCallback, encCallback,
                     encVideo, freeFrame, encWorker, freeWorker, written, decEvent, encEvent,
                     g_evt, file>>
    BY DEF FreeSet, stations
<1>3. /\ JpgSent' = JpgSent /\ Decoded' = Decoded /\ ToEncode' = ToEncode
      /\ EncodeSent' = EncodeSent /\ Encoded' = Encoded
      /\ ToFree' = ToFree /\ Written' = Written /\ Freed' = Freed
    BY <1>2 DEF JpgSent, Decoded, ToEncode, EncodeSent, Encoded, ToFree, Written, Freed
<1>4. Chain'
    BY <1>1, <1>2, <1>3 DEF Chain, Stands
<1>5. freer = <<freeWorker>> /\ freer' = <<>> /\ freeWorker # None /\ ~written
    BY <1>1, <1>2 DEF Callers
<1>6. Callers'
    BY <1>1, <1>2, <1>5 DEF Callers
<1>7. Filed'
    BY <1>1, <1>2, <1>3 DEF Filed, Running
<1> QED
    BY <1>4, <1>6, <1>7

\* The freed picture is the last of those written: with eos, all are freed.
LEMMA SendFreeReturnsKeeps ==
    ASSUME IInv, SendFreeReturns PROVE (Chain /\ Callers /\ Filed)'
<1>1. TypeOK /\ Chain /\ Callers /\ Filed /\ freeWorker # None /\ freeEvent
    BY WhileRunning DEF SendFreeReturns
<1>2. /\ freeWorker' = None /\ freeEvent' = FALSE /\ g_evt' = (g_evt \/ freeWorker = N)
      /\ UNCHANGED <<newcuda, mpc, round, i, decoder, encoder, freer, decCallback, encCallback,
                     encVideo, freeFrame, encWorker, written, decEvent, encEvent, file>>
    BY DEF SendFreeReturns, sdk, Eos
<1>3. /\ JpgSent' = JpgSent /\ Decoded' = Decoded /\ ToEncode' = ToEncode
      /\ EncodeSent' = EncodeSent /\ Encoded' = Encoded
      /\ ToFree' = ToFree /\ Written' = Written
    BY <1>2 DEF JpgSent, Decoded, ToEncode, EncodeSent, Encoded, ToFree, Written
<1>4. freeWorker \in 1 .. N /\ Freed = freeWorker - 1 /\ Freed' = freeWorker
    BY <1>1, <1>2, <1>3, Numbers DEF TypeOK, Chain, Freed, Ones, Pictures
<1>5. 0 <= Freed' /\ (g_evt' <=> Freed' = N)
    <2>1. N \in Nat /\ Freed # N /\ ~g_evt
        BY <1>1, <1>4, Numbers DEF Chain
    <2>2. g_evt' <=> freeWorker = N
        BY <1>2, <2>1, Zenon
    <2> QED
        BY <1>4, <2>2
<1>6. Chain'
    BY <1>1, <1>2, <1>3, <1>5 DEF Chain, Stands
<1>7. Callers'
    BY <1>1, <1>2 DEF Callers
<1>8. Filed'
    BY <1>1, <1>2, <1>3 DEF Filed, Running
<1> QED
    BY <1>6, <1>7, <1>8

LEMMA StepIInv == IInv /\ [Next]_vars => IInv'
<1> SUFFICES ASSUME IInv, [Next]_vars PROVE IInv'
    OBVIOUS
<1>1. CASE Next
    <2>1. TypeOK' /\ InRound'
        BY <1>1, TypeKeeps DEF IInv
    <2>2. CASE NoSuchFile \/ Abort \/ CallbackFails
        BY <2>1, <2>2, AbortKeeps DEF IInv
    <2>3. CASE ~(NoSuchFile \/ Abort \/ CallbackFails)
        <3>1. (Chain /\ Callers /\ Filed)'
            BY <1>1, <2>3, SendJpgKeeps, SentKeeps, RoundDoneKeeps, DecodeSetKeeps,
               DecodePutKeeps, SendEncodeKeeps, SendEncodeReturnsKeeps, EncodeSetKeeps,
               EncodePutKeeps, WriteH26xKeeps, SendFreeKeeps, FreeSetKeeps,
               SendFreeReturnsKeeps
               DEF Next, Main, EncVideo, FreeFrame
        <3> QED
            BY <2>1, <3>1 DEF IInv
    <2> QED
        BY <2>2, <2>3
<1>2. CASE UNCHANGED vars
    <2>1. /\ JpgSent' = JpgSent /\ Decoded' = Decoded /\ ToEncode' = ToEncode
          /\ EncodeSent' = EncodeSent /\ Encoded' = Encoded
          /\ ToFree' = ToFree /\ Written' = Written /\ Freed' = Freed
        BY <1>2 DEF vars, sdk, stations, JpgSent, Decoded, ToEncode, EncodeSent, Encoded,
                    ToFree, Written, Freed
    <2>2. TypeOK' /\ InRound'
        BY <1>2 DEF vars, sdk, stations, events, IInv, TypeOK, InRound
    <2>3. Running => Chain' /\ Callers'
        BY <1>2, <2>1 DEF vars, sdk, stations, events, IInv, Chain, Callers, Stands
    <2>4. Filed' /\ (Running' <=> Running)
        BY <1>2, <2>1 DEF vars, IInv, Filed, Running
    <2> QED
        BY <2>2, <2>3, <2>4 DEF IInv
<1> QED
    BY <1>1, <1>2

LEMMA Invariance == Spec => []IInv
BY InitIInv, StepIInv, PTL DEF Spec

-----------------------------------------------------------------------------
(* Theorems *)

\* For any number of pictures and both builds: when a round starts or the interfaces
\* go, no request, callback or doable of the round before is left, except that
\* sendEncode() of the last picture, which is answered, may not have returned;
\* main waited for the last picture to be freed only (lines 335-341, 404-421).
THEOREM RoundsApartTheorem == Spec => []RoundsApart
<1>1. IInv => RoundsApart
    <2> SUFFICES ASSUME IInv, (mpc = "send" /\ i = 1) \/ mpc = "ended"
                 PROVE  OnlyReturning
        BY DEF RoundsApart
    <2>1. TypeOK /\ Chain /\ Callers /\ JpgSent = 0
        BY WhileRunning DEF Running, JpgSent, Chain
    <2>2. Freed = 0 /\ ~g_evt
        BY <2>1, NoneAhead, Numbers DEF Chain
    <2>3. encWorker # None => encWorker = N /\ (encEvent \/ newcuda)
        <3>1. encoder = <<>> /\ EncodeSent = 0
            BY <2>1, <2>2, NoneUnderWay, NoneAhead, Numbers
        <3> QED
            BY <2>1, <3>1 DEF Chain, Callers, TypeOK, None
    <2> QED
        BY <2>1, <2>2, <2>3, NoneUnderWay DEF OnlyReturning, Callers
<1> QED
    BY <1>1, Invariance, PTL

\* For any number of pictures and rounds, the file holds round 0 in its order, and
\* all of it once that round is over, though writer and main both use test_round
\* (lines 274-280).
THEOREM FileInOrderTheorem == Spec => []FileInOrder
<1>1. IInv => FileInOrder
    BY DEF IInv, Filed, FileInOrder
<1> QED
    BY <1>1, Invariance, PTL

\* For any number of pictures, rounds and both builds, a callback that sets a local
\* event answers the request its owner is waiting for (lines 146, 174, 186).
THEOREM LocalEventsTheorem == Spec => []LocalEventsLive
<1>1. IInv => LocalEventsLive
    <2> SUFFICES ASSUME IInv, Running PROVE LocalEventsLive
        BY DEF LocalEventsLive
    <2>1. TypeOK /\ Chain /\ Callers
        BY WhileRunning
    <2>2. decoder # <<>> => decoder = <<i>> /\ mpc = "decode" /\ ~decEvent
        <3> SUFFICES ASSUME decoder # <<>> PROVE decoder = <<i>> /\ mpc = "decode" /\ ~decEvent
            OBVIOUS
        <3>1. mpc = "decode" /\ ~decEvent /\ Len(decoder) = 1 /\ JpgSent = i
            BY <2>1 DEF Callers, JpgSent
        <3>2. decoder[1] = i
            BY <2>1, <3>1 DEF Chain, Stands, TypeOK, Pictures
        <3> QED
            BY <2>1, <3>1, <3>2 DEF TypeOK
    <2> QED
        BY <2>1, <2>2 DEF LocalEventsLive, Callers
<1> QED
    BY <1>1, Invariance, PTL
=============================================================================
