--------------------------- MODULE ObjectPoolProofs ---------------------------
(***************************************************************************)
(* Proofs about zfz::ObjectPool, for any finite set of addresses, any      *)
(* number of threads and any limits.                                       *)
(*                                                                         *)
(* pop() reads the sign of available_count_ without lock_.  The invariant  *)
(* therefore carries that the sign never changes (SignKept), and that a    *)
(* thread which skips the wait does so in a pool without a limit           *)
(* (DirectUnlimited): without them one late pop() could take available_    *)
(* count_ from 0 to -1 and lift the limit for ever.                        *)
(***************************************************************************)
EXTENDS ObjectPool, FiniteSetTheorems, SequenceTheorems, TLAPS

SignKept == limit >= 0 <=> available >= 0

DirectUnlimited == \A t \in Threads : pc[t] = "direct" => limit < 0

CountInv == SignKept /\ DirectUnlimited /\ PermitsKept

\* Where the objects are does not depend on any count.
HandInv == TypeOK /\ NoDoubleHandOut

IInv == HandInv /\ CountInv /\ EventMatches

UsedFacts == /\ IsFiniteSet(used) /\ Cardinality(used) \in Nat
             /\ limit \in Int /\ available \in Int

LEMMA UsedSize == ASSUME TypeOK PROVE UsedFacts
<1>1. IsFiniteSet(used)
    BY FS_Subset, ObjectsAssumption DEF TypeOK
<1> QED
    BY <1>1, FS_CardinalityType DEF UsedFacts, TypeOK

-----------------------------------------------------------------------------
(* object_list_ *)

Distinct(s) == \A i, j \in DOMAIN s : s[i] = s[j] => i = j

\* Dropping the first n objects.
LEMMA DropFirst ==
    ASSUME NEW s \in Seq(Objects), NEW n \in 0 .. Len(s), Distinct(s)
    PROVE  LET r == SubSeq(s, n + 1, Len(s)) IN
           r \in Seq(Objects) /\ Distinct(r) /\ Elems(r) \subseteq Elems(s)
<1> DEFINE r == SubSeq(s, n + 1, Len(s))
<1>1. \A i \in 1 .. Len(s) : s[i] \in Objects
    OBVIOUS
<1>2. /\ r \in Seq(Objects)
      /\ Len(r) = IF n + 1 <= Len(s) THEN Len(s) - (n + 1) + 1 ELSE 0
      /\ \A i \in 1 .. Len(s) - (n + 1) + 1 : r[i] = s[(n + 1) + i - 1]
    BY <1>1, SubSeqProperties
<1>3. \A i \in DOMAIN r : i + n \in DOMAIN s /\ r[i] = s[i + n]
    BY <1>2
<1> HIDE DEF r
<1>4. \A i, j \in DOMAIN r : r[i] = r[j] => i = j
    <2> SUFFICES ASSUME NEW i \in DOMAIN r, NEW j \in DOMAIN r, r[i] = r[j]
                 PROVE  i = j
        OBVIOUS
    <2>1. i + n = j + n
        BY <1>3 DEF Distinct
    <2> QED
        BY <1>2, <2>1
<1>5. Elems(r) \subseteq Elems(s)
    BY <1>3 DEF Elems
<1> QED
    BY <1>2, <1>4, <1>5 DEF Distinct, r

LEMMA AddLast ==
    ASSUME NEW s \in Seq(Objects), NEW o \in Objects, Distinct(s), o \notin Elems(s)
    PROVE  /\ Append(s, o) \in Seq(Objects) /\ Distinct(Append(s, o))
           /\ Elems(Append(s, o)) = Elems(s) \cup {o}
<1> DEFINE r == Append(s, o)
<1>1. /\ r \in Seq(Objects) /\ Len(r) = Len(s) + 1
      /\ \A i \in 1 .. Len(s) : r[i] = s[i]
      /\ r[Len(s) + 1] = o
    BY AppendProperties
<1>2. DOMAIN s = 1 .. Len(s) /\ DOMAIN r = 1 .. Len(s) + 1 /\ Len(s) \in Nat
    BY <1>1
<1> HIDE DEF r
<1>3. \A i \in 1 .. Len(s) : r[i] \in Elems(s) /\ r[i] # o
    BY <1>1, <1>2 DEF Elems
<1>4. Distinct(r)
    <2> SUFFICES ASSUME NEW i \in DOMAIN r, NEW j \in DOMAIN r, r[i] = r[j]
                 PROVE  i = j
        BY DEF Distinct
    <2>1. CASE i = Len(s) + 1 \/ j = Len(s) + 1
        BY <1>1, <1>2, <1>3, <2>1
    <2>2. CASE i # Len(s) + 1 /\ j # Len(s) + 1
        <3>1. i \in 1 .. Len(s) /\ j \in 1 .. Len(s)
            BY <1>2, <2>2
        <3> QED
            BY <1>1, <1>2, <3>1 DEF Distinct
    <2> QED
        BY <2>1, <2>2
<1>5. Elems(r) = Elems(s) \cup {o}
    <2>1. Elems(r) \subseteq Elems(s) \cup {o}
        <3> SUFFICES ASSUME NEW i \in DOMAIN r PROVE r[i] \in Elems(s) \cup {o}
            BY DEF Elems
        <3> QED
            BY <1>1, <1>2, <1>3
    <2>2. Elems(s) \subseteq Elems(r)
        <3> SUFFICES ASSUME NEW i \in DOMAIN s PROVE s[i] \in Elems(r)
            BY DEF Elems
        <3>1. i \in DOMAIN r /\ r[i] = s[i]
            BY <1>1, <1>2
        <3> QED
            BY <3>1 DEF Elems
    <2>3. o \in Elems(r)
        <3>1. Len(s) + 1 \in DOMAIN r
            BY <1>2
        <3> QED
            BY <1>1, <3>1 DEF Elems
    <2> QED
        BY <2>1, <2>2, <2>3
<1> QED
    BY <1>1, <1>4, <1>5 DEF r

\* The front leaves the list.
LEMMA RemoveHead ==
    ASSUME NEW s \in Seq(Objects), s # <<>>, Distinct(s)
    PROVE  /\ Head(s) \in Objects /\ Head(s) \in Elems(s)
           /\ Tail(s) \in Seq(Objects) /\ Distinct(Tail(s))
           /\ Elems(Tail(s)) \subseteq Elems(s) \ {Head(s)}
<1>1. /\ Head(s) \in Objects /\ Tail(s) \in Seq(Objects)
      /\ Len(Tail(s)) = Len(s) - 1 /\ Len(s) \in Nat /\ Len(s) # 0
      /\ \A i \in 1 .. Len(Tail(s)) : Tail(s)[i] = s[i + 1]
    BY HeadTailProperties, EmptySeq
<1>2. Head(s) = s[1] /\ 1 \in DOMAIN s
    BY <1>1
<1>3. \A i \in DOMAIN Tail(s) :
        i \in Nat /\ i >= 1 /\ i + 1 \in DOMAIN s /\ Tail(s)[i] = s[i + 1]
    BY <1>1
<1>4. Distinct(Tail(s))
    <2> SUFFICES ASSUME NEW i \in DOMAIN Tail(s), NEW j \in DOMAIN Tail(s),
                        Tail(s)[i] = Tail(s)[j]
                 PROVE  i = j
        BY DEF Distinct
    <2>1. i + 1 = j + 1
        BY <1>3 DEF Distinct
    <2> QED
        BY <1>3, <2>1
<1>5. Elems(Tail(s)) \subseteq Elems(s) \ {Head(s)}
    <2> SUFFICES ASSUME NEW i \in DOMAIN Tail(s)
                 PROVE  Tail(s)[i] \in Elems(s) /\ Tail(s)[i] # Head(s)
        BY DEF Elems
    <2>1. i + 1 # 1
        BY <1>3
    <2> QED
        BY <1>2, <1>3, <2>1 DEF Elems, Distinct
<1> QED
    BY <1>1, <1>2, <1>4, <1>5 DEF Elems

-----------------------------------------------------------------------------
(* Where the objects are *)

LEMMA TakeHands ==
    ASSUME HandInv, NEW t \in Threads, Take(t)
    PROVE  HandInv' /\ \E o \in Objects \ used : used' = used \cup {o}
<1>0. TypeOK /\ idle \in Seq(Objects) /\ used \subseteq Objects
    BY DEF HandInv, TypeOK
<1>1. PICK o \in Objects \ used :
        /\ used' = used \cup {o} /\ o \notin Elems(idle')
        /\ idle' \in Seq(Objects) /\ Distinct(idle')
        /\ Elems(idle') \cap used = {}
    <2>1. Distinct(idle) /\ Elems(idle) \cap used = {}
        BY DEF HandInv, NoDoubleHandOut, Distinct
    <2>2. CASE Reuse
        <3>1. idle # <<>> /\ used' = used \cup {Head(idle)} /\ idle' = Tail(idle)
            BY <2>2 DEF Reuse
        <3> QED
            BY <1>0, <2>1, <3>1, RemoveHead
    <2>3. CASE Create
        <3>1. idle = <<>> /\ idle' = <<>> /\ Elems(idle) = {}
            BY <2>3 DEF Create, Elems
        <3> QED
            BY <1>0, <2>1, <2>3, <3>1 DEF Create
    <2> QED
        BY <2>2, <2>3 DEF Take
<1>2. TypeOK'
    BY <1>0, <1>1 DEF TypeOK, Take, Taken
<1>3. NoDoubleHandOut'
    BY <1>1 DEF NoDoubleHandOut, Distinct
<1> QED
    BY <1>1, <1>2, <1>3 DEF HandInv

LEMMA MoveHands ==
    ASSUME HandInv, NEW t \in Threads, Enter(t) \/ Pass(t) \/ TooLate(t)
    PROVE  HandInv'
<1>1. TypeOK' /\ UNCHANGED <<idle, used>>
    BY DEF Enter, Pass, TooLate, HandInv, TypeOK
<1> QED
    BY <1>1 DEF HandInv, NoDoubleHandOut, Elems

LEMMA PushHands ==
    ASSUME HandInv, NEW o \in Objects, Push(o)
    PROVE  HandInv'
<1>0. TypeOK /\ idle \in Seq(Objects)
    BY DEF HandInv, TypeOK
<1>1. o \in used /\ used' = used \ {o}
    BY DEF Push
<1>2. Distinct(idle) /\ Elems(idle) \cap used = {}
    BY DEF HandInv, NoDoubleHandOut, Distinct
<1>3. /\ idle' \in Seq(Objects) /\ Distinct(idle')
      /\ Elems(idle') \subseteq Elems(idle) \cup {o}
    <2>1. idle' = idle \/ idle' = Append(idle, o)
        BY DEF Push
    <2> QED
        BY <1>0, <1>1, <1>2, <2>1, AddLast
<1>4. TypeOK'
    BY <1>0, <1>1, <1>3 DEF TypeOK, Push, Back
<1>5. NoDoubleHandOut'
    BY <1>1, <1>2, <1>3 DEF NoDoubleHandOut, Distinct
<1> QED
    BY <1>4, <1>5 DEF HandInv

LEMMA DeleteHands ==
    ASSUME HandInv, NEW n \in 0 .. Len(idle), Delete(n), holding' \in Nat
    PROVE  HandInv'
<1>0. TypeOK /\ idle \in Seq(Objects) /\ n \in Nat
    BY DEF HandInv, TypeOK
<1>1. UNCHANGED <<limit, pc, used>> /\ idle' = SubSeq(idle, n + 1, Len(idle))
    BY DEF Delete
<1>2. Distinct(idle) /\ Elems(idle) \cap used = {}
    BY DEF HandInv, NoDoubleHandOut, Distinct
<1>3. /\ idle' \in Seq(Objects) /\ Distinct(idle')
      /\ Elems(idle') \subseteq Elems(idle)
    BY <1>0, <1>1, <1>2, DropFirst
<1>4. TypeOK'
    BY <1>0, <1>1, <1>3 DEF TypeOK, Delete
<1>5. NoDoubleHandOut'
    BY <1>1, <1>2, <1>3 DEF NoDoubleHandOut, Distinct
<1> QED
    BY <1>4, <1>5 DEF HandInv

LEMMA TrimDeletes ==
    ASSUME TypeOK, Reset \/ \E count \in Holdings : SetMaxHoldingCount(count)
    PROVE  holding' \in Nat /\ \E n \in 0 .. Len(idle) : Delete(n)
<1>0. idle \in Seq(Objects) /\ Len(idle) \in Nat /\ holding \in Nat
    BY DEF TypeOK
<1>1. CASE Reset
    BY <1>0, <1>1 DEF Reset
<1>2. ASSUME NEW count \in Holdings, SetMaxHoldingCount(count)
      PROVE  holding' \in Nat /\ \E n \in 0 .. Len(idle) : Delete(n)
    <2>1. count \in Nat /\ holding' = count
        BY <1>2, HoldingAssumption DEF SetMaxHoldingCount
    <2> DEFINE n == IF Len(idle) > count THEN Len(idle) - count ELSE 0
    <2>2. n \in 0 .. Len(idle)
        BY <1>0, <2>1
    <2>3. Delete(n)
        BY <1>2 DEF SetMaxHoldingCount
    <2> HIDE DEF n
    <2> QED
        BY <2>1, <2>2, <2>3
<1> QED
    BY <1>1, <1>2

LEMMA HandsInit == Init => HandInv
<1> SUFFICES ASSUME Init PROVE HandInv
    OBVIOUS
<1>1. limit \in Int /\ available = limit /\ event = TRUE /\ idle = <<>> /\ used = {}
    BY LimitsAssumption DEF Init
<1>2. pc \in [Threads -> {"out", "wait", "recheck", "direct"}]
    BY DEF Init
<1>3. holding \in Nat /\ trimmed \in BOOLEAN
    BY HoldingAssumption DEF Init
<1>4. TypeOK
    BY <1>1, <1>2, <1>3 DEF TypeOK
<1>5. NoDoubleHandOut
    BY <1>1 DEF NoDoubleHandOut, Elems
<1> QED
    BY <1>4, <1>5 DEF HandInv

LEMMA HandsKeep == HandInv /\ [Next]_vars => HandInv'
<1> SUFFICES ASSUME HandInv, [Next]_vars PROVE HandInv'
    OBVIOUS
<1>1. CASE \E t \in Threads : Enter(t) \/ PopStep(t)
    BY <1>1, TakeHands, MoveHands DEF PopStep
<1>2. CASE \E o \in Objects : Push(o)
    BY <1>2, PushHands
<1>3. CASE Reset \/ \E count \in Holdings : SetMaxHoldingCount(count)
    <2>1. /\ holding' \in Nat
          /\ \E n \in 0 .. Len(idle) : Delete(n)
        BY <1>3, TrimDeletes DEF HandInv
    <2> QED
        BY <2>1, DeleteHands
<1>4. CASE UNCHANGED vars
    BY <1>4 DEF vars, HandInv, TypeOK, NoDoubleHandOut, Elems
<1> QED
    BY <1>1, <1>2, <1>3, <1>4 DEF Next

-----------------------------------------------------------------------------
(* The counts: pop() *)

LEMMA TakeKeeps ==
    ASSUME IInv, NEW t \in Threads, Take(t)
    PROVE  CountInv' /\ EventMatches' /\ (UsedCounted => UsedCounted')
<1>0. UsedFacts /\ TypeOK
    BY UsedSize DEF IInv, HandInv
<1>1. (limit >= 0 => available > 0) /\ (limit < 0 => available < 0)
    BY <1>0 DEF IInv, CountInv, SignKept, DirectUnlimited, UsedFacts,
                Take, MayTake, StillLeft
<1>2. /\ UNCHANGED <<limit, holding, trimmed>> /\ pc' = [pc EXCEPT ![t] = "out"]
      /\ available' = (IF limit >= 0 THEN available - 1 ELSE available)
      /\ event' = (event /\ ~(limit >= 0 /\ available - 1 <= 0))
    BY <1>0, <1>1 DEF Take, Taken, UsedFacts
<1>3. PICK o \in Objects \ used : used' = used \cup {o}
    BY TakeHands DEF IInv
<1>4. Cardinality(used') = Cardinality(used) + 1
    BY <1>0, <1>3, FS_AddElement DEF UsedFacts
<1>5. SignKept' /\ DirectUnlimited'
    BY <1>0, <1>1, <1>2
    DEF IInv, CountInv, SignKept, DirectUnlimited, UsedFacts, TypeOK
<1>6. PermitsKept' /\ (UsedCounted => UsedCounted')
    BY <1>0, <1>2, <1>4 DEF IInv, CountInv, PermitsKept, UsedCounted, UsedFacts
<1>7. EventMatches'
    <2>1. event /\ ((limit >= 0 /\ available - 1 <= 0) <=> available' = 0)
        BY <1>0, <1>1, <1>2 DEF IInv, EventMatches, UsedFacts
    <2>2. event' <=> ~(limit >= 0 /\ available - 1 <= 0)
        BY <1>2, <2>1
    <2> QED
        BY <2>1, <2>2 DEF EventMatches
<1> QED
    BY <1>5, <1>6, <1>7 DEF CountInv

\* The other steps of pop() only move the thread.
LEMMA MoveKeeps ==
    ASSUME IInv, NEW t \in Threads, Enter(t) \/ Pass(t) \/ TooLate(t)
    PROVE  CountInv' /\ EventMatches' /\ (UsedCounted => UsedCounted')
<1>0. TypeOK /\ UsedFacts
    BY UsedSize DEF IInv, HandInv
<1>1. /\ UNCHANGED <<idle, limit, available, holding, event, used, trimmed>>
      /\ DirectUnlimited'
    BY <1>0 DEF Enter, Pass, TooLate, TypeOK, IInv, CountInv, DirectUnlimited,
                SignKept, UsedFacts
<1>2. SignKept' /\ PermitsKept' /\ EventMatches' /\ (UsedCounted => UsedCounted')
    BY <1>1 DEF IInv, CountInv, SignKept, PermitsKept, EventMatches, UsedCounted
<1> QED
    BY <1>1, <1>2 DEF CountInv

-----------------------------------------------------------------------------
(* push(), reset(), set_max_holding_count() *)

LEMMA PushKeeps ==
    ASSUME IInv, NEW o \in Objects, Push(o)
    PROVE  CountInv' /\ EventMatches' /\ (UsedCounted => UsedCounted')
<1>0. UsedFacts
    BY UsedSize DEF IInv, HandInv
<1>1. /\ UNCHANGED <<limit, holding, pc, trimmed>> /\ o \in used /\ used' = used \ {o}
      /\ available' = (IF available >= 0 THEN available + 1 ELSE available)
      /\ event' = (event \/ (available >= 0 /\ available + 1 = 1))
    BY DEF Push, Back
<1>2. Cardinality(used') = Cardinality(used) - 1
    BY <1>0, <1>1, FS_RemoveElement DEF UsedFacts
<1>3. SignKept' /\ DirectUnlimited'
    BY <1>0, <1>1 DEF IInv, CountInv, SignKept, DirectUnlimited, UsedFacts
<1>4. PermitsKept' /\ (UsedCounted => UsedCounted')
    BY <1>0, <1>1, <1>2
    DEF IInv, CountInv, SignKept, PermitsKept, UsedCounted, UsedFacts
<1>5. EventMatches'
    <2>1. available' # 0 <=> (available # 0 \/ (available >= 0 /\ available + 1 = 1))
        BY <1>0, <1>1 DEF UsedFacts
    <2>2. event' <=> (event \/ (available >= 0 /\ available + 1 = 1))
        BY <1>1
    <2> QED
        BY <2>1, <2>2 DEF IInv, EventMatches
<1> QED
    BY <1>3, <1>4, <1>5 DEF CountInv

LEMMA DeleteKeeps ==
    ASSUME IInv, NEW n \in 0 .. Len(idle), Delete(n)
    PROVE  CountInv' /\ EventMatches' /\ UsedCounted'
<1>0. UsedFacts /\ idle \in Seq(Objects)
    BY UsedSize DEF IInv, HandInv, TypeOK
<1>1. /\ UNCHANGED <<limit, pc, used>> /\ trimmed' = TRUE /\ n \in Nat
      /\ available' = (IF available >= 0 THEN available + n ELSE available)
      /\ event' = (event \/ (available >= 0 /\ available + n = n /\ n > 0))
    BY <1>0 DEF Delete
<1>2. SignKept' /\ DirectUnlimited'
    BY <1>0, <1>1 DEF IInv, CountInv, SignKept, DirectUnlimited, UsedFacts
<1>3. PermitsKept'
    BY <1>0, <1>1 DEF IInv, CountInv, SignKept, PermitsKept, UsedFacts
<1>4. EventMatches'
    <2> DEFINE Raised == available >= 0 /\ available + n = n /\ n > 0
    <2>1. available' # 0 <=> (available # 0 \/ Raised)
        BY <1>0, <1>1 DEF UsedFacts
    <2>2. event' <=> (event \/ Raised)
        BY <1>1
    <2> HIDE DEF Raised
    <2> QED
        BY <2>1, <2>2 DEF IInv, EventMatches
<1>5. UsedCounted'
    BY <1>1 DEF UsedCounted
<1> QED
    BY <1>2, <1>3, <1>4, <1>5 DEF CountInv

-----------------------------------------------------------------------------
LEMMA InitHolds ==
    ASSUME 0 \notin Limits
    PROVE  Init => IInv /\ UsedCounted
<1> SUFFICES ASSUME Init PROVE IInv /\ UsedCounted
    OBVIOUS
<1>1. /\ limit \in Int /\ limit # 0 /\ available = limit /\ event = TRUE
      /\ used = {} /\ Cardinality(used) = 0
    BY LimitsAssumption, FS_EmptySet DEF Init
<1>2. DirectUnlimited
    BY DEF Init, DirectUnlimited
<1>3. SignKept /\ PermitsKept /\ EventMatches /\ UsedCounted
    BY <1>1 DEF SignKept, PermitsKept, EventMatches, UsedCounted
<1> QED
    BY <1>2, <1>3, HandsInit DEF IInv, CountInv

\* Until somebody trims, the books balance exactly.
LEMMA StepCounts ==
    ASSUME IInv, [Next]_vars
    PROVE  IInv' /\ (UsedCounted => UsedCounted')
<1>1. HandInv'
    BY HandsKeep DEF IInv
<1>2. CountInv' /\ EventMatches' /\ (UsedCounted => UsedCounted')
    <2>1. CASE \E t \in Threads : Enter(t) \/ PopStep(t)
        BY <2>1, TakeKeeps, MoveKeeps DEF PopStep
    <2>2. CASE \E o \in Objects : Push(o)
        BY <2>2, PushKeeps
    <2>3. CASE Reset \/ \E count \in Holdings : SetMaxHoldingCount(count)
        <3>1. \E n \in 0 .. Len(idle) : Delete(n)
            BY <2>3, TrimDeletes DEF IInv, HandInv
        <3> QED
            BY <3>1, DeleteKeeps
    <2>4. CASE UNCHANGED vars
        BY <2>4 DEF vars, IInv, CountInv, SignKept, DirectUnlimited, PermitsKept,
                    EventMatches, UsedCounted
    <2> QED
        BY <2>1, <2>2, <2>3, <2>4 DEF Next
<1> QED
    BY <1>1, <1>2 DEF IInv

LEMMA StepKeeps == IInv /\ [Next]_vars => IInv'
BY StepCounts

\* In a pool with a limit other than 0 the event is down exactly while nothing
\* is left, whatever pop(), push(), reset() and set_max_holding_count() race
\* (zfz_object_pool.hpp:141-148, 181-188, 205-212, 237-244).
THEOREM EventTheorem ==
    ASSUME 0 \notin Limits
    PROVE  Spec => [](TypeOK /\ EventMatches)
<1>1. Init => IInv
    BY InitHolds
<1>2. IInv => TypeOK /\ EventMatches
    BY DEF IInv, HandInv
<1> QED
    BY <1>1, <1>2, StepKeeps, PTL DEF Spec

\* No object is handed out twice, or waits for reuse twice or while it is out,
\* in any pool: limited, unlimited, limited to nothing, trimmed or not.
THEOREM NoDoubleHandOutTheorem == Spec => []NoDoubleHandOut
<1>1. HandInv => NoDoubleHandOut
    BY DEF HandInv
<1> QED
    BY <1>1, HandsInit, HandsKeep, PTL DEF Spec

\* A limited pool loses no permit: what is not handed out is available.
THEOREM PermitsTheorem ==
    ASSUME 0 \notin Limits
    PROVE  Spec => []PermitsKept
<1>1. Init => IInv
    BY InitHolds
<1>2. IInv => PermitsKept
    BY DEF IInv, CountInv
<1> QED
    BY <1>1, <1>2, StepKeeps, PTL DEF Spec

\* Until somebody trims the pool, it keeps to its limit, although pop()
\* decides whether to wait from an unlocked read (zfz_object_pool.hpp:116).
THEOREM LimitTheorem ==
    ASSUME 0 \notin Limits
    PROVE  Spec => []UsedWithinLimit
<1>1. Init => IInv /\ UsedCounted
    BY InitHolds
<1>2. IInv /\ UsedCounted /\ [Next]_vars => (IInv /\ UsedCounted)'
    BY StepCounts
<1>3. IInv /\ UsedCounted => UsedWithinLimit
    <2> SUFFICES ASSUME IInv, UsedCounted PROVE UsedWithinLimit
        OBVIOUS
    <2>1. UsedFacts
        BY UsedSize DEF IInv, HandInv
    <2> QED
        BY <2>1 DEF IInv, CountInv, SignKept, UsedCounted, UsedWithinLimit, UsedFacts
<1> QED
    BY <1>1, <1>2, <1>3, PTL DEF Spec
=============================================================================
