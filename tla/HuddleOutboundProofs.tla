------------------------ MODULE HuddleOutboundProofs ------------------------
(* What HuddleOutbound promises whatever the cap, the bursts and the lag. *)
EXTENDS HuddleOutbound, FiniteSetTheorems, SequenceTheorems, TLAPS

USE OutboundAssumption, ModesAssumption
DEF OutboundAssumption, ModesAssumption, callerVars, encVars, senderVars, history

-----------------------------------------------------------------------------
(* Sequences without repetition *)

Distinct(s) == \A i, j \in 1..Len(s) : s[i] = s[j] => i = j

\* A sequence's elements.
LEMMA RangeOf ==
  ASSUME NEW S, NEW s \in Seq(S)
  PROVE  Range(s) = {s[i] : i \in 1..Len(s)}
BY DEF Range

\* popleft and append on typed sequences.
LEMMA SeqTypes ==
  ASSUME NEW S, NEW s \in Seq(S)
  PROVE  /\ s # << >> => Head(s) \in S /\ Tail(s) \in Seq(S)
         /\ \A x \in S : Append(s, x) \in Seq(S)
OBVIOUS

\* What is left of a single frame.
LEMMA OneTail ==
  ASSUME NEW S, NEW s \in Seq(S), Len(s) = 1
  PROVE  Tail(s) = << >>
<1>1. Tail(s) \in Seq(S) /\ Len(Tail(s)) = 0
  OBVIOUS
<1> QED BY <1>1, EmptySeq

\* Appending a new element, as QueueFrame and Send do.
LEMMA AppendDistinct ==
  ASSUME NEW S, NEW s \in Seq(S), NEW x \in S, Distinct(s), x \notin Range(s)
  PROVE  /\ Append(s, x) \in Seq(S) /\ Distinct(Append(s, x))
         /\ Range(Append(s, x)) = Range(s) \cup {x}
<1> DEFINE t == Append(s, x)
<1>1. /\ t \in Seq(S) /\ Len(t) = Len(s) + 1 /\ Len(s) \in Nat
      /\ \A i \in 1..Len(s) : t[i] = s[i]
      /\ t[Len(s) + 1] = x
  OBVIOUS
<1>2. \A i \in 1..Len(s) : s[i] # x BY RangeOf
<1>3. Distinct(t) BY <1>1, <1>2 DEF Distinct
<1>4. Range(t) = Range(s) \cup {x}
  <2> HIDE DEF t
  <2>1. Range(t) = {t[i] : i \in 1..Len(s) + 1} BY <1>1, RangeOf
  <2>2. Range(s) = {s[i] : i \in 1..Len(s)} BY RangeOf
  <2>3. ASSUME NEW y \in Range(t) PROVE y \in Range(s) \cup {x}
    <3>1. PICK i \in 1..Len(s) + 1 : y = t[i] BY <2>1
    <3> QED BY <1>1, <2>2, <3>1
  <2>4. ASSUME NEW y \in Range(s) \cup {x} PROVE y \in Range(t)
    <3>1. CASE y \in Range(s)
      <4>1. PICK i \in 1..Len(s) : y = s[i] BY <2>2, <3>1
      <4> QED BY <1>1, <2>1, <4>1
    <3>2. CASE y = x
      <4>1. Len(s) + 1 \in 1..Len(s) + 1 BY <1>1
      <4> QED BY <1>1, <2>1, <3>2, <4>1
    <3> QED BY <3>1, <3>2
  <2> QED BY <2>3, <2>4
<1> QED BY <1>1, <1>3, <1>4

\* Taking the oldest element, as popleft does.
LEMMA TailDistinct ==
  ASSUME NEW S, NEW s \in Seq(S), s # << >>, Distinct(s)
  PROVE  /\ Tail(s) \in Seq(S) /\ Distinct(Tail(s)) /\ Head(s) \in S
         /\ Head(s) \in Range(s) /\ Range(Tail(s)) = Range(s) \ {Head(s)}
<1> DEFINE t == Tail(s)
<1>1. /\ t \in Seq(S) /\ Len(s) \in Nat \ {0} /\ Len(t) = Len(s) - 1
      /\ Head(s) = s[1] /\ s[1] \in S
      /\ \A i \in 1..Len(t) : t[i] = s[i + 1]
  OBVIOUS
<1>2. Distinct(t) BY <1>1 DEF Distinct
<1>3. Range(t) = {t[i] : i \in 1..Len(t)} BY <1>1, RangeOf, ZenonT(30)
<1>4. Range(s) = {s[i] : i \in 1..Len(s)} BY RangeOf
<1>5. Head(s) \in Range(s) BY <1>1, <1>4
<1> HIDE DEF t
<1>6. ASSUME NEW y \in Range(t) PROVE y \in Range(s) \ {Head(s)}
  <2>1. PICK i \in 1..Len(t) : y = t[i] BY <1>3
  <2>2. i + 1 \in 1..Len(s) /\ y = s[i + 1] BY <1>1, <2>1
  <2>3. y # s[1] BY <1>1, <2>2 DEF Distinct
  <2> QED BY <1>1, <1>4, <2>2, <2>3
<1>7. ASSUME NEW y \in Range(s) \ {Head(s)} PROVE y \in Range(t)
  <2>1. PICK i \in 1..Len(s) : y = s[i] BY <1>4
  <2>2. i # 1 BY <1>1, <2>1
  <2>3. i - 1 \in 1..Len(t) /\ t[i - 1] = s[i] BY <1>1, <2>2
  <2> QED BY <1>3, <2>1, <2>3
<1>8. Range(t) = Range(s) \ {Head(s)} BY <1>6, <1>7
<1> QED BY <1>1, <1>2, <1>5, <1>8 DEF t

\* Appending a sequence that shares nothing with the first, as Extend does.
LEMMA ConcatDistinct ==
  ASSUME NEW S, NEW s \in Seq(S), NEW t \in Seq(S), Distinct(s), Distinct(t),
         Range(s) \cap Range(t) = {}
  PROVE  /\ s \o t \in Seq(S) /\ Distinct(s \o t)
         /\ Range(s \o t) = Range(s) \cup Range(t)
<1> DEFINE u == s \o t
<1>1. /\ u \in Seq(S) /\ Len(s) \in Nat /\ Len(t) \in Nat /\ Len(u) = Len(s) + Len(t)
      /\ \A i \in 1..Len(s) : u[i] = s[i]
      /\ \A i \in 1..Len(t) : u[Len(s) + i] = t[i]
  OBVIOUS
<1>2. /\ Range(s) = {s[i] : i \in 1..Len(s)} /\ Range(t) = {t[i] : i \in 1..Len(t)}
      /\ Range(u) = {u[i] : i \in 1..Len(u)}
  BY <1>1, RangeOf
<1> HIDE DEF u
<1>3. \A k \in 1..Len(u) : k \in 1..Len(s) \/ \E i \in 1..Len(t) : k = Len(s) + i
  <2> TAKE k \in 1..Len(u)
  <2>1. CASE k <= Len(s) BY <1>1, <2>1
  <2>2. CASE k > Len(s)
    <3> DEFINE i == k - Len(s)
    <3>1. i \in 1..Len(t) /\ k = Len(s) + i BY <1>1, <2>2
    <3> HIDE DEF i
    <3> QED BY <3>1
  <2> QED BY <1>1, <2>1, <2>2
<1>4. \A i \in 1..Len(s), j \in 1..Len(t) : s[i] # t[j] BY <1>2
<1>5. Distinct(u)
  <2> SUFFICES ASSUME NEW k \in 1..Len(u), NEW l \in 1..Len(u), u[k] = u[l] PROVE k = l
    BY DEF Distinct
  <2>1. CASE k \in 1..Len(s) /\ l \in 1..Len(s) BY <1>1, <2>1 DEF Distinct
  <2>2. CASE k \in 1..Len(s) /\ l \notin 1..Len(s) BY <1>1, <1>3, <1>4, <2>2
  <2>3. CASE k \notin 1..Len(s) /\ l \in 1..Len(s) BY <1>1, <1>3, <1>4, <2>3
  <2>4. CASE k \notin 1..Len(s) /\ l \notin 1..Len(s)
    <3>1. PICK i \in 1..Len(t) : k = Len(s) + i BY <1>3, <2>4
    <3>2. PICK j \in 1..Len(t) : l = Len(s) + j BY <1>3, <2>4
    <3> QED BY <1>1, <3>1, <3>2 DEF Distinct
  <2> QED BY <2>1, <2>2, <2>3, <2>4
<1>6. Range(u) \subseteq Range(s) \cup Range(t)
  <2> SUFFICES ASSUME NEW k \in 1..Len(u) PROVE u[k] \in Range(s) \cup Range(t)
    BY <1>2
  <2>1. CASE k \in 1..Len(s) BY <1>1, <1>2, <2>1
  <2>2. CASE k \notin 1..Len(s)
    <3>1. PICK i \in 1..Len(t) : k = Len(s) + i BY <1>3, <2>2
    <3> QED BY <1>1, <1>2, <3>1
  <2> QED BY <2>1, <2>2
<1>7. Range(s) \cup Range(t) \subseteq Range(u)
  <2>1. \A i \in 1..Len(s) : i \in 1..Len(u) BY <1>1
  <2>2. \A i \in 1..Len(t) : Len(s) + i \in 1..Len(u) BY <1>1
  <2> QED BY <1>1, <1>2, <2>1, <2>2
<1> QED BY <1>1, <1>5, <1>6, <1>7 DEF u

\* The empty sequence.
LEMMA EmptyDistinct == Distinct(<< >>) /\ Range(<< >>) = {}
BY DEF Distinct, Range

\* It has no more elements than its length, and as many if none is repeated.
LEMMA RangeCard ==
  ASSUME NEW S, NEW s \in Seq(S)
  PROVE  /\ IsFiniteSet(Range(s)) /\ Cardinality(Range(s)) <= Len(s)
         /\ Distinct(s) => Cardinality(Range(s)) = Len(s)
<1>1. /\ Len(s) \in Nat /\ s \in [1..Len(s) -> S] BY LenProperties
<1>2. Range(s) = {s[i] : i \in 1..Len(s)} BY RangeOf
<1>3. s \in Surjection(1..Len(s), Range(s)) BY <1>1, <1>2 DEF Surjection
<1>4. IsFiniteSet(1..Len(s)) /\ Cardinality(1..Len(s)) = Len(s) BY <1>1, FS_Interval, SMTT(30)
<1>5. Distinct(s) => s \in Injection(1..Len(s), Range(s))
  BY <1>1, <1>3 DEF Distinct, Injection, Surjection, IsInjective
<1> QED BY <1>3, <1>4, <1>5, FS_Surjection
-----------------------------------------------------------------------------
(* Types *)

\* What the sender's place in its loop says of its locals, and the caller's of
\* what it has in hand.
AtHand ==
  /\ io \in {"sending", "extending"} => held # None
  /\ io \notin {"sending", "extending", "ended"} => held = None
  /\ io # "extending" => extra = << >>
  /\ call # "queueing" => hand = << >>

\* Only silence mode gets to encode.
Silent == io \in {"encoding", "extending"} => StreamSilence

TypeInv == TypeOK /\ AtHand /\ Silent

\* Init.
LEMMA TypeInit == Init => TypeInv
<1> SUFFICES ASSUME Init PROVE TypeInv
  OBVIOUS
<1>1. io \in {"asleep", "picking"} BY DEF Init
<1>2. TypeOK
  <2>1. 0 \in 0..MaxFrames /\ 0 \in 0..MaxBehind /\ 0 \in 0..MaxSpare[mode] /\ << >> \in Seq(Frames)
    BY SpareAssumption DEF Init
  <2>2. mode \in Modes /\ io \in IoStates BY <1>1 DEF Init, IoStates
  <2> QED BY <2>1, <2>2 DEF Init, TypeOK
<1>3. AtHand /\ Silent BY <1>1 DEF Init, AtHand, Silent
<1> QED BY <1>2, <1>3 DEF TypeInv

\* What encode() returns: the next n numbers, in order.
LEMMA NumberedType ==
  ASSUME TypeOK, NEW n \in 0..(MaxFrames - nframe)
  PROVE  /\ Numbered(n) \in Seq(Frames) /\ Len(Numbered(n)) = n
         /\ \A i \in 1..n : Numbered(n)[i] = nframe + i
         /\ nframe + n \in 0..MaxFrames
<1>1. \A i \in 1..n : nframe + i \in Frames BY DEF TypeOK, Frames
<1>2. n \in Nat BY DEF TypeOK
<1> QED BY <1>1, <1>2 DEF TypeOK, Numbered

\* An encode() that raises.
LEMMA RaisesType ==
  ASSUME TypeOK, NEW k \in Nat, EncodeRaises(k)
  PROVE  nframe' \in 0..MaxFrames /\ spare' \in 0..MaxSpare[mode] /\ failed' = TRUE /\ lost' \subseteq Frames
<1>1. PICK n \in 0..(MaxFrames - nframe) :
        nframe' = nframe + n /\ lost' = lost \cup Range(Numbered(n))
  BY DEF EncodeRaises
<1>2. nframe' \in 0..MaxFrames /\ Numbered(n) \in Seq(Frames) BY <1>1, NumberedType
<1>3. Range(Numbered(n)) \subseteq Frames BY <1>2, RangeOf
<1>4. MaxSpare[mode] \in Nat BY SpareAssumption DEF TypeOK
<1> QED BY <1>1, <1>2, <1>3, <1>4 DEF EncodeRaises, TypeOK

\* Each step keeps the types.
LEMMA TypeNext == TypeInv /\ [Next]_vars => TypeInv'
<1> SUFFICES ASSUME TypeInv, [Next]_vars PROVE TypeInv'
  OBVIOUS
<1> USE DEF TypeInv, TypeOK, AtHand, Silent, StreamSilence, IoStates, Awaits, Over
<1>a. out # << >> => Head(out) \in Frames /\ Tail(out) \in Seq(Frames)
  BY SeqTypes
<1>b. None \notin Frames /\ Len(out) \in Nat /\ Len(hand) \in Nat /\ 0 \in 0..MaxSpare[mode]
  BY SpareAssumption DEF Frames
<1>1. CASE SendPcm
  <2>1. PICK k \in 0..MaxBurst :
          \/ \E n \in 0..(MaxFrames - nframe) :
               Encode(k, n) /\ hand' = Numbered(n) /\ call' = "queueing"
          \/ EncodeRaises(k) /\ UNCHANGED <<hand, call>>
    BY <1>1 DEF SendPcm
  <2>2. CASE EncodeRaises(k) /\ UNCHANGED <<hand, call>>
    <3>a. k \in Nat OBVIOUS
    <3>1. /\ nframe' \in 0..MaxFrames /\ spare' \in 0..MaxSpare[mode] /\ failed' = TRUE
          /\ lost' \subseteq Frames
      BY <2>2, <3>a, RaisesType
    <3>2. carry' \in BOOLEAN /\ UNCHANGED <<mode, dropped, out, wakeups, ready, senderVars, sock, history>>
      BY <1>1 DEF SendPcm
    <3> QED BY <2>2, <3>1, <3>2
  <2>3. CASE \E n \in 0..(MaxFrames - nframe) :
               Encode(k, n) /\ hand' = Numbered(n) /\ call' = "queueing"
    <3>1. PICK n \in 0..(MaxFrames - nframe) :
            Encode(k, n) /\ hand' = Numbered(n) /\ call' = "queueing"
      BY <2>3
    <3>2. hand' \in Seq(Frames) /\ nframe' \in 0..MaxFrames
      BY <3>1, NumberedType DEF Encode
    <3> QED BY <1>b, <1>1, <3>1, <3>2 DEF SendPcm, Encode
  <2> QED BY <2>1, <2>2, <2>3
<1>2. CASE FlushPcm
  <2>1. CASE nframe < MaxFrames /\ hand' = Numbered(1) /\ nframe' = nframe + 1 /\ call' = "queueing"
    <3>1. hand' \in Seq(Frames) /\ nframe' \in 0..MaxFrames
      BY <2>1, NumberedType
    <3> QED BY <1>b, <1>2, <2>1, <3>1 DEF FlushPcm
  <2>2. CASE UNCHANGED <<hand, nframe, call>>
    BY <1>b, <1>2, <2>2 DEF FlushPcm
  <2> QED BY <1>2, <2>1, <2>2 DEF FlushPcm
<1>3. CASE QueueFrame BY <1>a, <1>3 DEF QueueFrame
<1>4. CASE WakeSender BY <1>4 DEF WakeSender
<1>5. CASE ClearCount BY <1>b, <1>5 DEF ClearCount
<1>6. CASE ClearOut
  <2>1. Range(out) \subseteq Frames BY RangeOf
  <2> QED BY <1>6, <2>1 DEF ClearOut
<1>7. CASE Tick BY <1>7 DEF Tick
<1>8. CASE DropLate
  <2>1. left > 0 => left - 1 \in 0..MaxBehind OBVIOUS
  <2>2. out' \in Seq(Frames) /\ late' \subseteq Frames
    BY <1>a, <1>8 DEF DropLate, Crash, PopLate
  <2> QED BY <1>8, <2>1, <2>2 DEF DropLate, Crash
<1>9. CASE CapQueue BY <1>9 DEF CapQueue
<1>10. CASE TrimQueue
  <2>1. out' \in Seq(Frames) /\ late' \subseteq Frames
    BY <1>a, <1>10 DEF TrimQueue, Crash, PopLate
  <2> QED BY <1>10, <2>1 DEF TrimQueue, Crash
<1>11. CASE Pick
  <2>1. CASE out # << >> /\ TakeFrame /\ io' = "sending" /\ UNCHANGED ready
    BY <1>a, <1>b, <1>11, <2>1 DEF Pick, TakeFrame
  <2>2. CASE io' = "encoding" /\ UNCHANGED <<out, held, ready>>
    BY <1>11, <2>2 DEF Pick
  <2>3. CASE io' = "waiting" /\ ready' = FALSE /\ UNCHANGED <<out, held>>
    BY <1>11, <2>3 DEF Pick
  <2> QED BY <1>11, <2>1, <2>2, <2>3 DEF Pick
<1>12. CASE EncodeSilence
  <2>1. CASE EncodeRaises(Silence) /\ io' = "crashed" /\ UNCHANGED <<held, extra>>
    <3>1. /\ nframe' \in 0..MaxFrames /\ spare' \in 0..MaxSpare[mode] /\ failed' = TRUE
          /\ lost' \subseteq Frames
      BY <2>1, RaisesType DEF Silence
    <3> QED BY <1>12, <2>1, <3>1 DEF EncodeSilence
  <2>2. ASSUME NEW n \in 0..(MaxFrames - nframe), Encode(Silence, n),
               \/ n = 0 /\ io' = NextRound /\ UNCHANGED <<held, extra>>
               \/ n > 0 /\ held' = nframe + 1 /\ extra' = Tail(Numbered(n))
                  /\ io' = IF n = 1 THEN "sending" ELSE "extending"
        PROVE  TypeInv'
    <3>1. nframe' \in 0..MaxFrames BY <2>2, NumberedType DEF Encode
    <3>2. CASE n = 0 BY <1>b, <1>12, <2>2, <3>1, <3>2 DEF EncodeSilence, Encode, NextRound
    <3>3. CASE n > 0
      <4>1. Numbered(n) \in Seq(Frames) /\ Len(Numbered(n)) = n
        BY NumberedType
      <4>2. extra' \in Seq(Frames) /\ (n = 1 => extra' = << >>)
        <5>1. Numbered(n) # << >> BY <3>3, <4>1
        <5>2. extra' = Tail(Numbered(n)) BY <2>2, <3>3
        <5>3. Tail(Numbered(n)) \in Seq(Frames) BY <4>1, <5>1, SeqTypes
        <5>4. n = 1 => Tail(Numbered(n)) = << >> BY <4>1, OneTail
        <5> QED BY <5>2, <5>3, <5>4
      <4>3. held' \in Frames BY <2>2, <3>3 DEF Frames
      <4>4. held' # None BY <1>b, <4>3
      <4> QED BY <1>b, <1>12, <2>2, <3>1, <3>3, <4>2, <4>3, <4>4 DEF EncodeSilence, Encode
    <3>4. n = 0 \/ n > 0 OBVIOUS
    <3> QED BY <3>2, <3>3, <3>4
  <2> HIDE DEF TypeInv
  <2> QED BY <1>12, <2>1, <2>2, Zenon DEF EncodeSilence
<1>22. CASE Extend BY <1>22, SMTT(30) DEF Extend
<1>13. CASE Send BY <1>13, SMTT(30) DEF Send, NextRound
<1>14. CASE SendFails BY <1>14, SMTT(30) DEF SendFails
<1>15. CASE WaitOver BY <1>15, SMTT(30) DEF WaitOver, NextRound
<1>16. CASE RunWakeup
  <2>1. /\ wakeups' \in BOOLEAN /\ ready' \in BOOLEAN
        /\ UNCHANGED <<mode, callerVars, out, encVars, senderVars, sock, history>>
    BY <1>16 DEF RunWakeup
  <2> QED BY <2>1
<1>17. CASE LoseConnection BY <1>17, SMTT(30) DEF LoseConnection
<1>18. CASE LeaveBegin BY <1>18, SMTT(30) DEF LeaveBegin
<1>19. CASE CancelSender BY <1>19, SMTT(30) DEF CancelSender
<1>20. CASE LeaveDone BY <1>20, SMTT(30) DEF LeaveDone
<1>21. CASE UNCHANGED vars BY <1>21 DEF vars
<1> QED
  <2> HIDE DEF TypeInv
  <2> QED
    BY <1>1, <1>2, <1>3, <1>4, <1>5, <1>6, <1>7, <1>8, <1>9, <1>10, <1>11, <1>12, <1>13, <1>14,
       <1>15, <1>16, <1>17, <1>18, <1>19, <1>20, <1>21, <1>22 DEF Next, Caller, Sender

\* Every variable keeps its type, however the two threads interleave.
THEOREM OutboundTypeCorrect == Spec => []TypeOK
<1>1. TypeInv => TypeOK BY DEF TypeInv
<1> QED BY <1>1, TypeInit, TypeNext, PTL DEF Spec
-----------------------------------------------------------------------------
(* Conservation *)

Holding == {held} \ {None}

Apart(a, b, c, d, e, f, g, h) ==
  /\ a \cap (b \cup c \cup d \cup e \cup f \cup g \cup h) = {}
  /\ b \cap (c \cup d \cup e \cup f \cup g \cup h) = {}
  /\ c \cap (d \cup e \cup f \cup g \cup h) = {}
  /\ d \cap (e \cup f \cup g \cup h) = {}
  /\ e \cap (f \cup g \cup h) = {}
  /\ f \cap (g \cup h) = {}
  /\ g \cap h = {}

\* Conserved, with each queue free of repetitions: what lets a frame that leaves
\* a queue leave it for good.
Kept ==
  /\ Distinct(hand) /\ Distinct(extra) /\ Distinct(out) /\ Distinct(wire)
  /\ Range(hand) \cup Range(extra) \cup Range(out) \cup Holding \cup Range(wire)
       \cup late \cup cleared \cup lost = 1..nframe
  /\ Apart(Range(hand), Range(extra), Range(out), Holding, Range(wire), late, cleared, lost)

\* It implies the property that TLC checks.
LEMMA KeptConserved == TypeInv /\ Kept => Conserved
<1> SUFFICES ASSUME TypeInv, Kept PROVE Conserved
  OBVIOUS
<1>1. wire \in Seq(Frames) /\ out \in Seq(Frames) BY DEF TypeInv, TypeOK
<1>2. Cardinality(Range(wire)) = Len(wire) /\ Cardinality(Range(out)) = Len(out)
  BY <1>1, RangeCard DEF Kept
<1>3. Len(Places) = 8 BY DEF Places
<1>4. /\ Places[1] = Range(hand) /\ Places[2] = Range(extra) /\ Places[3] = Range(out)
      /\ Places[4] = Holding /\ Places[5] = Range(wire)
      /\ Places[6] = late /\ Places[7] = cleared /\ Places[8] = lost
  BY DEF Places, Holding
<1>5. \A i, j \in 1..Len(Places) : i < j => Places[i] \cap Places[j] = {}
  <2> SUFFICES ASSUME NEW i \in 1..8, NEW j \in 1..8, i < j
               PROVE  Places[i] \cap Places[j] = {}
    BY <1>3
  <2>1. CASE i = 1 BY <1>4, <2>1 DEF Kept, Apart
  <2>2. CASE i = 2 BY <1>4, <2>2 DEF Kept, Apart
  <2>3. CASE i = 3 BY <1>4, <2>3 DEF Kept, Apart
  <2>4. CASE i = 4 BY <1>4, <2>4 DEF Kept, Apart
  <2>5. CASE i = 5 BY <1>4, <2>5 DEF Kept, Apart
  <2>6. CASE i = 6 BY <1>4, <2>6 DEF Kept, Apart
  <2>7. CASE i = 7 BY <1>4, <2>7 DEF Kept, Apart
  <2> QED BY <2>1, <2>2, <2>3, <2>4, <2>5, <2>6, <2>7
<1>6. \A i, j \in 1..Len(Places) : i # j => Places[i] \cap Places[j] = {}
  BY <1>3, <1>5
<1>7. Range(Places) = {Places[1], Places[2], Places[3], Places[4], Places[5], Places[6],
                       Places[7], Places[8]}
  <2>1. DOMAIN Places = 1..8 BY DEF Places
  <2>2. \A i \in 1..8 : i = 1 \/ i = 2 \/ i = 3 \/ i = 4 \/ i = 5 \/ i = 6 \/ i = 7 \/ i = 8
    OBVIOUS
  <2>3. Range(Places) = {Places[i] : i \in 1..8} BY <2>1 DEF Range
  <2> QED BY <2>2, <2>3
<1>8. UNION Range(Places) = 1..nframe
  <2>1. UNION Range(Places) =
          Range(hand) \cup Range(extra) \cup Range(out) \cup Holding \cup Range(wire)
            \cup late \cup cleared \cup lost
    BY <1>4, <1>7
  <2> QED BY <2>1 DEF Kept
<1> QED BY <1>2, <1>6, <1>8 DEF Conserved

\* Init.
LEMMA KeptInit == Init => Kept
<1> SUFFICES ASSUME Init PROVE Kept
  OBVIOUS
<1>1. Holding = {} /\ 1..nframe = {} BY DEF Init, Holding
<1> QED BY <1>1, EmptyDistinct DEF Init, Kept, Apart

\* The numbers a burst gets.
LEMMA BurstRange ==
  ASSUME NEW m \in Nat, NEW n \in Nat
  PROVE  /\ Distinct([i \in 1..n |-> m + i])
         /\ Range([i \in 1..n |-> m + i]) = (m + 1)..(m + n)
<1> DEFINE b == [i \in 1..n |-> m + i]
<1>1. DOMAIN b = 1..n /\ Len(b) = n /\ \A i \in 1..n : b[i] = m + i OBVIOUS
<1>2. Distinct(b) BY <1>1 DEF Distinct
<1>3. \A f \in (m + 1)..(m + n) : f - m \in 1..n /\ f = b[f - m] BY <1>1
<1>4. \A i \in 1..n : b[i] \in (m + 1)..(m + n) BY <1>1
<1> HIDE DEF b
<1>5. Range(b) = (m + 1)..(m + n) BY <1>1, <1>3, <1>4 DEF Range
<1> QED BY <1>2, <1>5 DEF b

\* An encode() that raises loses what it has numbered, and nothing else.
LEMMA KeptRaises ==
  ASSUME TypeInv, Kept, NEW k \in Nat, EncodeRaises(k),
         UNCHANGED <<hand, extra, out, held, wire, late, cleared>>
  PROVE  Kept'
<1>1. PICK n \in 0..(MaxFrames - nframe) :
        nframe' = nframe + n /\ lost' = lost \cup Range(Numbered(n))
  BY DEF EncodeRaises
<1>2. nframe \in Nat /\ n \in Nat BY DEF TypeInv, TypeOK
<1>3. Range(Numbered(n)) = (nframe + 1)..(nframe + n) BY <1>2, BurstRange DEF Numbered
<1>4. /\ 1..nframe' = 1..nframe \cup (nframe + 1)..(nframe + n)
      /\ 1..nframe \cap (nframe + 1)..(nframe + n) = {}
  BY <1>1, <1>2
<1> QED BY <1>1, <1>3, <1>4 DEF Kept, Apart, Holding

\* A frame dropped as late.
LEMMA KeptPopLate ==
  ASSUME TypeInv, Kept, out # << >>, PopLate, UNCHANGED <<hand, held, extra, wire, cleared, lost, nframe>>
  PROVE  Kept'
<1>1. out \in Seq(Frames) BY DEF TypeInv, TypeOK
<1>2. /\ Distinct(out') /\ Head(out) \in Range(out)
      /\ Range(out') = Range(out) \ {Head(out)} /\ late' = late \cup {Head(out)}
  BY <1>1, TailDistinct DEF Kept, PopLate
<1> QED BY <1>2 DEF Kept, Apart, Holding

\* Each step keeps every frame in one place.
LEMMA KeptNext == TypeInv /\ Kept /\ [Next]_vars => Kept'
<1> SUFFICES ASSUME TypeInv, Kept, [Next]_vars PROVE Kept'
  OBVIOUS
<1>a. /\ hand \in Seq(Frames) /\ extra \in Seq(Frames) /\ out \in Seq(Frames) /\ wire \in Seq(Frames)
      /\ nframe \in Nat /\ MaxFrames \in Nat /\ None \notin Frames /\ None \notin Nat
  BY DEF TypeInv, TypeOK, Frames
<1>b. ASSUME UNCHANGED <<hand, extra, out, held, wire, late, cleared, lost, nframe>> PROVE Kept'
  BY <1>b DEF Kept, Holding
<1>1. CASE SendPcm
  <2>1. PICK k \in 0..MaxBurst :
          \/ \E n \in 0..(MaxFrames - nframe) : Encode(k, n) /\ hand' = Numbered(n)
          \/ EncodeRaises(k) /\ UNCHANGED hand
    BY <1>1 DEF SendPcm
  <2>2. UNCHANGED <<extra, out, held, wire, late, cleared>> BY <1>1 DEF SendPcm
  <2>3. CASE EncodeRaises(k) /\ UNCHANGED hand BY <2>2, <2>3, KeptRaises
  <2>4. ASSUME NEW n \in 0..(MaxFrames - nframe), Encode(k, n), hand' = Numbered(n)
        PROVE  Kept'
    <3>1. n \in Nat BY <1>a
    <3>2. Distinct(hand') /\ Range(hand') = (nframe + 1)..(nframe + n)
      BY <1>a, <2>4, <3>1, BurstRange DEF Numbered
    <3>3. Range(hand) = {} BY <1>1, EmptyDistinct DEF SendPcm, TypeInv, AtHand
    <3>4. /\ 1..nframe' = 1..nframe \cup (nframe + 1)..(nframe + n)
          /\ 1..nframe \cap (nframe + 1)..(nframe + n) = {}
      BY <1>a, <2>4, <3>1 DEF Encode
    <3>5. UNCHANGED lost BY <2>4 DEF Encode
    <3> QED BY <2>2, <3>2, <3>3, <3>4, <3>5 DEF Kept, Apart, Holding
  <2> QED BY <2>1, <2>3, <2>4
<1>2. CASE FlushPcm
  <2>1. CASE UNCHANGED <<hand, nframe, call>> BY <1>b, <1>2, <2>1 DEF FlushPcm
  <2>2. CASE hand' = Numbered(1) /\ nframe' = nframe + 1
    <3>1. Distinct(hand') /\ Range(hand') = (nframe + 1)..(nframe + 1)
      BY <1>a, <2>2, BurstRange DEF Numbered
    <3>2. Range(hand) = {} BY <1>2, EmptyDistinct DEF FlushPcm, TypeInv, AtHand
    <3>3. /\ 1..nframe' = 1..nframe \cup (nframe + 1)..(nframe + 1)
          /\ 1..nframe \cap (nframe + 1)..(nframe + 1) = {}
      BY <1>a, <2>2
    <3>4. UNCHANGED <<extra, out, held, wire, late, cleared, lost>> BY <1>2 DEF FlushPcm
    <3> QED BY <3>1, <3>2, <3>3, <3>4 DEF Kept, Apart, Holding
  <2> QED BY <1>2, <2>1, <2>2 DEF FlushPcm
<1>3. CASE QueueFrame
  <2>1. /\ Distinct(hand') /\ Head(hand) \in Range(hand) /\ Head(hand) \in Frames
        /\ Range(hand') = Range(hand) \ {Head(hand)}
    BY <1>a, <1>3, TailDistinct DEF QueueFrame, Kept
  <2>2. Head(hand) \notin Range(out) BY <2>1 DEF Kept, Apart
  <2>3. Distinct(out') /\ Range(out') = Range(out) \cup {Head(hand)}
    BY <1>a, <1>3, <2>1, <2>2, AppendDistinct DEF QueueFrame, Kept
  <2>4. UNCHANGED <<extra, held, wire, late, cleared, lost, nframe>> BY <1>3 DEF QueueFrame
  <2> QED BY <2>1, <2>3, <2>4 DEF Kept, Apart, Holding
<1>4. CASE WakeSender BY <1>b, <1>4 DEF WakeSender
<1>5. CASE ClearCount BY <1>b, <1>5 DEF ClearCount
<1>6. CASE ClearOut
  <2>1. /\ Distinct(out') /\ Range(out') = {} /\ cleared' = cleared \cup Range(out)
        /\ UNCHANGED <<hand, extra, held, wire, late, lost, nframe>>
    BY <1>6, EmptyDistinct DEF ClearOut
  <2> QED BY <2>1 DEF Kept, Apart, Holding
<1>7. CASE Tick BY <1>b, <1>7 DEF Tick
<1>8. CASE DropLate
  BY <1>b, <1>8, KeptPopLate DEF DropLate, Crash
<1>9. CASE CapQueue BY <1>b, <1>9 DEF CapQueue
<1>10. CASE TrimQueue
  BY <1>b, <1>10, KeptPopLate DEF TrimQueue, Crash
<1>11. CASE Pick
  <2>1. CASE UNCHANGED <<out, held>> BY <1>b, <1>11, <2>1 DEF Pick
  <2>2. CASE out # << >> /\ TakeFrame
    <3>1. /\ Distinct(out') /\ Head(out) \in Range(out) /\ Head(out) \in Frames
          /\ Range(out') = Range(out) \ {Head(out)}
      BY <1>a, <2>2, TailDistinct DEF TakeFrame, Kept
    <3>2. Holding = {} /\ Holding' = {Head(out)}
      BY <1>a, <1>11, <2>2, <3>1 DEF Pick, TakeFrame, Holding, TypeInv, AtHand
    <3>3. UNCHANGED <<hand, extra, wire, late, cleared, lost, nframe>> BY <1>11 DEF Pick
    <3> QED BY <3>1, <3>2, <3>3 DEF Kept, Apart
  <2> QED BY <1>11, <2>1, <2>2 DEF Pick
<1>12. CASE EncodeSilence
  <2>1. UNCHANGED <<hand, out, wire, late, cleared>> BY <1>12 DEF EncodeSilence
  <2>2. CASE EncodeRaises(Silence) /\ UNCHANGED <<held, extra>>
    BY <2>1, <2>2, KeptRaises DEF Silence
  <2>3. ASSUME NEW n \in 0..(MaxFrames - nframe), Encode(Silence, n),
               n = 0, UNCHANGED <<held, extra>>
        PROVE  Kept'
    <3>1. UNCHANGED <<nframe, lost>> BY <1>a, <2>3 DEF Encode
    <3> QED BY <1>b, <2>1, <2>3, <3>1
  <2>4. ASSUME NEW n \in 0..(MaxFrames - nframe), Encode(Silence, n),
               n > 0, held' = nframe + 1, extra' = Tail(Numbered(n))
        PROVE  Kept'
    <3>1. n \in Nat /\ Numbered(n) \in Seq(Frames) /\ Len(Numbered(n)) = n
          /\ \A i \in 1..n : Numbered(n)[i] = nframe + i
      BY <1>a, NumberedType DEF TypeInv
    <3>2. Distinct(Numbered(n)) /\ Range(Numbered(n)) = (nframe + 1)..(nframe + n)
      BY <1>a, <3>1, BurstRange DEF Numbered
    <3>3. Numbered(n) # << >> /\ Head(Numbered(n)) = nframe + 1
      BY <2>4, <3>1
    <3>4. Distinct(extra') /\ Range(extra') = (nframe + 1)..(nframe + n) \ {nframe + 1}
      BY <2>4, <3>1, <3>2, <3>3, TailDistinct
    <3>5. Holding = {} /\ Range(extra) = {}
      BY <1>12, EmptyDistinct DEF EncodeSilence, Holding, TypeInv, AtHand
    <3>6. Holding' = {nframe + 1} BY <1>a, <2>4 DEF Holding
    <3>7. /\ 1..nframe' = 1..nframe \cup (nframe + 1)..(nframe + n)
          /\ 1..nframe \cap (nframe + 1)..(nframe + n) = {}
          /\ nframe + 1 \in (nframe + 1)..(nframe + n)
      BY <1>a, <2>4, <3>1 DEF Encode
    <3>8. UNCHANGED lost BY <2>4 DEF Encode
    <3> QED BY <2>1, <3>4, <3>5, <3>6, <3>7, <3>8 DEF Kept, Apart
  <2> QED BY <1>12, <2>2, <2>3, <2>4 DEF EncodeSilence
<1>22. CASE Extend
  <2>1. Range(out) \cap Range(extra) = {} BY DEF Kept, Apart
  <2>2. /\ Distinct(out') /\ Range(out') = Range(out) \cup Range(extra)
        /\ Distinct(extra') /\ Range(extra') = {}
    BY <1>a, <1>22, <2>1, ConcatDistinct, EmptyDistinct DEF Extend, Kept
  <2>3. UNCHANGED <<hand, held, wire, late, cleared, lost, nframe>> BY <1>22 DEF Extend
  <2> QED BY <2>2, <2>3 DEF Kept, Apart, Holding
<1>13. CASE Send
  <2>1. Holding = {held} /\ held \in Frames /\ Holding' = {}
    BY <1>13 DEF Send, Holding, TypeInv, TypeOK, AtHand
  <2>2. held \notin Range(wire) BY <2>1 DEF Kept, Apart
  <2>3. Distinct(wire') /\ Range(wire') = Range(wire) \cup {held}
    BY <1>a, <1>13, <2>1, <2>2, AppendDistinct DEF Send, Kept
  <2>4. UNCHANGED <<hand, extra, out, late, cleared, lost, nframe>> BY <1>13 DEF Send
  <2> QED BY <2>1, <2>3, <2>4 DEF Kept, Apart
<1>14. CASE SendFails BY <1>b, <1>14 DEF SendFails
<1>15. CASE WaitOver BY <1>b, <1>15 DEF WaitOver
<1>16. CASE RunWakeup BY <1>b, <1>16 DEF RunWakeup
<1>17. CASE LoseConnection BY <1>b, <1>17 DEF LoseConnection
<1>18. CASE LeaveBegin BY <1>b, <1>18 DEF LeaveBegin
<1>19. CASE CancelSender BY <1>b, <1>19 DEF CancelSender
<1>20. CASE LeaveDone BY <1>b, <1>20 DEF LeaveDone
<1>21. CASE UNCHANGED vars BY <1>b, <1>21 DEF vars
<1> QED
  BY <1>1, <1>2, <1>3, <1>4, <1>5, <1>6, <1>7, <1>8, <1>9, <1>10, <1>11, <1>12, <1>13, <1>14,
     <1>15, <1>16, <1>17, <1>18, <1>19, <1>20, <1>21, <1>22 DEF Next, Caller, Sender

\* A frame that encode() has returned is not lost between the threads and not sent
\* twice, in every mode, however the threads interleave and also when Opus fails;
\* what is gone with an encode() that raised was in nobody's hands
\* (huddle.py:333-355, 375-380, 422-455; huddle.rs:203-209).
THEOREM ConservedCorrect == Spec => []Conserved
<1>1. Init => TypeInv /\ Kept BY TypeInit, KeptInit
<1>2. TypeInv /\ Kept /\ [Next]_vars => TypeInv' /\ Kept' BY TypeNext, KeptNext
<1> QED BY <1>1, <1>2, KeptConserved, PTL DEF Spec
-----------------------------------------------------------------------------
(* Order.  Outside silence mode the frames sent, the one held, those queued and
   those in hand are one line, each part before the next. *)

Up(s) == \A i, j \in 1..Len(s) : i < j => s[i] < s[j]
Before(A, B) == \A a \in A, b \in B : a < b

Line ==
  /\ io \notin {"encoding", "extending"}
  /\ Up(wire) /\ Up(out) /\ Up(hand)
  /\ Before(Range(wire), Holding \cup Range(out) \cup Range(hand))
  /\ Before(Holding, Range(out) \cup Range(hand))
  /\ Before(Range(out), Range(hand))

\* Appending what comes after.
LEMMA AppendUp ==
  ASSUME NEW s \in Seq(Frames), NEW x \in Frames, Up(s), Before(Range(s), {x})
  PROVE  Up(Append(s, x))
<1>1. /\ Len(Append(s, x)) = Len(s) + 1 /\ Len(s) \in Nat
      /\ \A i \in 1..Len(s) : Append(s, x)[i] = s[i]
      /\ Append(s, x)[Len(s) + 1] = x
  OBVIOUS
<1>2. \A i \in 1..Len(s) : s[i] < x BY RangeOf DEF Before
<1> QED BY <1>1, <1>2 DEF Up

\* Taking the head leaves what comes after it.
LEMMA TailUp ==
  ASSUME NEW s \in Seq(Frames), s # << >>, Up(s)
  PROVE  Up(Tail(s)) /\ Before({Head(s)}, Range(Tail(s)))
<1> DEFINE t == Tail(s)
<1>1. /\ t \in Seq(Frames) /\ Len(s) \in Nat \ {0} /\ Len(t) = Len(s) - 1 /\ Head(s) = s[1]
      /\ \A i \in 1..Len(t) : t[i] = s[i + 1]
  OBVIOUS
<1>2. Up(t) BY <1>1 DEF Up
<1>3. Range(t) = {t[i] : i \in 1..Len(t)} BY <1>1, RangeOf, ZenonT(30)
<1> HIDE DEF t
<1>4. ASSUME NEW y \in Range(t) PROVE s[1] < y
  <2>1. PICK i \in 1..Len(t) : y = t[i] BY <1>3
  <2> QED BY <1>1, <2>1 DEF Up
<1> QED BY <1>1, <1>2, <1>4 DEF Before, t

\* A frame dropped as late.
LEMMA LinePopLate ==
  ASSUME TypeInv, Kept, Line, out # << >>, PopLate, io' \notin {"encoding", "extending"},
         UNCHANGED <<hand, held, wire>>
  PROVE  Line'
<1>1. out \in Seq(Frames) BY DEF TypeInv, TypeOK
<1>2. Up(out') BY <1>1, TailUp DEF Line, PopLate
<1>3. Range(out') \subseteq Range(out) BY <1>1, TailDistinct DEF Kept, PopLate
<1> QED BY <1>2, <1>3 DEF Line, Before, Holding

\* Init.
LEMMA LineInit == Init => Line
BY DEF Init, Line, Up, Before, Range, Holding

\* Each step keeps the line, unless the sender makes silence.
LEMMA LineNext ==
  ASSUME TypeInv, Kept, ~StreamSilence, Line, [Next]_vars
  PROVE  Line'
<1>a. /\ hand \in Seq(Frames) /\ out \in Seq(Frames) /\ wire \in Seq(Frames)
      /\ nframe \in Nat /\ MaxFrames \in Nat /\ None \notin Frames
  BY DEF TypeInv, TypeOK, Frames
<1>b. ASSUME UNCHANGED <<hand, out, held, wire>>, io' \notin {"encoding", "extending"} PROVE Line'
  BY <1>b DEF Line, Holding
<1>c. Range(wire) \cup Holding \cup Range(out) \cup Range(hand) \subseteq 1..nframe
  BY DEF Kept
<1>1. CASE SendPcm
  <2>1. UNCHANGED <<io, out, held, wire>> BY <1>1 DEF SendPcm
  <2>2. CASE UNCHANGED hand BY <1>b, <2>1, <2>2 DEF Line
  <2>3. ASSUME NEW n \in 0..(MaxFrames - nframe), hand' = Numbered(n) PROVE Line'
    <3>1. n \in Nat BY <1>a
    <3>2. Up(hand') BY <1>a, <2>3, <3>1 DEF Up, Numbered
    <3>3. Range(hand') = (nframe + 1)..(nframe + n)
      BY <1>a, <2>3, <3>1, BurstRange DEF Numbered
    <3>4. Before(1..nframe, Range(hand')) BY <1>a, <3>3 DEF Before
    <3> QED BY <1>c, <2>1, <3>2, <3>4 DEF Line, Before, Holding
  <2> QED BY <1>1, <2>2, <2>3 DEF SendPcm
<1>2. CASE FlushPcm
  <2>1. CASE UNCHANGED hand BY <1>b, <1>2, <2>1 DEF FlushPcm, Line
  <2>2. CASE hand' = Numbered(1)
    <3>1. Range(hand') = (nframe + 1)..(nframe + 1) BY <1>a, <2>2, BurstRange DEF Numbered
    <3>4. Up(hand') BY <2>2 DEF Up, Numbered
    <3>2. Before(1..nframe, Range(hand')) BY <1>a, <3>1 DEF Before
    <3>3. UNCHANGED <<io, out, held, wire>> BY <1>2 DEF FlushPcm
    <3> QED BY <1>c, <3>2, <3>3, <3>4 DEF Line, Before, Holding
  <2> QED BY <1>2, <2>1, <2>2 DEF FlushPcm
<1>3. CASE QueueFrame
  <2>1. /\ Head(hand) \in Range(hand) /\ Head(hand) \in Frames
        /\ Range(hand') = Range(hand) \ {Head(hand)}
    BY <1>a, <1>3, TailDistinct DEF QueueFrame, Kept
  <2>2. Up(hand') /\ Before({Head(hand)}, Range(hand'))
    BY <1>a, <1>3, TailUp DEF QueueFrame, Line
  <2>3. Head(hand) \notin Range(out) BY <2>1 DEF Kept, Apart
  <2>4. Range(out') = Range(out) \cup {Head(hand)}
    BY <1>a, <1>3, <2>1, <2>3, AppendDistinct DEF QueueFrame, Kept
  <2>5. Up(out')
    BY <1>a, <1>3, <2>1, AppendUp DEF QueueFrame, Line, Before
  <2>6. UNCHANGED <<io, held, wire>> BY <1>3 DEF QueueFrame
  <2> QED BY <2>1, <2>2, <2>4, <2>5, <2>6 DEF Line, Before, Holding
<1>4. CASE WakeSender BY <1>b, <1>4 DEF WakeSender, Line
<1>5. CASE ClearCount BY <1>b, <1>5 DEF ClearCount, Line
<1>6. CASE ClearOut
  <2>1. Up(out') /\ Range(out') = {} /\ UNCHANGED <<io, hand, held, wire>>
    BY <1>6, EmptyDistinct DEF ClearOut, Up
  <2> QED BY <2>1 DEF Line, Before, Holding
<1>7. CASE Tick BY <1>b, <1>7 DEF Tick
<1>8. CASE DropLate
  BY <1>b, <1>8, LinePopLate DEF DropLate, Crash
<1>9. CASE CapQueue BY <1>b, <1>9 DEF CapQueue
<1>10. CASE TrimQueue
  BY <1>b, <1>10, LinePopLate DEF TrimQueue, Crash
<1>11. CASE Pick
  <2>1. CASE UNCHANGED <<out, held>> /\ io' \notin {"encoding", "extending"} BY <1>b, <1>11, <2>1 DEF Pick
  <2>2. CASE out # << >> /\ TakeFrame /\ io' = "sending"
    <3>1. /\ Head(out) \in Range(out) /\ Head(out) \in Frames
          /\ Range(out') = Range(out) \ {Head(out)}
      BY <1>a, <2>2, TailDistinct DEF TakeFrame, Kept
    <3>2. Up(out') /\ Before({Head(out)}, Range(out'))
      BY <1>a, <2>2, TailUp DEF TakeFrame, Line
    <3>3. Holding' = {Head(out)} BY <1>a, <2>2, <3>1 DEF TakeFrame, Holding
    <3>4. UNCHANGED <<hand, wire>> BY <1>11 DEF Pick
    <3> QED BY <2>2, <3>1, <3>2, <3>3, <3>4 DEF Line, Before
  <2> QED BY <1>11, <2>1, <2>2 DEF Pick
<1>12. CASE EncodeSilence BY <1>12 DEF EncodeSilence, Line
<1>22. CASE Extend BY <1>22 DEF Extend, Line
<1>13. CASE Send
  <2>1. Holding = {held} /\ held \in Frames /\ Holding' = {}
    BY <1>13 DEF Send, Holding, TypeInv, TypeOK, AtHand
  <2>2. held \notin Range(wire) BY <2>1 DEF Kept, Apart
  <2>3. Range(wire') = Range(wire) \cup {held}
    BY <1>a, <1>13, <2>1, <2>2, AppendDistinct DEF Send, Kept
  <2>4. Up(wire') BY <1>a, <1>13, <2>1, AppendUp DEF Send, Line, Before
  <2>5. UNCHANGED <<hand, out>> /\ io' \notin {"encoding", "extending"} BY <1>13 DEF Send, NextRound
  <2> QED BY <2>1, <2>3, <2>4, <2>5 DEF Line, Before
<1>14. CASE SendFails BY <1>b, <1>14 DEF SendFails
<1>15. CASE WaitOver BY <1>b, <1>15 DEF WaitOver, NextRound
<1>16. CASE RunWakeup BY <1>b, <1>16 DEF RunWakeup, Line
<1>17. CASE LoseConnection BY <1>b, <1>17 DEF LoseConnection, Line
<1>18. CASE LeaveBegin BY <1>b, <1>18 DEF LeaveBegin, Line
<1>19. CASE CancelSender BY <1>b, <1>19 DEF CancelSender
<1>20. CASE LeaveDone BY <1>b, <1>20 DEF LeaveDone, Line
<1>21. CASE UNCHANGED vars BY <1>b, <1>21 DEF vars, Line
<1> QED
  BY <1>1, <1>2, <1>3, <1>4, <1>5, <1>6, <1>7, <1>8, <1>9, <1>10, <1>11, <1>12, <1>13, <1>14,
     <1>15, <1>16, <1>17, <1>18, <1>19, <1>20, <1>21, <1>22 DEF Next, Caller, Sender

\* The constructor's choice stays.
LEMMA ModeNext == [Next]_vars => UNCHANGED mode
BY DEF Next, Caller, Sender, vars, SendPcm, FlushPcm, QueueFrame, WakeSender, ClearCount,
  ClearOut, Tick, DropLate, CapQueue, TrimQueue, Pick, EncodeSilence, Extend, Send, SendFails, WaitOver,
  RunWakeup, LoseConnection, LeaveBegin, CancelSender, LeaveDone

\* Where only the caller numbers frames they go out in that order ("forwards
\* frames in order", huddle.py:367), whatever is dropped or cleared in between.
THEOREM WireInOrderCorrect == Spec => []WireInOrder
<1> DEFINE Inv == TypeInv /\ Kept /\ (~StreamSilence => Line)
<1>1. Init => Inv BY TypeInit, KeptInit, LineInit
<1>2. Inv /\ [Next]_vars => Inv'
  <2>1. [Next]_vars => (StreamSilence' <=> StreamSilence) BY ModeNext DEF StreamSilence
  <2> QED BY <2>1, TypeNext, KeptNext, LineNext
<1>3. Inv => WireInOrder BY DEF Line, Up, WireInOrder, InOrder
<1> QED BY <1>1, <1>2, <1>3, PTL DEF Spec
-----------------------------------------------------------------------------
(* Barge-in.  What is queued or in hand was encoded after the last clear_queue()
   returned; only the frame held can be older, and then none has been sent.  As
   long as Opus has not failed, silence makes one frame at most, so that the
   sender queues nothing. *)

OneOfSilence == ~failed => spare = 0 /\ io # "extending"

\* Init.
LEMMA OneInit == Init => OneOfSilence
BY DEF Init, OneOfSilence, Paced

\* Each step keeps it, and the failure once it has come.
LEMMA OneNext ==
  ASSUME TypeInv, OneOfSilence, [Next]_vars
  PROVE  OneOfSilence' /\ (failed => failed')
<1>1. ASSUME UNCHANGED <<spare, failed>>, io' # "extending" \/ UNCHANGED io
      PROVE  OneOfSilence' /\ (failed => failed')
  BY <1>1 DEF OneOfSilence
<1>2. CASE SendPcm
  <2>1. UNCHANGED io BY <1>2 DEF SendPcm
  <2>2. failed' = TRUE \/ (spare' = 0 /\ UNCHANGED failed)
    BY <1>2 DEF SendPcm, Encode, EncodeRaises
  <2> QED BY <2>1, <2>2 DEF OneOfSilence
<1>3. CASE FlushPcm
  BY <1>3 DEF FlushPcm, OneOfSilence
<1>4. CASE ClearCount
  BY <1>4 DEF ClearCount, OneOfSilence
<1>5. CASE EncodeSilence
  <2>1. CASE EncodeRaises(Silence) BY <2>1 DEF EncodeRaises, OneOfSilence
  <2>2. ASSUME NEW n \in 0..(MaxFrames - nframe), Encode(Silence, n),
               \/ n = 0 /\ io' = NextRound
               \/ n > 0 /\ io' = IF n = 1 THEN "sending" ELSE "extending"
        PROVE  OneOfSilence' /\ (failed => failed')
    <3>1. UNCHANGED failed /\ spare' = 0 BY <2>2 DEF Encode
    <3>2. ~failed => n <= 1 BY <2>2 DEF Encode, Silence, OneOfSilence
    <3>3. n \in Nat BY DEF TypeInv, TypeOK
    <3> QED BY <2>2, <3>1, <3>2, <3>3 DEF OneOfSilence, NextRound
  <2> QED BY <1>5, <2>1, <2>2 DEF EncodeSilence
<1>6. CASE Extend BY <1>1, <1>6 DEF Extend
<1>7. CASE Tick \/ DropLate \/ CapQueue \/ TrimQueue \/ Pick
  BY <1>1, <1>7 DEF Tick, DropLate, CapQueue, TrimQueue, Pick, Crash
<1>8. CASE Send \/ SendFails \/ WaitOver \/ RunWakeup
  BY <1>1, <1>8 DEF Send, SendFails, WaitOver, RunWakeup, NextRound
<1>9. CASE QueueFrame \/ WakeSender \/ ClearOut \/ LoseConnection \/ LeaveBegin \/ CancelSender
           \/ LeaveDone
  BY <1>1, <1>9 DEF QueueFrame, WakeSender, ClearOut, LoseConnection, LeaveBegin,
    CancelSender, LeaveDone
<1>10. CASE UNCHANGED vars BY <1>1, <1>10 DEF vars
<1> QED
  BY <1>2, <1>3, <1>4, <1>5, <1>6, <1>7, <1>8, <1>9, <1>10 DEF Next, Caller, Sender

Cut ==
  /\ mark <= nframe /\ stale <= 1
  /\ \A f \in Range(out) \cup Range(hand) : f > mark
  /\ io = "sending" /\ held <= mark => stale = 0

\* clear_queue() has counted at least what is still queued.
Counted == call = "clearing" => Len(out) <= dropped

\* Init.
LEMMA CutInit == Init => Cut /\ Counted
BY EmptyDistinct DEF Init, Cut, Counted, Paced

\* Each step keeps the cut, and the count, while silence makes one frame at most.
LEMMA CutNext ==
  ASSUME TypeInv, Kept, OneOfSilence, Cut, Counted, [Next]_vars,
         ~SilenceOverflows, ~SilenceOverflows', OneOfSilence'
  PROVE  Cut' /\ Counted'
<1>a. /\ hand \in Seq(Frames) /\ out \in Seq(Frames) /\ held \in Frames \cup {None}
      /\ nframe \in Nat /\ mark \in Nat /\ stale \in Nat /\ Len(out) \in Nat /\ dropped \in Nat
      /\ Frames \subseteq Nat /\ None \notin Frames
  BY DEF TypeInv, TypeOK, Frames
<1>b. ASSUME UNCHANGED <<hand, out, held, mark, stale, nframe, call, dropped>>,
             io' # "sending" \/ UNCHANGED io
      PROVE  Cut' /\ Counted'
  BY <1>b DEF Cut, Counted
<1>c. ASSUME out # << >>, PopLate, io' # "sending",
             UNCHANGED <<hand, held, mark, stale, nframe, call, dropped>>
      PROVE  Cut' /\ Counted'
  <2>1. Range(out') \subseteq Range(out) BY <1>a, <1>c, TailDistinct DEF Kept, PopLate
  <2>2. Len(out') <= Len(out) BY <1>a, <1>c DEF PopLate
  <2>3. Cut' BY <1>c, <2>1 DEF Cut
  <2>4. Len(out') \in Nat BY <1>a, <1>c DEF PopLate
  <2> QED BY <1>a, <1>c, <2>2, <2>3, <2>4 DEF Counted
<1>1. CASE SendPcm
  <2>1. UNCHANGED <<io, out, held, mark, stale, dropped>> BY <1>1 DEF SendPcm
  <2>2. ASSUME NEW k \in Nat, EncodeRaises(k), UNCHANGED <<hand, call>> PROVE Cut' /\ Counted'
    <3>1. PICK n \in 0..(MaxFrames - nframe) : nframe' = nframe + n
      BY <2>2 DEF EncodeRaises
    <3>2. mark <= nframe' BY <1>a, <3>1 DEF Cut
    <3> QED BY <2>1, <2>2, <3>2 DEF Cut, Counted
  <2>3. ASSUME NEW k \in Nat, NEW n \in 0..(MaxFrames - nframe), Encode(k, n),
               hand' = Numbered(n), call' = "queueing"
        PROVE  Cut' /\ Counted'
    <3>1. n \in Nat /\ mark <= nframe BY <1>a DEF Cut
    <3>2. Range(hand') = (nframe + 1)..(nframe + n)
      BY <1>a, <2>3, <3>1, BurstRange DEF Numbered
    <3>3. mark <= nframe' BY <1>a, <2>3, <3>1 DEF Encode
    <3>4. \A f \in Range(hand') : f > mark BY <1>a, <3>1, <3>2
    <3> QED BY <2>1, <2>3, <3>3, <3>4 DEF Cut, Counted
  <2>4. PICK k \in 0..MaxBurst :
          \/ \E n \in 0..(MaxFrames - nframe) :
               Encode(k, n) /\ hand' = Numbered(n) /\ call' = "queueing"
          \/ EncodeRaises(k) /\ UNCHANGED <<hand, call>>
    BY <1>1 DEF SendPcm
  <2> QED BY <2>2, <2>3, <2>4
<1>2. CASE FlushPcm
  <2>1. CASE UNCHANGED <<hand, nframe, call>> BY <1>b, <1>2, <2>1 DEF FlushPcm
  <2>2. CASE hand' = Numbered(1) /\ nframe' = nframe + 1 /\ call' = "queueing"
    <3>1. Range(hand') = (nframe + 1)..(nframe + 1)
      BY <1>a, <2>2, BurstRange DEF Numbered
    <3>2. UNCHANGED <<io, out, held, mark, stale>> BY <1>2 DEF FlushPcm
    <3>3. mark <= nframe' /\ \A f \in Range(hand') : f > mark BY <1>a, <2>2, <3>1 DEF Cut
    <3> QED BY <2>2, <3>2, <3>3 DEF Cut, Counted
  <2> QED BY <1>2, <2>1, <2>2 DEF FlushPcm
<1>3. CASE QueueFrame
  <2>1. /\ Head(hand) \in Range(hand) /\ Head(hand) \in Frames
        /\ Range(hand') = Range(hand) \ {Head(hand)}
    BY <1>a, <1>3, TailDistinct DEF QueueFrame, Kept
  <2>2. Head(hand) \notin Range(out) BY <2>1 DEF Kept, Apart
  <2>3. Range(out') = Range(out) \cup {Head(hand)}
    BY <1>a, <1>3, <2>1, <2>2, AppendDistinct DEF QueueFrame, Kept
  <2>4. UNCHANGED <<io, held, mark, stale, nframe>> /\ call' = "queueing"
    BY <1>3 DEF QueueFrame
  <2> QED BY <2>1, <2>3, <2>4 DEF Cut, Counted
<1>4. CASE WakeSender BY <1>4 DEF WakeSender, Cut, Counted
<1>5. CASE ClearCount BY <1>a, <1>5 DEF ClearCount, Cut, Counted
<1>6. CASE ClearOut
  <2>1. Range(out') = {} /\ Range(hand') = {}
    BY <1>6, EmptyDistinct DEF ClearOut, TypeInv, AtHand
  <2> QED BY <1>a, <1>6, <2>1 DEF ClearOut, Cut, Counted
<1>7. CASE Tick BY <1>b, <1>7 DEF Tick
<1>8. CASE DropLate BY <1>b, <1>c, <1>8 DEF DropLate, Crash
<1>9. CASE CapQueue BY <1>b, <1>9 DEF CapQueue
<1>10. CASE TrimQueue BY <1>b, <1>c, <1>10 DEF TrimQueue, Crash
<1>11. CASE Pick
  <2>1. CASE UNCHANGED <<out, held>> /\ io' # "sending" BY <1>b, <1>11, <2>1 DEF Pick
  <2>2. CASE out # << >> /\ TakeFrame /\ io' = "sending"
    <3>1. /\ Head(out) \in Range(out) /\ Head(out) \in Frames
          /\ Range(out') = Range(out) \ {Head(out)}
      BY <1>a, <2>2, TailDistinct DEF TakeFrame, Kept
    <3>2. UNCHANGED <<hand, mark, stale, nframe, call, dropped>> /\ held' = Head(out)
      BY <1>11, <2>2 DEF Pick, TakeFrame
    <3>3. Cut'
      <4>1. Head(out) > mark BY <3>1 DEF Cut
      <4>a. Head(out) \in Nat /\ mark \in Nat BY <1>a, <3>1
      <4>b. \A f, m \in Nat : f > m => ~(f <= m) OBVIOUS
      <4>c. ~(Head(out) <= mark) BY <4>1, <4>a, <4>b
      <4>2. ~(held' <= mark') BY <3>2, <4>c
      <4> QED BY <3>1, <3>2, <4>2 DEF Cut
    <3>4. Len(out') \in Nat /\ Len(out') <= Len(out) BY <1>a, <2>2 DEF TakeFrame
    <3> QED BY <1>a, <3>2, <3>3, <3>4 DEF Counted
  <2> QED BY <1>11, <2>1, <2>2 DEF Pick
<1>12. CASE EncodeSilence
  <2>1. UNCHANGED <<hand, out, mark, stale, call, dropped>> BY <1>12 DEF EncodeSilence
  <2>2. StreamSilence /\ ~failed' /\ ~failed
    <3>1. StreamSilence BY <1>12 DEF EncodeSilence, TypeInv, Silent
    <3>2. StreamSilence' BY <1>12, <3>1 DEF EncodeSilence, StreamSilence
    <3> QED BY <3>1, <3>2 DEF SilenceOverflows
  <2>3. PICK n \in 0..(MaxFrames - nframe) :
          /\ Encode(Silence, n)
          /\ \/ n = 0 /\ io' = NextRound /\ UNCHANGED held
             \/ n > 0 /\ held' = nframe + 1
    BY <1>12, <2>2 DEF EncodeSilence, EncodeRaises
  <2>4. n \in Nat /\ nframe' = nframe + n BY <1>a, <2>3 DEF Encode
  <2>5. mark <= nframe' BY <1>a, <2>4 DEF Cut
  <2>6. CASE n = 0
    BY <2>1, <2>3, <2>4, <2>5, <2>6 DEF Cut, Counted, NextRound
  <2>7. CASE n > 0
    <3>1. held' = nframe + 1 /\ ~(held' <= mark') BY <1>a, <2>1, <2>3, <2>7 DEF Cut
    <3> QED BY <2>1, <2>5, <3>1 DEF Cut, Counted
  <2> QED BY <2>4, <2>6, <2>7
<1>22. CASE Extend
  <2>1. StreamSilence BY <1>22 DEF Extend, TypeInv, Silent
  <2> QED BY <1>22, <2>1 DEF Extend, OneOfSilence, SilenceOverflows
<1>13. CASE Send
  <2>1. UNCHANGED <<hand, out, mark, nframe, call, dropped>> /\ io' # "sending"
    BY <1>13 DEF Send, NextRound
  <2>2. stale' <= 1
    BY <1>a, <1>13 DEF Send, Cut
  <2> QED BY <2>1, <2>2 DEF Cut, Counted
<1>14. CASE SendFails BY <1>b, <1>14 DEF SendFails
<1>15. CASE WaitOver BY <1>b, <1>15 DEF WaitOver, NextRound
<1>16. CASE RunWakeup BY <1>b, <1>16 DEF RunWakeup
<1>17. CASE LoseConnection BY <1>b, <1>17 DEF LoseConnection
<1>18. CASE LeaveBegin BY <1>18 DEF LeaveBegin, Cut, Counted
<1>19. CASE CancelSender BY <1>b, <1>19 DEF CancelSender
<1>20. CASE LeaveDone BY <1>20 DEF LeaveDone, Cut, Counted
<1>21. CASE UNCHANGED vars BY <1>b, <1>21 DEF vars
<1> QED
  BY <1>1, <1>2, <1>3, <1>4, <1>5, <1>6, <1>7, <1>8, <1>9, <1>10, <1>11, <1>12, <1>13, <1>14,
     <1>15, <1>16, <1>17, <1>18, <1>19, <1>20, <1>21, <1>22 DEF Next, Caller, Sender

\* All the invariants together.
CutInv == TypeInv /\ Kept /\ OneOfSilence /\ (~SilenceOverflows => Cut /\ Counted)

\* They hold in every reachable state.
LEMMA CutCorrect == Spec => []CutInv
<1>1. Init => CutInv BY TypeInit, KeptInit, OneInit, CutInit DEF CutInv
<1>2. CutInv /\ [Next]_vars => CutInv'
  <2> SUFFICES ASSUME CutInv, [Next]_vars PROVE CutInv'
    OBVIOUS
  <2>1. TypeInv' /\ Kept' /\ OneOfSilence' /\ (failed => failed')
    BY TypeNext, KeptNext, OneNext DEF CutInv
  <2>2. SilenceOverflows => SilenceOverflows'
    BY <2>1, ModeNext DEF SilenceOverflows, StreamSilence
  <2>3. ~SilenceOverflows' => Cut' /\ Counted'
    BY <2>1, <2>2, CutNext DEF CutInv
  <2> QED BY <2>1, <2>3 DEF CutInv
<1> QED BY <1>1, <1>2, PTL DEF Spec

\* After clear_queue() returned, one older frame at most is still sent ("Drop all
\* queued outbound audio (barge-in)", huddle.py:351), in silence mode as long as
\* Opus has not failed, in the other modes also when it has.
THEOREM BargeInCorrect == Spec => []BargeInCuts
<1>1. CutInv => BargeInCuts BY DEF CutInv, Cut, BargeInCuts
<1> QED BY <1>1, CutCorrect, PTL

\* clear_queue() never drops more than it reports (huddle.py:350-355), in silence
\* mode as long as Opus has not failed, in the other modes also when it has.
THEOREM ClearCountCorrect == Spec => ClearCountCovers
<1>1. CutInv /\ [Next]_vars =>
        [ClearOut /\ ~SilenceOverflows => Cardinality(cleared' \ cleared) <= dropped]_vars
  <2> SUFFICES ASSUME CutInv, ClearOut, ~SilenceOverflows
               PROVE  Cardinality(cleared' \ cleared) <= dropped
    OBVIOUS
  <2>1. out \in Seq(Frames) /\ Len(out) \in Nat /\ dropped \in Nat /\ Len(out) <= dropped
    BY DEF CutInv, TypeInv, TypeOK, Counted, ClearOut
  <2>2. IsFiniteSet(Range(out)) /\ Cardinality(Range(out)) <= Len(out)
    BY <2>1, RangeCard
  <2>3. cleared' \ cleared \in SUBSET Range(out) BY DEF ClearOut
  <2>4. /\ Cardinality(cleared' \ cleared) <= Cardinality(Range(out))
        /\ IsFiniteSet(cleared' \ cleared)
    BY <2>2, <2>3, FS_Subset
  <2>5. Cardinality(cleared' \ cleared) \in Nat /\ Cardinality(Range(out)) \in Nat
    BY <2>2, <2>4, FS_CardinalityType
  <2> QED BY <2>1, <2>2, <2>4, <2>5
<1> QED BY <1>1, CutCorrect, PTL DEF Spec, ClearCountCovers
=============================================================================
