--------------------------- MODULE HuddlePacerProofs ---------------------------
(* The clock of _send_loop, for every length of a frame, cap and stall. *)
EXTENDS HuddlePacer, TLAPS

USE PacerAssumption DEF PacerAssumption

-----------------------------------------------------------------------------
(* int(x / _FRAME_SECONDS) *)

\* The frames behind, counted in whole frames, end at most a frame before t.
LEMMA BehindBounds ==
  ASSUME NEW t \in Nat, nextAt \in Nat, nextAt <= t
  PROVE  /\ Behind(t) \in Nat
         /\ nextAt + Behind(t) * Frame \in Nat
         /\ nextAt <= nextAt + Behind(t) * Frame
         /\ nextAt + Behind(t) * Frame <= t
         /\ t < nextAt + Behind(t) * Frame + Frame
<1> DEFINE a == t - nextAt
           k == a \div Frame
<1>1. a \in Nat
  OBVIOUS
<1>2. k \in Nat /\ k * Frame <= a /\ a < k * Frame + Frame
  BY <1>1
<1>3. k * Frame \in Nat
  BY <1>2
<1>4. Behind(t) = k
  BY DEF Behind
<1> HIDE DEF k
<1> QED BY <1>2, <1>3, <1>4

-----------------------------------------------------------------------------
(* The inductive invariant *)

Sent == [at : Nat, slot : Nat, prompt : BOOLEAN]

PacerTypes ==
  /\ now \in Nat /\ nextAt \in Nat /\ queued \in Nat /\ silence \in BOOLEAN
  /\ pc \in {"tick", "pick", "late"} /\ sends \in Seq(Sent)

\* After the clock was read the frame is due, and unless the thread was held up
\* since, it is less than a frame late.
Due ==
  /\ pc \in {"pick", "late"} => nextAt <= now
  /\ pc = "pick" => now < nextAt + Frame

\* The frames sent had their time, one after the other, and so will the next.
Slots ==
  \A i \in 1..Len(sends) :
    /\ sends[i].slot <= sends[i].at
    /\ sends[i].prompt => sends[i].at < sends[i].slot + Frame
    /\ i > 1 => sends[i].slot >= sends[i - 1].slot + Frame
    /\ i = Len(sends) => nextAt >= sends[i].slot + Frame

PacerInv == PacerTypes /\ Due /\ Slots

LEMMA PacerInit == Init => PacerInv
BY DEF Init, PacerInv, PacerTypes, Due, Slots

LEMMA SentFields ==
  ASSUME PacerTypes, NEW i \in 1..Len(sends)
  PROVE  sends[i].at \in Nat /\ sends[i].slot \in Nat /\ sends[i].prompt \in BOOLEAN
<1>1. sends[i] \in Sent
  BY DEF PacerTypes
<1> QED BY <1>1 DEF Sent

\* A later next_at keeps the slots.
LEMMA SlotsLater ==
  ASSUME PacerTypes, Slots, UNCHANGED sends, nextAt' \in Nat, nextAt <= nextAt'
  PROVE  Slots'
<1>1. \A i \in 1..Len(sends) : sends[i].slot \in Nat
  BY SentFields
<1> QED BY <1>1 DEF PacerTypes, Slots

LEMMA TickStep == ASSUME PacerInv, Tick PROVE PacerInv'
<1>1. PICK late \in 0..MaxStall :
        LET t == Latest(now, nextAt) + late IN
          /\ t <= MaxTime
          /\ now' = t /\ Realign(t)
          /\ queued' = Least(MaxQueue, queued - Least(Behind(t), queued))
  BY DEF Tick
<1> DEFINE t == Latest(now, nextAt) + late
<1>2. t \in Nat /\ nextAt <= t
  BY DEF Latest, PacerInv, PacerTypes
<1>3. /\ now' = t /\ nextAt' = nextAt + Behind(t) * Frame
      /\ queued' = Least(MaxQueue, queued - Least(Behind(t), queued))
  BY <1>1 DEF Realign
<1> HIDE DEF t
<1>4. nextAt' \in Nat /\ nextAt <= nextAt' /\ nextAt' <= now' /\ now' < nextAt' + Frame
  BY <1>2, <1>3, BehindBounds DEF PacerInv, PacerTypes
<1>5. queued' \in Nat
  <2>1. Behind(t) \in Nat /\ queued \in Nat
    BY <1>2, BehindBounds DEF PacerInv, PacerTypes
  <2> QED BY <1>3, <2>1 DEF Least
<1>6. pc' = "pick" /\ UNCHANGED <<silence, sends>>
  BY DEF Tick
<1>7. Slots'
  BY <1>4, <1>6, SlotsLater DEF PacerInv
<1> QED BY <1>2, <1>3, <1>4, <1>5, <1>6, <1>7 DEF PacerInv, PacerTypes, Due

\* A frame is sent in its slot, which then is past.
LEMMA SendStep ==
  ASSUME PacerInv, pc \in {"pick", "late"}, pc' = "tick", UNCHANGED silence,
         NEW left \in Nat, SendFrame(left)
  PROVE  PacerInv'
<1> DEFINE e == [at |-> now, slot |-> nextAt, prompt |-> pc = "pick"]
<1>1. /\ e \in Sent /\ e.at = now /\ e.slot = nextAt /\ (e.prompt => pc = "pick")
  BY DEF PacerInv, PacerTypes, Sent
<1>2. sends' = Append(sends, e) /\ queued' = left /\ nextAt' = nextAt + Frame
  BY DEF SendFrame
<1>3. now' \in Nat
  BY DEF SendFrame, PacerInv, PacerTypes
<1> HIDE DEF e
<1>4. PacerTypes'
  BY <1>1, <1>2, <1>3 DEF PacerInv, PacerTypes
<1>5. /\ Len(sends') = Len(sends) + 1 /\ Len(sends) \in Nat
      /\ sends'[Len(sends) + 1] = e
      /\ \A i \in 1..Len(sends) : sends'[i] = sends[i] /\ sends[i].slot \in Nat
  <2>1. sends \in Seq(Sent) /\ \A i \in 1..Len(sends) : sends[i].slot \in Nat
    BY SentFields DEF PacerInv, PacerTypes
  <2> QED BY <1>1, <1>2, <2>1
<1>6. ASSUME NEW i \in 1..Len(sends')
      PROVE  /\ sends'[i].slot <= sends'[i].at
             /\ sends'[i].prompt => sends'[i].at < sends'[i].slot + Frame
             /\ i > 1 => sends'[i].slot >= sends'[i - 1].slot + Frame
             /\ i = Len(sends') => nextAt' >= sends'[i].slot + Frame
  <2>1. CASE i = Len(sends) + 1
    <3>1. i > 1 => sends'[i - 1] = sends[i - 1] /\ nextAt >= sends[i - 1].slot + Frame
      BY <1>5, <2>1 DEF PacerInv, Slots
    <3> QED BY <1>1, <1>2, <1>5, <2>1, <3>1 DEF PacerInv, PacerTypes, Due
  <2>2. CASE i \in 1..Len(sends)
    <3>1. i > 1 => sends'[i - 1] = sends[i - 1]
      BY <1>5, <2>2
    <3> QED BY <1>5, <2>2, <3>1 DEF PacerInv, Slots
  <2> QED BY <1>5, <2>1, <2>2
<1>7. Slots'
  BY <1>6 DEF Slots
<1> QED BY <1>4, <1>7 DEF PacerInv, Due

LEMMA TurnStep == ASSUME PacerInv, Turn PROVE PacerInv'
<1>1. pc \in {"pick", "late"} /\ pc' = "tick" /\ UNCHANGED silence
  BY DEF Turn
<1>2. CASE PickQueued
  <2>1. queued - 1 \in Nat /\ SendFrame(queued - 1)
    BY <1>2 DEF PickQueued, PacerInv, PacerTypes
  <2> QED BY <1>1, <2>1, SendStep
<1>3. CASE PickSilence
  <2>1. \E more \in Nat : SendFrame(more)
    BY <1>3 DEF PickSilence
  <2> QED BY <1>1, <2>1, SendStep
<1>4. CASE PickNothing
  <2>1. nextAt' = nextAt + Frame /\ UNCHANGED <<now, queued, sends>>
    BY <1>4 DEF PickNothing
  <2>2. nextAt' \in Nat /\ nextAt <= nextAt'
    BY <2>1 DEF PacerInv, PacerTypes
  <2> QED BY <1>1, <2>1, <2>2, SlotsLater DEF PacerInv, PacerTypes, Due
<1>5. CASE Idle
  <2>1. now' \in Nat /\ now <= now' /\ nextAt' = now' /\ UNCHANGED <<queued, sends>>
    BY <1>5 DEF Idle, PacerInv, PacerTypes
  <2>2. nextAt <= nextAt'
    BY <1>1, <2>1 DEF PacerInv, PacerTypes, Due
  <2> QED BY <1>1, <2>1, <2>2, SlotsLater DEF PacerInv, PacerTypes, Due
<1> QED BY <1>2, <1>3, <1>4, <1>5 DEF Turn

LEMMA PacerStep == PacerInv /\ [Next]_vars => PacerInv'
<1> SUFFICES ASSUME PacerInv, [Next]_vars PROVE PacerInv'
  OBVIOUS
<1>1. CASE Tick
  BY <1>1, TickStep
<1>2. CASE Turn
  BY <1>2, TurnStep
<1>3. CASE QueueFrame
  BY <1>3 DEF QueueFrame, PacerInv, PacerTypes, Due, Slots
<1>4. CASE Stall
  <2>1. now' \in Nat /\ now <= now' /\ pc = "pick" /\ pc' = "late"
        /\ UNCHANGED <<nextAt, queued, silence, sends>>
    BY <1>4 DEF Stall, PacerInv, PacerTypes
  <2> QED BY <2>1 DEF PacerInv, PacerTypes, Due, Slots
<1>5. CASE UNCHANGED vars
  BY <1>5 DEF vars, PacerInv, PacerTypes, Due, Slots
<1> QED BY <1>1, <1>2, <1>3, <1>4, <1>5 DEF Next

LEMMA PacerCorrect == Spec => []PacerInv
BY PacerInit, PacerStep, PTL DEF Spec

\* Two slots a frame apart follow the first, whose send was less than a frame late.
LEMMA TwoSlotsOn ==
  ASSUME NEW a \in Nat, NEW s \in Nat, NEW s1 \in Nat, NEW s2 \in Nat, NEW b \in Nat,
         a < s + Frame, s1 >= s + Frame, s2 >= s1 + Frame, s2 <= b
  PROVE  b - a > Frame
BY PacerAssumption

-----------------------------------------------------------------------------
\* However long the stalls, no frame leaves before its time and the times are a
\* frame apart (huddle.py:407-409).
THEOREM OnScheduleCorrect == Spec => []OnSchedule
<1>1. PacerInv => OnSchedule
  BY DEF PacerInv, Slots, OnSchedule
<1> QED BY <1>1, PacerCorrect, PTL

\* However long the stalls, three frames never leave within a frame's time unless
\* the first was itself held up (huddle.py:385, 409-410).
THEOREM NoBurstCorrect == Spec => []NoBurst
<1>1. ASSUME PacerInv PROVE NoBurst
  <2>1. ASSUME NEW i \in 1..(Len(sends) - 2), sends[i].prompt
        PROVE  sends[i + 2].at - sends[i].at > Frame
    <3>1. i \in 1..Len(sends) /\ i + 1 \in 1..Len(sends) /\ i + 2 \in 1..Len(sends)
      BY <1>1 DEF PacerInv, PacerTypes
    <3>2. /\ sends[i].at \in Nat /\ sends[i].slot \in Nat /\ sends[i + 1].slot \in Nat
          /\ sends[i + 2].slot \in Nat /\ sends[i + 2].at \in Nat
      BY <1>1, <3>1, SentFields DEF PacerInv
    <3>3. sends[i].at < sends[i].slot + Frame
      BY <1>1, <2>1, <3>1 DEF PacerInv, Slots
    <3>4. sends[i + 1].slot >= sends[i].slot + Frame
      <4>1. i + 1 > 1 /\ (i + 1) - 1 = i
        OBVIOUS
      <4> QED BY <1>1, <3>1, <4>1 DEF PacerInv, Slots
    <3>5. sends[i + 2].slot >= sends[i + 1].slot + Frame /\ sends[i + 2].slot <= sends[i + 2].at
      <4>1. i + 2 > 1 /\ (i + 2) - 1 = i + 1
        OBVIOUS
      <4> QED BY <1>1, <3>1, <4>1 DEF PacerInv, Slots
    <3> QED BY <3>2, <3>3, <3>4, <3>5, TwoSlotsOn
  <2> QED BY <2>1 DEF NoBurst
<1> QED BY <1>1, PacerCorrect, PTL
=============================================================================
