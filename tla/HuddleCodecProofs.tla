--------------------------- MODULE HuddleCodecProofs ---------------------------
(***************************************************************************)
(* Proofs about HuddleCodec, for any number of threads, any length of a     *)
(* frame, any numbers of samples fed and any width of a byte.               *)
(***************************************************************************)
EXTENDS HuddleCodec, SequenceTheorems, TLAPS

CarryTypes ==
  /\ carry \in Nat /\ offset \in 0..carry
  /\ mutex \in Threads \cup {Nobody}
  /\ pc \in [Threads -> {"out", "enter", "lock", "inside", "back"}]
  /\ op \in [Threads -> {"encode", "flush", "discard"}]
  /\ failed \in BOOLEAN

\* Who is inside has the mutex, and only an encode() is in the middle of a carry.
Guarded ==
  /\ \A t \in Threads : pc[t] = "inside" <=> mutex = t
  /\ mutex = Nobody => offset = 0
  /\ \A t \in Threads : mutex = t /\ op[t] # "encode" => offset = 0

CInv == CarryTypes /\ Guarded /\ CarryIsPartial

LEMMA CInit == Init => CInv
<1> SUFFICES ASSUME Init PROVE CInv
  OBVIOUS
<1>1. carry = 0 /\ offset = 0 /\ mutex = Nobody /\ failed = FALSE
  BY DEF Init
<1>2. CarryTypes
  <2>1. /\ pc \in [Threads -> {"out", "enter", "lock", "inside", "back"}]
        /\ op \in [Threads -> {"encode", "flush", "discard"}]
    BY DEF Init
  <2>2. carry \in Nat /\ offset \in 0..carry /\ mutex \in Threads \cup {Nobody}
    BY <1>1
  <2> QED BY <1>1, <2>1, <2>2 DEF CarryTypes
<1>3. Guarded
  BY <1>1, CodecAssumption DEF Init, Guarded
<1>4. CarryIsPartial
  BY <1>1, CodecAssumption DEF CarryIsPartial
<1> QED BY <1>2, <1>3, <1>4 DEF CInv

LEMMA CallStep == ASSUME CInv, NEW t \in Threads, Call(t) PROVE CInv'
<1>1. /\ UNCHANGED <<carry, offset, mutex, failed>> /\ pc[t] = "out"
      /\ pc' = [pc EXCEPT ![t] = "enter"]
  BY DEF Call, Step
<1>2. PICK o \in {"encode", "flush", "discard"} : op' = [op EXCEPT ![t] = o]
  BY DEF Call
<1>3. mutex # t
  BY <1>1 DEF CInv, Guarded
<1> QED BY <1>1, <1>2, <1>3 DEF CInv, CarryTypes, Guarded, CarryIsPartial

LEMMA EnterStep == ASSUME CInv, NEW t \in Threads, Enter(t) PROVE CInv'
BY DEF Enter, Step, CInv, CarryTypes, Guarded, CarryIsPartial

LEMMA AcquireStep == ASSUME CInv, NEW t \in Threads, Acquire(t) PROVE CInv'
<1>1. /\ UNCHANGED <<offset, op, failed>> /\ pc[t] = "lock" /\ mutex = Nobody /\ offset = 0
      /\ t # Nobody
  BY CodecAssumption DEF Acquire, CInv, Guarded
<1>2. CASE Step(t, "back") /\ UNCHANGED <<carry, mutex>>
  BY <1>1, <1>2 DEF Step, CInv, CarryTypes, Guarded, CarryIsPartial
<1>3. CASE Step(t, "inside") /\ mutex' = t
  <2>1. carry' \in Nat
    BY <1>3, CodecAssumption DEF Acquire, Step, CInv, CarryTypes
  <2> QED BY <1>1, <1>3, <2>1, CodecAssumption
          DEF Step, CInv, CarryTypes, Guarded, CarryIsPartial
<1> QED BY <1>2, <1>3 DEF Acquire

LEMMA CutStep == ASSUME CInv, NEW t \in Threads, Cut(t) PROVE CInv'
<1>1. /\ UNCHANGED <<carry, mutex, op, pc, failed>> /\ mutex = t /\ op[t] = "encode"
      /\ t # Nobody
  BY CodecAssumption DEF Cut, locks, CInv, Guarded
<1>2. offset' \in 0..carry
  BY CodecAssumption DEF Cut, FrameLeft, CInv, CarryTypes
<1> QED BY <1>1, <1>2 DEF CInv, CarryTypes, Guarded, CarryIsPartial

LEMMA DrainedStep == ASSUME CInv, NEW t \in Threads, Drained(t) PROVE CInv'
<1>1. /\ UNCHANGED op /\ offset' = 0 /\ mutex = t /\ mutex' = Nobody
      /\ pc' = [pc EXCEPT ![t] = "back"] /\ t # Nobody
  BY CodecAssumption DEF Drained, Step, Unlock, CInv, Guarded
<1>2. carry' \in Nat /\ failed' \in BOOLEAN /\ (~failed' => carry' < FrameSamples)
  <2>0. carry \in Nat /\ offset \in 0..carry /\ failed \in BOOLEAN
    BY DEF CInv, CarryTypes
  <2>1. CASE ~FrameLeft /\ carry' = carry - offset /\ UNCHANGED failed
    <3>1. carry' \in Nat /\ carry' < FrameSamples
      BY <2>0, <2>1, CodecAssumption DEF FrameLeft
    <3> QED BY <2>0, <2>1, <3>1
  <2>2. CASE failed' = TRUE /\ UNCHANGED carry
    BY <2>0, <2>2
  <2> QED BY <2>1, <2>2 DEF Drained
<1> QED BY <1>1, <1>2, CodecAssumption DEF CInv, CarryTypes, Guarded, CarryIsPartial

LEMMA BackStep == ASSUME CInv, NEW t \in Threads, Back(t) PROVE CInv'
<1>1. mutex # t
  BY DEF Back, CInv, Guarded
<1> QED BY <1>1 DEF Back, Step, CInv, CarryTypes, Guarded, CarryIsPartial

LEMMA FinishStep == ASSUME CInv, NEW t \in Threads, Finish(t) PROVE CInv'
<1>1. /\ UNCHANGED <<offset, op, failed>> /\ carry' = 0 /\ offset = 0 /\ mutex = t
      /\ mutex' = Nobody /\ pc' = [pc EXCEPT ![t] = "out"] /\ t # Nobody
  BY CodecAssumption DEF Finish, Step, CInv, Guarded
<1> QED BY <1>1, CodecAssumption DEF CInv, CarryTypes, Guarded, CarryIsPartial

LEMMA CStep == CInv /\ [Next]_vars => CInv'
<1> SUFFICES ASSUME CInv, [Next]_vars PROVE CInv'
  OBVIOUS
<1>1. ASSUME NEW t \in Threads, Call(t) \/ Thread(t) PROVE CInv'
  BY <1>1, CallStep, EnterStep, AcquireStep, CutStep, DrainedStep, BackStep, FinishStep
     DEF Thread
<1>2. CASE UNCHANGED vars
  BY <1>2 DEF vars, locks, CInv, CarryTypes, Guarded, CarryIsPartial
<1> QED BY <1>1, <1>2 DEF Next

\* However many threads encode, flush and discard at once, less than a frame is
\* carried between calls, so that flush() loses nothing, unless Opus failed
\* (huddle.rs:236-262).
THEOREM CarryIsPartialCorrect == Spec => []CarryIsPartial
<1>1. CInv => CarryIsPartial
  BY DEF CInv
<1> QED BY <1>1, CInit, CStep, PTL DEF Spec
-----------------------------------------------------------------------------
(* Division *)

LEMMA Division ==
  ASSUME NEW a \in Int, NEW m \in Nat \ {0}
  PROVE  a = m * (a \div m) + (a % m) /\ a % m \in 0..(m - 1) /\ a \div m \in Int
<1>1. m \in Int /\ m > 0
  OBVIOUS
<1>2. a % m \in 0..(m - 1) /\ a \div m \in Int
  BY <1>1
<1>3. a = m * (a \div m) + (a % m)
  BY <1>1, Z3
<1> QED BY <1>2, <1>3

LEMMA Multiples ==
  ASSUME NEW m \in Nat \ {0}, NEW k \in Int
  PROVE  (k >= 1 => m * k >= m) /\ (k <= -1 => m * k <= -m)
OBVIOUS

LEMMA DivisionUnique ==
  ASSUME NEW a \in Int, NEW m \in Nat \ {0}, NEW q \in Int, NEW r \in 0..(m - 1), a = m * q + r
  PROVE  a % m = r /\ a \div m = q
<1> DEFINE d == a \div m
           e == a % m
<1>1. a = m * d + e /\ e \in 0..(m - 1) /\ d \in Int
  BY Division
<1> HIDE DEF d, e
<1>2. m * (d - q) = r - e
  BY <1>1
<1>3. ~(d - q >= 1) /\ ~(d - q <= -1)
  BY <1>1, <1>2, Multiples
<1> QED BY <1>1, <1>3 DEF d, e

\* A counter may wrap at every step or once at the end.
LEMMA Wraps ==
  ASSUME NEW n \in Nat, NEW k \in Nat, NEW m \in Nat \ {0}
  PROVE  ((n % m) + k) % m = (n + k) % m
<1> DEFINE d == n \div m
           e == n % m
           c == (e + k) \div m
           r == (e + k) % m
<1>1. n = m * d + e /\ e \in 0..(m - 1) /\ d \in Int
  BY Division
<1>2. e + k \in Int
  BY <1>1
<1>3. e + k = m * c + r /\ r \in 0..(m - 1) /\ c \in Int
  BY <1>2, Division
<1> HIDE DEF d, e, c, r
<1> DEFINE a == n + k
           q == d + c
<1>4. a \in Int /\ q \in Int /\ a = m * q + r
  BY <1>1, <1>3
<1> HIDE DEF a, q
<1>5. a % m = r
  BY <1>3, <1>4, DivisionUnique
<1> QED BY <1>5 DEF a, e, r

LEMMA DivideTwice ==
  ASSUME NEW a \in Nat, NEW m \in Nat \ {0}, NEW k \in Nat \ {0}
  PROVE  a \div (m * k) = (a \div m) \div k
<1> DEFINE d == a \div m
           e == a % m
           c == d \div k
           r == d % k
<1>1. a = m * d + e /\ e \in 0..(m - 1) /\ d \in Int
  BY Division
<1>2. d = k * c + r /\ r \in 0..(k - 1) /\ c \in Int
  BY <1>1, Division
<1> HIDE DEF d, e, c, r
<1>3. m * k \in Nat \ {0}
  OBVIOUS
<1>4. a = (m * k) * c + (m * r + e)
  BY <1>1, <1>2
<1>5. m * r + e \in 0..(m * k - 1)
  <2>1. m * r \in Nat
    BY <1>2
  <2>2. m * r + m <= m * k
    <3>1. m * (k - r) >= m
      BY <1>2, Multiples
    <3> QED BY <1>2, <3>1
  <2> QED BY <1>1, <1>3, <2>1, <2>2
<1>6. a \div (m * k) = c
  BY <1>2, <1>3, <1>4, <1>5, DivisionUnique
<1> QED BY <1>6 DEF c, d
-----------------------------------------------------------------------------
(* The header *)

LEMMA Widths == Base \in Nat \ {0} /\ Word \in Nat \ {0} /\ Long \in Nat \ {0}
<1>1. Base \in Nat \ {0}
  BY CodecAssumption
<1>2. Word \in Nat \ {0}
  BY <1>1 DEF Word
<1> QED BY <1>1, <1>2 DEF Long

LEMMA TwoBytes ==
  ASSUME NEW s \in Nat
  PROVE  (s \div Base) * Base + (s % Base) = s
<1>1. s = Base * (s \div Base) + (s % Base) /\ s \div Base \in Int /\ Base \in Nat
  BY Division, Widths
<1> QED BY <1>1

LEMMA FourBytes ==
  ASSUME NEW t \in Nat
  PROVE  (t \div (Word * Base)) * (Word * Base) + ((t \div Word) % Base) * Word
           + ((t \div Base) % Base) * Base + (t % Base) = t
<1> DEFINE a == t \div Base
           b == a \div Base
           c == b \div Base
           x == t % Base
           y == a % Base
           z == b % Base
<1>0. Base \in Nat \ {0} /\ Word \in Nat \ {0} /\ Word = Base * Base
  BY Widths DEF Word
<1>1. t = Base * a + x /\ a \in Int /\ x \in 0..(Base - 1)
  BY <1>0, Division
<1>2. a = Base * b + y /\ b \in Int /\ y \in 0..(Base - 1)
  BY <1>0, <1>1, Division
<1>3. b = Base * c + z /\ c \in Int /\ z \in 0..(Base - 1)
  BY <1>0, <1>2, Division
<1>4. t \div Word = b
  BY <1>0, DivideTwice
<1>5. t \div (Word * Base) = c
  <2>1. t \div (Word * Base) = (t \div Word) \div Base
    BY <1>0, DivideTwice
  <2> QED BY <1>4, <2>1
<1> HIDE DEF a, b, c, x, y, z
<1>6. c * (Word * Base) + z * Word + y * Base + x = t
  <2>1. z * Word + c * (Word * Base) = b * Word
    BY <1>0, <1>3
  <2>2. y * Base + b * Word = a * Base
    BY <1>0, <1>2, <1>3
  <2>3. c * (Word * Base) \in Int /\ z * Word \in Int /\ y * Base \in Int /\ b * Word \in Int /\ a * Base \in Int
    BY <1>0, <1>1, <1>2, <1>3
  <2>4. a * Base + x = t
    BY <1>0, <1>1
  <2> QED BY <1>1, <2>1, <2>2, <2>3, <2>4
<1> QED BY <1>4, <1>5, <1>6 DEF a, x, y, z

LEMMA Halves ==
  Base = 2 * (Base \div 2) /\ Base \div 2 \in Int /\ Base > 2 /\ Base \in Nat
<1>1. Base \in Int /\ Base > 2 /\ Base % 2 = 0 /\ Base \in Nat /\ 2 \in Nat \ {0}
  BY CodecAssumption
<1>2. \A m \in Nat \ {0} : Base = m * (Base \div m) + (Base % m) /\ Base \div m \in Int
  BY <1>1, Division
<1>3. Base = 2 * (Base \div 2) + (Base % 2) /\ Base \div 2 \in Int
  BY <1>1, <1>2
<1> QED BY <1>1, <1>3

\* The level's byte is its two's complement.
LEMMA LevelByte ==
  ASSUME NEW l \in Levels
  PROVE  Signed(l % Base) = l /\ l % Base \in 0..(Base - 1)
<1> DEFINE h == Base \div 2
<1>1. Base = 2 * h /\ h \in Int /\ Base > 2 /\ Base \in Nat
  BY Halves
<1>2. l \in Int /\ l <= 0 /\ l >= 1 - h
  BY <1>1 DEF Levels, Floor
<1>3. CASE l = 0
  <2>1. l = Base * 0 + 0 /\ 0 \in 0..(Base - 1)
    BY <1>1, <1>3
  <2>2. l % Base = 0
    BY <1>1, <1>2, <2>1, DivisionUnique
  <2> QED BY <1>1, <1>3, <2>2 DEF Signed
<1>4. CASE l < 0
  <2> DEFINE r == l + Base
  <2>1. l = Base * (-1) + r /\ r \in 0..(Base - 1) /\ r > h
    BY <1>1, <1>2, <1>4
  <2> HIDE DEF r
  <2>2. l % Base = r
    BY <1>1, <1>2, <2>1, DivisionUnique
  <2>3. Signed(r) = r - Base
    BY <1>1, <2>1 DEF Signed
  <2> QED BY <1>1, <1>2, <2>1, <2>2, <2>3 DEF r
<1> QED BY <1>1, <1>2, <1>3, <1>4

LEMMA SignedLevel ==
  ASSUME NEW b \in 0..(Base - 1)
  PROVE  (IF Signed(b) \in Levels THEN Signed(b) ELSE Floor) \in Levels
<1>2. Floor \in Levels
  BY Halves DEF Floor, Levels
<1> QED BY <1>2

-----------------------------------------------------------------------------
(* What the other end reads *)

\* The header of the last frame tells its place in the order.
Counted ==
  /\ count \in Nat /\ level \in Levels
  /\ seq = count % Word /\ ts = (count * FrameSamples) % Long
  /\ wire # << >> =>
       /\ count >= 1
       /\ \E dtx \in {0, 1} :
            wire = EncodeHeader((count - 1) % Word, ((count - 1) * FrameSamples) % Long,
                                level, dtx) \o <<0>>

LEMMA CountedInit == Init => Counted
<1> SUFFICES ASSUME Init PROVE Counted
  OBVIOUS
<1>1. 0 % Word = 0 /\ 0 % Long = 0
  <2>1. ASSUME NEW m \in Nat \ {0} PROVE 0 % m = 0
    <3>1. 0 = m * 0 + 0 /\ 0 \in 0..(m - 1)
      OBVIOUS
    <3> QED BY <3>1, DivisionUnique
  <2> QED BY <2>1, Widths
<1>2. 0 \in Levels
  BY Halves DEF Levels, Floor
<1>3. 0 * FrameSamples = 0
  BY CodecAssumption
<1> QED BY <1>1, <1>2, <1>3 DEF Init, Counted

LEMMA PutOutStep ==
  ASSUME Counted, PutOut PROVE Counted'
<1> DEFINE n == count
<1>1. n \in Nat /\ FrameSamples \in Nat /\ n * FrameSamples \in Nat /\ n' = n + 1
  BY CodecAssumption DEF PutOut, Counted
<1>2. seq' = n' % Word
  <2>1. ((n % Word) + 1) % Word = (n + 1) % Word
    <3>1. n \in Nat /\ 1 \in Nat /\ Word \in Nat \ {0}
      BY <1>1, Widths
    <3> QED BY <3>1, Wraps, ZenonT(30)
  <2> QED BY <1>1, <2>1 DEF PutOut, Advance, Counted
<1>3. ts' = (n' * FrameSamples) % Long
  <2>1. (((n * FrameSamples) % Long) + FrameSamples) % Long = (n * FrameSamples + FrameSamples) % Long
    BY <1>1, Widths, Wraps
  <2>2. n' * FrameSamples = n * FrameSamples + FrameSamples
    BY <1>1
  <2> QED BY <2>1, <2>2 DEF PutOut, Advance, Counted
<1>4. level' \in Levels
  BY DEF PutOut
<1>5. PICK dtx \in {0, 1} : wire' = EncodeHeader(seq, ts, level', dtx) \o <<0>>
  BY DEF PutOut
<1>6. n' - 1 = n /\ n' >= 1 /\ n' \in Nat
  BY <1>1
<1>7. wire' = EncodeHeader((n' - 1) % Word, ((n' - 1) * FrameSamples) % Long, level', dtx) \o <<0>>
  BY <1>5, <1>6 DEF Counted
<1> QED BY <1>2, <1>3, <1>4, <1>6, <1>7 DEF Counted

LEMMA CountedStep == Counted /\ [Next]_vars => Counted'
<1> SUFFICES ASSUME Counted, [Next]_vars PROVE Counted'
  OBVIOUS
<1>1. PutOut \/ UNCHANGED counters
  BY DEF Next, Call, Thread, Enter, Acquire, Cut, Drained, Back, Finish, EncodeFrame, vars
<1>2. CASE UNCHANGED counters
  BY <1>2 DEF counters, Counted
<1> QED BY <1>1, <1>2, PutOutStep

\* A frame as it arrives: the peer's index, the header, with any byte b for its
\* level, and the payload.
Received(w, b) == Parse(<<0>> \o [w EXCEPT ![7] = b])

ReadAs(w, b, s, t, l) ==
  /\ w[7] = l % Base
  /\ Received(w, b).ok /\ Received(w, b).seq = s /\ Received(w, b).ts = t
  /\ Received(w, b).level = IF Signed(b) \in Levels THEN Signed(b) ELSE Floor

LEMMA Arrives ==
  ASSUME NEW s \in Nat, NEW t \in Nat, NEW l \in Levels, NEW dtx \in {0, 1}, NEW b \in 0..(Base - 1)
  PROVE  ReadAs(EncodeHeader(s, t, l, dtx) \o <<0>>, b, s, t, l)
<1> DEFINE e == EncodeHeader(s, t, l, dtx)
           w == e \o <<0>>
           x == [w EXCEPT ![7] = b]
           f == <<0>> \o x
<1>1. /\ e \in Seq(Int) /\ Len(e) = 8
      /\ e[1] = s \div Base /\ e[2] = s % Base
      /\ e[3] = t \div (Word * Base) /\ e[4] = (t \div Word) % Base
      /\ e[5] = (t \div Base) % Base /\ e[6] = t % Base /\ e[7] = l % Base
  <2>1. /\ s \div Base \in Int /\ s % Base \in Int /\ t \div (Word * Base) \in Int
        /\ (t \div Word) % Base \in Int /\ (t \div Base) % Base \in Int /\ t % Base \in Int
        /\ l % Base \in Int /\ dtx \in Int
    <3>1. l \in Int /\ Word * Base \in Nat \ {0}
      BY Widths, Halves DEF Levels, Floor
    <3>2. t \div Word \in Int /\ t \div Base \in Int
      BY Widths, Division
    <3> QED BY <3>1, <3>2, Widths, Division
  <2> QED BY <2>1 DEF EncodeHeader
<1> HIDE DEF e
<1>2. /\ w \in Seq(Int) /\ Len(w) = 9 /\ \A i \in 1..8 : w[i] = e[i]
  <2>1. <<0>> \in Seq(Int) /\ Len(<<0>>) = 1
    OBVIOUS
  <2>2. /\ w \in Seq(Int) /\ Len(w) = Len(e) + Len(<<0>>)
        /\ \A i \in 1..(Len(e) + Len(<<0>>)) :
             w[i] = IF i <= Len(e) THEN e[i] ELSE <<0>>[i - Len(e)]
    BY <1>1, <2>1, ConcatProperties
  <2>3. 1..8 \subseteq 1..(Len(e) + Len(<<0>>)) /\ \A i \in 1..8 : i <= Len(e)
    BY <1>1, <2>1
  <2> HIDE DEF w
  <2> QED BY <1>1, <2>1, <2>2, <2>3
<1> HIDE DEF w
<1>3. x \in Seq(Int) /\ Len(x) = 9 /\ x[7] = b /\ \A i \in 1..6 : x[i] = e[i]
  <2>1. b \in Int /\ 7 \in 1..Len(w)
    BY <1>2, Widths
  <2>2. x \in Seq(Int) /\ Len(x) = Len(w) /\ \A j \in 1..Len(w) : x[j] = IF j = 7 THEN b ELSE w[j]
    <3>1. w \in [1..Len(w) -> Int] /\ Len(w) \in Nat
      BY <1>2, LenProperties
    <3>2. x \in [1..Len(w) -> Int] /\ \A j \in 1..Len(w) : x[j] = IF j = 7 THEN b ELSE w[j]
      BY <2>1, <3>1
    <3> HIDE DEF x
    <3> QED BY <3>1, <3>2
  <2> QED BY <1>2, <2>2
<1> HIDE DEF x
<1>4. Len(f) = 10 /\ \A i \in 2..10 : f[i] = x[i - 1]
  <2>1. <<0>> \in Seq(Int) /\ Len(<<0>>) = 1
    OBVIOUS
  <2>2. /\ Len(f) = Len(<<0>>) + Len(x)
        /\ \A i \in 1..(Len(<<0>>) + Len(x)) :
             f[i] = IF i <= Len(<<0>>) THEN <<0>>[i] ELSE x[i - Len(<<0>>)]
    BY <1>3, <2>1, ConcatProperties, ZenonT(30)
  <2> QED BY <1>3, <2>1, <2>2, SMTT(30)
<1> HIDE DEF f
<1>5. /\ f[2] = e[1] /\ f[3] = e[2] /\ f[4] = e[3] /\ f[5] = e[4] /\ f[6] = e[5] /\ f[7] = e[6]
      /\ f[8] = b
  BY <1>3, <1>4
<1>6. /\ Parse(f).ok /\ Parse(f).seq = f[2] * Base + f[3]
      /\ Parse(f).ts = f[4] * (Word * Base) + f[5] * Word + f[6] * Base + f[7]
      /\ Parse(f).level = IF Signed(f[8]) \in Levels THEN Signed(f[8]) ELSE Floor
  BY <1>4 DEF Parse
<1>7. Parse(f).seq = s /\ Parse(f).ts = t
  BY <1>1, <1>5, <1>6, TwoBytes, FourBytes
<1>8. w[7] = l % Base
  BY <1>1, <1>2
<1> QED BY <1>5, <1>6, <1>7, <1>8 DEF ReadAs, Received, f, x, w, e

\* The number and the media time of a frame arrive as they were put out, modulo
\* the width of their fields, for every width, frame length and interleaving of
\* the threads; its level arrives as it is, and no byte in its place makes the
\* receiver drop the frame (huddle.rs:12-13, 104-105).
THEOREM HeaderInStepCorrect == Spec => []HeaderInStep
<1>1. Counted => HeaderInStep
  <2> SUFFICES ASSUME Counted, wire # << >>
               PROVE  LET n == count - 1
                          Frame(b) == Parse(<<0>> \o [wire EXCEPT ![7] = b])
                      IN /\ Frame(wire[7]).level = level
                         /\ \A b \in 0..(Base - 1) :
                              /\ Frame(b).ok /\ Frame(b).level \in Levels
                              /\ Frame(b).seq = n % Word
                              /\ Frame(b).ts = (n * FrameSamples) % Long
    BY DEF HeaderInStep
  <2> DEFINE s == (count - 1) % Word
             t == ((count - 1) * FrameSamples) % Long
  <2>1. s \in Nat /\ t \in Nat /\ level \in Levels
    <3>1. count - 1 \in Nat /\ FrameSamples \in Nat
      BY CodecAssumption DEF Counted
    <3>2. (count - 1) * FrameSamples \in Nat
      BY <3>1
    <3>3. s \in 0..(Word - 1) /\ t \in 0..(Long - 1)
      <4>1. ASSUME NEW a \in Nat, NEW m \in Nat \ {0} PROVE a % m \in 0..(m - 1)
        OBVIOUS
      <4> QED BY <3>1, <3>2, <4>1, Widths
    <3> QED BY <3>3, Widths DEF Counted
  <2>2. PICK dtx \in {0, 1} : wire = EncodeHeader(s, t, level, dtx) \o <<0>>
    BY DEF Counted
  <2> HIDE DEF s, t
  <2>3. ASSUME NEW b \in 0..(Base - 1)
        PROVE  ReadAs(wire, b, s, t, level)
    <3>1. ReadAs(EncodeHeader(s, t, level, dtx) \o <<0>>, b, s, t, level)
      BY <2>1, Arrives, Zenon
    <3> QED BY <2>2, <3>1
  <2>4. level % Base \in 0..(Base - 1) /\ Signed(level % Base) = level
    BY <2>1, LevelByte
  <2>5. wire[7] = level % Base
    BY <2>3, <2>4 DEF ReadAs
  <2>6. Received(wire, wire[7]).level = level
    BY <2>1, <2>3, <2>4, <2>5 DEF ReadAs
  <2> QED BY <2>3, <2>6, SignedLevel DEF ReadAs, Received, s, t
<1> QED BY <1>1, CountedInit, CountedStep, PTL DEF Spec
=============================================================================
