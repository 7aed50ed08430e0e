------------------------------ MODULE HuddleCodec ------------------------------
(***************************************************************************)
(* HuddleEncoder and the wire header (src/huddle.rs): PCM is cut into       *)
(* frames of FrameSamples, what is left stays in carry, and every frame     *)
(* gets the next seq and timestamp.  The encoder is shared by two threads   *)
(* under a mutex that encode() takes without Python's GIL and flush() and   *)
(* discard() take with it.  What arrives is parsed at the other end.        *)
(*                                                                         *)
(* A byte has Base values (256 in the code): seq is two bytes, ts_48k four, *)
(* the level one, signed.  A small Base lets them wrap within a run.  Opus  *)
(* is external: it gives a packet for a frame, gives none, or fails.        *)
(***************************************************************************)
EXTENDS Integers, Sequences

CONSTANTS
  Base,          \* values of a byte
  FrameSamples,  \* FRAME_SAMPLES
  Feeds,         \* numbers of samples that callers feed at once
  Threads,       \* the caller's thread and the sender's
  Nobody,
  MaxCarry,      \* bound: samples in carry
  MaxFrames      \* bound: frames put out in a run

ASSUME CodecAssumption ==
  /\ Base \in Nat /\ Base % 2 = 0 /\ Base > 2
  /\ FrameSamples \in Nat \ {0} /\ Feeds \subseteq Nat
  /\ Nobody \notin Threads /\ MaxCarry \in Nat /\ MaxFrames \in Nat

VARIABLES
  (* Shared, under the mutex. *)
  carry,   \* len(carry)
  offset,  \* how much of it the drain() in progress has cut
  seq,
  ts,      \* ts_48k
  (* The locks and the threads. *)
  gil, mutex,   \* who holds them
  pc,      \* "out", "enter" (waits for the GIL), "lock" (waits for the mutex),
           \* "inside", "back" (waits for the GIL again)
  op,      \* "encode", "flush" or "discard"
  (* History. *)
  wire,    \* the last frame put out, as bytes, or << >>
  level,   \* its level
  count,   \* frames put out so far
  failed   \* did Opus fail in an encode()?

counters == <<seq, ts, wire, level, count>>
locks    == <<gil, mutex, op>>
vars     == <<carry, offset, counters, locks, pc, failed>>

Init ==
  /\ carry = 0 /\ offset = 0 /\ seq = 0 /\ ts = 0
  /\ gil = Nobody /\ mutex = Nobody
  /\ pc = [t \in Threads |-> "out"]
  /\ op = [t \in Threads |-> "encode"]
  /\ wire = << >> /\ level = 0 /\ count = 0 /\ failed = FALSE

-----------------------------------------------------------------------------
(* The header *)

Word == Base * Base                   \* values of two bytes, and of four
Long == Word * Word

Floor  == 1 - Base \div 2             \* -127
Levels == Floor..0
Signed(b) == IF b < Base \div 2 THEN b ELSE b - Base

EncodeHeader(s, t, l, flags) ==
  <<s \div Base, s % Base,
    t \div (Word * Base), (t \div Word) % Base, (t \div Base) % Base, t % Base,
    l % Base, flags>>

\* A frame needs an index, a header and a payload; a level out of range is
\* telemetry gone wrong and becomes the floor.
Parse(f) ==
  IF Len(f) <= 9 THEN [ok |-> FALSE]
  ELSE [ok    |-> TRUE,
        index |-> f[1],
        seq   |-> f[2] * Base + f[3],
        ts    |-> f[4] * (Word * Base) + f[5] * Word + f[6] * Base + f[7],
        level |-> IF Signed(f[8]) \in Levels THEN Signed(f[8]) ELSE Floor,
        flags |-> f[9]]

-----------------------------------------------------------------------------
(* encode_frame: the counters advance only if Opus gave a packet *)

Advance_narrow == seq' = (seq + 1) % Word /\ ts' = (ts + FrameSamples) % Word
Advance == seq' = (seq + 1) % Word /\ ts' = (ts + FrameSamples) % Long

PutOut ==
  /\ count < MaxFrames /\ count' = count + 1
  /\ level' \in Levels
  /\ \E dtx \in {0, 1} : wire' = EncodeHeader(seq, ts, level', dtx) \o <<0>>
  /\ Advance

EncodeFrame == PutOut \/ UNCHANGED counters

-----------------------------------------------------------------------------
(* A call and its locks *)

Step(t, to) == pc' = [pc EXCEPT ![t] = to]

Call(t) ==
  /\ pc[t] = "out" /\ Step(t, "enter")
  /\ \E o \in {"encode", "flush", "discard"} : op' = [op EXCEPT ![t] = o]
  /\ UNCHANGED <<carry, offset, counters, gil, mutex, failed>>

\* encode() lets the GIL go before it asks for the mutex, the others keep it.
Enter(t) ==
  /\ pc[t] = "enter" /\ gil = Nobody
  /\ gil' = IF op[t] = "encode" THEN Nobody ELSE t
  /\ Step(t, "lock")
  /\ UNCHANGED <<carry, offset, counters, mutex, op, failed>>

\* An odd number of bytes is refused at once.
Acquire(t) ==
  /\ pc[t] = "lock" /\ mutex = Nobody
  /\ \/ op[t] = "encode" /\ Step(t, "back") /\ UNCHANGED <<carry, mutex>>
     \/ op[t] = "encode" /\ Step(t, "inside") /\ mutex' = t
        /\ \E n \in Feeds : carry + n <= MaxCarry /\ carry' = carry + n
     \/ op[t] # "encode" /\ Step(t, "inside") /\ mutex' = t /\ UNCHANGED carry
  /\ UNCHANGED <<offset, counters, gil, op, failed>>

\* drain: one frame of the carry after the other.
FrameLeft_strictly == carry - offset > FrameSamples
FrameLeft == carry - offset >= FrameSamples

Cut(t) ==
  /\ pc[t] = "inside" /\ op[t] = "encode" /\ FrameLeft
  /\ offset' = offset + FrameSamples
  /\ EncodeFrame
  /\ UNCHANGED <<carry, locks, pc, failed>>

\* The closure ends, and with it the mutex's guard; the GIL comes after.
Unlock_later == UNCHANGED mutex
Unlock == mutex' = Nobody

\* The samples cut leave the carry at the end only: not if Opus failed.
Drained(t) ==
  /\ pc[t] = "inside" /\ op[t] = "encode"
  /\ \/ ~FrameLeft /\ carry' = carry - offset /\ UNCHANGED failed
     \/ FrameLeft /\ failed' = TRUE /\ UNCHANGED carry
  /\ offset' = 0 /\ Step(t, "back") /\ Unlock
  /\ UNCHANGED <<counters, gil, op>>

Back(t) ==
  /\ pc[t] = "back" /\ gil = Nobody /\ Step(t, "out")
  /\ mutex' = IF mutex = t THEN Nobody ELSE mutex
  /\ UNCHANGED <<carry, offset, counters, gil, op, failed>>

\* flush() pads what is there to a frame, discard() drops it; both give back the
\* mutex and then the GIL.
Finish(t) ==
  /\ pc[t] = "inside" /\ op[t] # "encode"
  /\ carry' = 0
  /\ IF op[t] = "flush" /\ carry > 0 THEN EncodeFrame ELSE UNCHANGED counters
  /\ mutex' = Nobody /\ gil' = Nobody /\ Step(t, "out")
  /\ UNCHANGED <<offset, op, failed>>

-----------------------------------------------------------------------------
Thread(t) == Enter(t) \/ Acquire(t) \/ Cut(t) \/ Drained(t) \/ Back(t) \/ Finish(t)
Next == \E t \in Threads : Call(t) \/ Thread(t)

Spec == Init /\ [][Next]_vars

\* A thread that can go on goes on; nothing is assumed of who wins a lock.
FairSpec == Spec /\ \A t \in Threads : WF_vars(Thread(t))

-----------------------------------------------------------------------------
(* Properties *)

TypeOK ==
  /\ carry \in 0..MaxCarry /\ offset \in 0..carry
  /\ seq \in 0..(Word - 1) /\ ts \in 0..(Long - 1)
  /\ {gil, mutex} \subseteq Threads \cup {Nobody}
  /\ pc \in [Threads -> {"out", "enter", "lock", "inside", "back"}]
  /\ op \in [Threads -> {"encode", "flush", "discard"}]
  /\ wire \in Seq(0..(Base - 1)) /\ level \in Levels /\ count \in 0..MaxFrames
  /\ failed \in BOOLEAN
  /\ \A t \in Threads : pc[t] = "inside" <=> mutex = t

\* Between calls less than a frame is carried, so that flush(), which cuts what it
\* finds to one frame, loses nothing: "the buffered partial frame"
\* (huddle.rs:243).  After Opus failed in an encode() that is not so.
CarryIsPartial == mutex = Nobody /\ ~failed => carry < FrameSamples

\* The frame put out last is read at the other end as what it is: its number and
\* media time modulo the width of their fields, from whichever thread and
\* operation the frames before it came ("+1 per packet", "+960 per 20 ms frame",
\* huddle.rs:12-13); and whatever byte stands for its level, it is not dropped
\* (huddle.rs:104-105).
HeaderInStep ==
  wire # << >> =>
    LET n == count - 1
        Frame(b) == Parse(<<0>> \o [wire EXCEPT ![7] = b])
    IN /\ Frame(wire[7]).level = level
       /\ \A b \in 0..(Base - 1) :
            /\ Frame(b).ok /\ Frame(b).level \in Levels
            /\ Frame(b).seq = n % Word
            /\ Frame(b).ts = (n * FrameSamples) % Long

\* Python is never frozen for good: who holds the GIL, if only to wait for the
\* encoder's mutex, gives it back (huddle.rs:231-262).
GilComesBack == \A t \in Threads : gil = t ~> gil # t
=============================================================================
