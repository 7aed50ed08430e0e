------------------------------ MODULE HuddlePacer ------------------------------
(***************************************************************************)
(* The clock of HuddleClient._send_loop (python/buzzkit/huddle.py): when a  *)
(* frame goes out, and which frames are given up after a stall.             *)
(*                                                                         *)
(* Time is an integer; a frame lasts Frame units.  It passes while the loop *)
(* sleeps, while it waits for audio and while it sends, and each of these   *)
(* may take longer than asked for, by up to MaxStall.  HuddleOutbound has   *)
(* the same loop without a clock, against the caller's thread.              *)
(***************************************************************************)
EXTENDS Integers, Sequences

CONSTANTS
  Frame,     \* _FRAME_SECONDS
  MaxQueue,  \* _MAX_QUEUE_FRAMES
  MaxStall,  \* bound: how much longer than asked for a wait takes
  MaxTime    \* bound: the time at which the run ends

ASSUME PacerAssumption ==
  /\ Frame \in Nat \ {0} /\ MaxQueue \in Nat
  /\ MaxStall \in Nat /\ MaxTime \in Nat

VARIABLES
  now,      \* loop.time()
  nextAt,   \* next_at
  queued,   \* len(_out)
  silence,  \* stream_silence
  pc,       \* "tick"; "pick" when the clock was read and a frame is due; "late"
            \* if the thread was held up since
  sends     \* history: for each frame sent, when its send began, for which
            \* value of next_at, and whether it was not held up

vars == <<now, nextAt, queued, silence, pc, sends>>

Init ==
  /\ now = 0 /\ nextAt = 0
  /\ queued = 0 /\ silence \in BOOLEAN
  /\ pc = "tick" /\ sends = << >>

Least(a, b)  == IF a < b THEN a ELSE b
Latest(a, b) == IF a < b THEN b ELSE a

-----------------------------------------------------------------------------
(* One turn of the loop *)

\* int((loop.time() - next_at) / _FRAME_SECONDS), which is not negative here.
Behind_rounded(t) == (t - nextAt + Frame - 1) \div Frame
Behind(t) == (t - nextAt) \div Frame

\* After a stall the frames whose time has passed are dropped, and next_at skips
\* their slots but stays on its grid.
Realign_not(t) == UNCHANGED nextAt
Realign(t) == nextAt' = nextAt + Behind(t) * Frame

\* Sleep until next_at if it is not past, then catch up and enforce the cap.
Tick ==
  /\ pc = "tick"
  /\ \E late \in 0..MaxStall :
       LET t == Latest(now, nextAt) + late IN
         /\ t <= MaxTime
         /\ now' = t /\ Realign(t)
         /\ queued' = Least(MaxQueue, queued - Least(Behind(t), queued))
  /\ pc' = "pick"
  /\ UNCHANGED <<silence, sends>>

\* The send itself may take its time.
SendFrame(left) ==
  /\ sends' = Append(sends, [at |-> now, slot |-> nextAt, prompt |-> pc = "pick"])
  /\ queued' = left
  /\ \E d \in 0..MaxStall : now' = now + d
  /\ now' <= MaxTime
  /\ nextAt' = nextAt + Frame

PickQueued == queued > 0 /\ SendFrame(queued - 1)

\* A frame of silence; samples left in the encoder may make it two.
PickSilence == queued = 0 /\ silence /\ \E more \in {0, 1} : SendFrame(more)

\* The encoder may also give none: the slot passes without a frame.
PickNothing ==
  /\ queued = 0 /\ silence
  /\ nextAt' = nextAt + Frame
  /\ UNCHANGED <<now, queued, sends>>

\* Without silence: wait for audio, but a frame's time at most, and restart the
\* clock there.
Idle ==
  /\ queued = 0 /\ ~silence
  /\ \E d \in 0..(Frame + MaxStall) : now' = now + d
  /\ now' <= MaxTime
  /\ nextAt' = now'
  /\ UNCHANGED <<queued, sends>>

Turn ==
  /\ pc \in {"pick", "late"} /\ pc' = "tick"
  /\ PickQueued \/ PickSilence \/ PickNothing \/ Idle
  /\ UNCHANGED silence

-----------------------------------------------------------------------------
\* The caller's thread; a frame above the cap shows that the cap is enforced.
QueueFrame ==
  /\ queued <= MaxQueue /\ queued' = queued + 1
  /\ UNCHANGED <<now, nextAt, silence, pc, sends>>

\* Another thread holds the GIL between two statements of a turn.
Stall ==
  /\ pc = "pick" /\ pc' = "late"
  /\ \E d \in 1..MaxStall : now' = now + d
  /\ now' <= MaxTime
  /\ UNCHANGED <<nextAt, queued, silence, sends>>

Next == Tick \/ Turn \/ QueueFrame \/ Stall
Spec == Init /\ [][Next]_vars

-----------------------------------------------------------------------------
(* Properties *)

\* Of any three frames in a row the first and the last leave more than a frame's
\* time apart, whatever the stalls, unless the first was itself held up after the
\* clock was read: "never a burst" (huddle.py:385), "we do NOT flush the backlog
\* fast to catch up" (huddle.py:409-410).  Two may leave closer together, a late
\* one and the next one on time.
NoBurst ==
  \A i \in 1..(Len(sends) - 2) :
    sends[i].prompt => sends[i + 2].at - sends[i].at > Frame

\* No frame leaves before its time, and each has a time of its own, a frame after
\* the last: "the average rate is exactly real time" at most (huddle.py:408-409).
OnSchedule ==
  \A i \in 1..Len(sends) :
    /\ sends[i].slot <= sends[i].at
    /\ i > 1 => sends[i].slot >= sends[i - 1].slot + Frame
=============================================================================
