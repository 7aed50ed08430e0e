--------------------------- MODULE HuddleOutbound ---------------------------
(***************************************************************************)
(* The outbound audio of HuddleClient (python/buzzkit/huddle.py): the      *)
(* caller's thread encodes PCM and queues wire frames with send_pcm() and  *)
(* flush_pcm(), or drops them with clear_queue(); the sender task on the   *)
(* client's private I/O thread takes frames from the queue and sends them, *)
(* with its own pacing (_send_loop) or as they come (_relay_loop); leave() *)
(* stops it.                                                               *)
(*                                                                         *)
(* The two threads share the deque _out and the encoder.  Each call on     *)
(* either is atomic (the GIL, the encoder's mutex); a thread can be        *)
(* preempted after any call, so each action ends with at most one of them. *)
(* Testing the deque and popping from it with no call in between is one    *)
(* step.  A frame is named after its place in the encoder's order, which   *)
(* is its seq before the u16 wraps.  Opus may fail in the middle of an     *)
(* encode(), which then raises: the frames it has numbered by then are     *)
(* gone, and all the samples stay in the carry, whole frames included.     *)
(***************************************************************************)
EXTENDS Integers, Sequences, FiniteSets, Functions

CONSTANTS
  Modes,           \* what clients there are, see mode
  MaxQueue,        \* _MAX_QUEUE_FRAMES
  MaxFrames,       \* bound: frames encoded in a run
  MaxBurst,        \* bound: whole frames one send_pcm() completes
  MaxBehind,       \* bound: frames the paced sender can fall behind
  MaxSpare,        \* bound, per mode: whole frames that failures of Opus leave in
                   \* the carry; none if Opus does not fail
  None

ASSUME OutboundAssumption ==
  /\ MaxQueue \in Nat /\ MaxFrames \in Nat /\ MaxBurst \in Nat /\ MaxBehind \in Nat
  /\ None \notin Nat

ASSUME ModesAssumption == Modes \subseteq {"relay", "paced", "silence"}
ASSUME SpareAssumption == MaxSpare \in [Modes -> Nat]

Frames == 1..MaxFrames

VARIABLES
  mode,      \* the constructor's choice: "relay" (not paced), "paced" (without
             \* stream_silence), "silence" (paced, with it)
  (* The caller's thread. *)
  call,      \* "idle", "queueing", "clearing", "leaving", "left"
  hand,      \* frames encoded, not yet appended to _out
  dropped,   \* clear_queue()'s local, the number it returns (0 outside the call)
  (* Shared. *)
  out,       \* self._out
  nframe,    \* frames the encoder has numbered
  carry,     \* does the encoder hold a partial frame?
  spare,     \* whole frames before it, left by an encode() that raised
  wakeups,   \* are there _out_ready.set callbacks scheduled on the I/O loop?
  ready,     \* self._out_ready
  (* The sender task. *)
  io,        \* where it is: see IoStates
  held,      \* the frame it has taken, or None
  extra,     \* encoded[1:], not yet appended to _out
  left,      \* frames the recovery from a stall still has to drop
  (* The connection and what became of each frame (history). *)
  sock,      \* "open", "lost", "closed"
  wire,      \* frames sent, in order
  late,      \* frames the sender dropped
  cleared,   \* frames clear_queue() dropped
  lost,      \* frames numbered in an encode() that then raised
  failed,    \* has an encode() raised?
  mark,      \* frames encoded when the last clear_queue() returned
  stale      \* frames among those sent since then

callerVars == <<call, hand, dropped>>
encVars    == <<nframe, carry, spare, lost, failed>>
senderVars == <<io, held, extra, left>>
history    == <<wire, late, cleared, mark, stale>>
vars == <<mode, callerVars, out, encVars, wakeups, ready, senderVars, sock, history>>

\* "asleep", "waiting" and "sending" are its awaits.
IoStates == {"asleep", "waiting", "sending", "dropping", "capping", "trimming",
             "picking", "encoding", "extending", "ended", "crashed"}
Awaits   == {"asleep", "waiting", "sending"}
Over     == {"ended", "crashed"}

Paced         == mode # "relay"
StreamSilence == mode = "silence"

Init ==
  /\ mode \in Modes
  /\ call = "idle" /\ hand = << >> /\ dropped = 0
  /\ out = << >> /\ nframe = 0 /\ carry = FALSE /\ spare = 0
  /\ wakeups = FALSE /\ ready = FALSE
  /\ io = (IF Paced THEN "asleep" ELSE "picking")
  /\ held = None /\ extra = << >> /\ left = 0
  /\ sock = "open"
  /\ wire = << >> /\ late = {} /\ cleared = {} /\ lost = {} /\ failed = FALSE
  /\ mark = 0 /\ stale = 0

-----------------------------------------------------------------------------
(* The encoder.  encode() numbers its frames under the mutex.                *)

Numbered(n) == [i \in 1..n |-> nframe + i]

\* encode() gives n frames, at most those in the carry and the k whole ones that
\* come in: one that Opus encodes to nothing gets no number.
Encode(k, n) ==
  /\ n \in 0..(spare + k)
  /\ nframe' = nframe + n
  /\ spare' = 0
  /\ UNCHANGED <<lost, failed>>

\* Opus fails at one of those frames: the ones before it are not returned, and
\* nothing leaves the carry.
EncodeRaises(k) ==
  /\ spare + k <= MaxSpare[mode]
  /\ \E n \in 0..(MaxFrames - nframe) :
       /\ n < spare + k
       /\ nframe' = nframe + n
       /\ lost' = lost \cup Range(Numbered(n))
  /\ spare' = spare + k
  /\ failed' = TRUE

-----------------------------------------------------------------------------
(* The caller *)

SendPcm ==
  /\ call = "idle"
  /\ \E k \in 0..MaxBurst :
       \/ \E n \in 0..(MaxFrames - nframe) :
            /\ Encode(k, n)
            /\ hand' = Numbered(n)
            /\ call' = "queueing"
       \/ EncodeRaises(k) /\ UNCHANGED <<hand, call>>
  /\ carry' \in BOOLEAN
  /\ UNCHANGED <<mode, dropped, out, wakeups, ready, senderVars, sock, history>>

\* flush() takes the whole carry and emits one frame of it, unless Opus makes
\* nothing of it or fails.
FlushPcm ==
  /\ call = "idle" /\ (carry \/ spare > 0)
  /\ carry' = FALSE /\ spare' = 0
  /\ \/ /\ nframe < MaxFrames
        /\ hand' = Numbered(1) /\ nframe' = nframe + 1
        /\ call' = "queueing"
     \/ UNCHANGED <<hand, nframe, call>>
  /\ UNCHANGED <<mode, dropped, out, lost, failed, wakeups, ready, senderVars, sock, history>>

QueueFrame ==
  /\ call = "queueing" /\ hand # << >>
  /\ out' = Append(out, Head(hand))
  /\ hand' = Tail(hand)
  /\ UNCHANGED <<mode, call, dropped, encVars, wakeups, ready, senderVars, sock, history>>

\* send_pcm() wakes the sender unless the queue is already empty again;
\* flush_pcm() always does, which makes no difference then.
WakeSender_never ==
  /\ call = "queueing" /\ hand = << >>
  /\ call' = "idle"
  /\ UNCHANGED <<mode, hand, dropped, out, encVars, wakeups, ready, senderVars, sock, history>>
WakeSender ==
  /\ call = "queueing" /\ hand = << >>
  /\ wakeups' = (wakeups \/ out # << >>)
  /\ call' = "idle"
  /\ UNCHANGED <<mode, hand, dropped, out, encVars, ready, senderVars, sock, history>>

\* clear_queue(): discard the carry, count, and only then clear.
ClearCount ==
  /\ call = "idle"
  /\ carry' = FALSE /\ spare' = 0
  /\ dropped' = Len(out)
  /\ call' = "clearing"
  /\ UNCHANGED <<mode, hand, out, nframe, lost, failed, wakeups, ready, senderVars, sock, history>>

ClearOut_oldestOnly ==
  /\ call = "clearing"
  /\ out' = IF out = << >> THEN out ELSE Tail(out)
  /\ cleared' = cleared \cup (Range(out) \ Range(out'))
  /\ dropped' = 0
  /\ mark' = nframe /\ stale' = 0
  /\ call' = "idle"
  /\ UNCHANGED <<mode, hand, encVars, wakeups, ready, senderVars, sock, wire, late>>
ClearOut ==
  /\ call = "clearing"
  /\ out' = << >>
  /\ cleared' = cleared \cup Range(out)
  /\ dropped' = 0
  /\ mark' = nframe /\ stale' = 0
  /\ call' = "idle"
  /\ UNCHANGED <<mode, hand, encVars, wakeups, ready, senderVars, sock, wire, late>>

-----------------------------------------------------------------------------
(* The sender task *)

\* The pacer wakes and finds itself some frames behind its schedule; it drops
\* as many as it counts in the queue.
Tick ==
  /\ io = "asleep"
  /\ \E behind \in 0..MaxBehind :
       left' = IF behind < Len(out) THEN behind ELSE Len(out)
  /\ io' = "dropping"
  /\ UNCHANGED <<mode, callerVars, out, encVars, wakeups, ready, held, extra, sock, history>>

\* deque.popleft: an IndexError on an empty deque ends the task.
Crash ==
  /\ io' = "crashed"
  /\ UNCHANGED <<out, late, left>>

PopLate ==
  /\ out' = Tail(out)
  /\ late' = late \cup {Head(out)}

DropLate_oneMore ==
  /\ io = "dropping"
  /\ \/ left < 0 /\ io' = "capping" /\ UNCHANGED <<out, late, left>>
     \/ left >= 0 /\ out = << >> /\ Crash
     \/ left >= 0 /\ out # << >> /\ PopLate /\ left' = left - 1 /\ UNCHANGED io
  /\ UNCHANGED <<mode, callerVars, encVars, wakeups, ready, held, extra, sock, wire, cleared, mark, stale>>
DropLate ==
  /\ io = "dropping"
  /\ \/ left = 0 /\ io' = "capping" /\ UNCHANGED <<out, late, left>>
     \/ left > 0 /\ out = << >> /\ Crash
     \/ left > 0 /\ out # << >> /\ PopLate /\ left' = left - 1 /\ UNCHANGED io
  /\ UNCHANGED <<mode, callerVars, encVars, wakeups, ready, held, extra, sock, wire, cleared, mark, stale>>

\* "while len(self._out) > _MAX_QUEUE_FRAMES: self._out.popleft()"
CapQueue ==
  /\ io = "capping"
  /\ io' = IF Len(out) > MaxQueue THEN "trimming" ELSE "picking"
  /\ UNCHANGED <<mode, callerVars, out, encVars, wakeups, ready, held, extra, left, sock, history>>

TrimQueue ==
  /\ io = "trimming"
  /\ \/ out = << >> /\ Crash
     \/ out # << >> /\ PopLate /\ io' = "capping" /\ UNCHANGED left
  /\ UNCHANGED <<mode, callerVars, encVars, wakeups, ready, held, extra, sock, wire, cleared, mark, stale>>

\* Take the oldest frame; with an empty queue encode silence, or clear the
\* event and wait for it.
TakeFrame_newest ==
  /\ held' = out[Len(out)]
  /\ out' = SubSeq(out, 1, Len(out) - 1)
TakeFrame ==
  /\ held' = Head(out)
  /\ out' = Tail(out)

Pick ==
  /\ io = "picking"
  /\ \/ out # << >> /\ TakeFrame /\ io' = "sending" /\ UNCHANGED ready
     \/ out = << >> /\ StreamSilence /\ io' = "encoding" /\ UNCHANGED <<out, held, ready>>
     \/ out = << >> /\ ~StreamSilence /\ io' = "waiting" /\ ready' = FALSE
        /\ UNCHANGED <<out, held>>
  /\ UNCHANGED <<mode, callerVars, encVars, wakeups, extra, left, sock, history>>

\* The loop's next round, after a send or a wait.
NextRound == IF Paced THEN "asleep" ELSE "picking"

\* Frames of silence_pcm.
Silence_twice == 2
Silence == 1

\* Silence through the same encoder.  The carry is shorter than a frame, and one
\* frame comes out at most, unless Opus has failed before.  A ValueError ends the
\* task.
EncodeSilence ==
  /\ io = "encoding"
  /\ \/ \E n \in 0..(MaxFrames - nframe) :
          /\ Encode(Silence, n)
          /\ \/ n = 0 /\ io' = NextRound /\ UNCHANGED <<held, extra>>
             \/ n > 0 /\ held' = nframe + 1 /\ extra' = Tail(Numbered(n))
                /\ io' = IF n = 1 THEN "sending" ELSE "extending"
     \/ EncodeRaises(Silence) /\ io' = "crashed" /\ UNCHANGED <<held, extra>>
  /\ UNCHANGED <<mode, callerVars, out, carry, wakeups, ready, left, sock, history>>

\* "self._out.extend(encoded[1:])", which adds nothing in the other cases.
Extend_all ==
  /\ io = "extending"
  /\ out' = out \o (<<held>> \o extra) /\ extra' = << >>
  /\ io' = "sending"
  /\ UNCHANGED <<mode, callerVars, encVars, wakeups, ready, held, left, sock, history>>
Extend ==
  /\ io = "extending"
  /\ out' = out \o extra /\ extra' = << >>
  /\ io' = "sending"
  /\ UNCHANGED <<mode, callerVars, encVars, wakeups, ready, held, left, sock, history>>

Send ==
  /\ io = "sending" /\ sock = "open"
  /\ wire' = Append(wire, held)
  /\ stale' = IF held <= mark THEN stale + 1 ELSE stale
  /\ held' = None
  /\ io' = NextRound
  /\ UNCHANGED <<mode, callerVars, out, encVars, wakeups, ready, extra, left, sock, late, cleared, mark>>

\* ws.send raises ConnectionClosed: the loop ends, with the frame it held.
SendFails ==
  /\ io = "sending" /\ sock # "open"
  /\ io' = "ended"
  /\ UNCHANGED <<mode, callerVars, out, encVars, wakeups, ready, held, extra, left, sock, history>>

\* _out_ready.wait() returns; the paced loop waits one frame time at most.
WaitOver ==
  /\ io = "waiting" /\ (ready \/ Paced)
  /\ io' = NextRound
  /\ UNCHANGED <<mode, callerVars, out, encVars, wakeups, ready, held, extra, left, sock, history>>

\* The I/O loop runs the scheduled _out_ready.set while the task awaits.
RunWakeup ==
  /\ wakeups /\ io \in Awaits \cup Over
  /\ wakeups' = FALSE /\ ready' = TRUE
  /\ UNCHANGED <<mode, callerVars, out, encVars, senderVars, sock, history>>

Sender ==
  \/ Tick \/ DropLate \/ CapQueue \/ TrimQueue \/ Pick \/ EncodeSilence
  \/ Extend \/ Send \/ SendFails \/ WaitOver

-----------------------------------------------------------------------------
(* The connection, and leave() or close(): cancel the task at its await,     *)
(* await it, close the socket.                                               *)

LoseConnection ==
  /\ sock = "open"
  /\ sock' = "lost"
  /\ UNCHANGED <<mode, callerVars, out, encVars, wakeups, ready, senderVars, history>>

LeaveBegin ==
  /\ call = "idle"
  /\ call' = "leaving"
  /\ UNCHANGED <<mode, hand, dropped, out, encVars, wakeups, ready, senderVars, sock, history>>

CancelSender_onlyAsleep ==
  /\ call = "leaving" /\ io = "asleep"
  /\ io' = "ended"
  /\ UNCHANGED <<mode, callerVars, out, encVars, wakeups, ready, held, extra, left, sock, history>>
CancelSender ==
  /\ call = "leaving" /\ io \in Awaits
  /\ io' = "ended"
  /\ UNCHANGED <<mode, callerVars, out, encVars, wakeups, ready, held, extra, left, sock, history>>

\* "await task" raises what the task raised: then the socket stays as it is.
LeaveDone ==
  /\ call = "leaving" /\ io \in Over
  /\ sock' = IF io = "crashed" THEN sock ELSE "closed"
  /\ call' = "left"
  /\ UNCHANGED <<mode, hand, dropped, out, encVars, wakeups, ready, senderVars, history>>

-----------------------------------------------------------------------------
Caller == SendPcm \/ FlushPcm \/ QueueFrame \/ WakeSender \/ ClearCount \/ ClearOut

Next ==
  \/ Caller \/ Sender \/ RunWakeup
  \/ LoseConnection \/ LeaveBegin \/ CancelSender \/ LeaveDone

\* Both threads run.  The I/O loop runs what is scheduled on it in the order it
\* was scheduled, so a callback or a teardown runs although the sender keeps
\* waking: strong fairness.  A call goes on, but nothing makes the caller call.
Fairness ==
  /\ WF_vars(QueueFrame \/ WakeSender \/ ClearOut \/ LeaveDone)
  /\ WF_vars(Sender)
  /\ SF_vars(RunWakeup) /\ SF_vars(CancelSender)

Spec == Init /\ [][Next]_vars
FairSpec == Spec /\ Fairness

-----------------------------------------------------------------------------
(* Properties *)

TypeOK ==
  /\ mode \in Modes
  /\ call \in {"idle", "queueing", "clearing", "leaving", "left"}
  /\ hand \in Seq(Frames) /\ dropped \in Nat
  /\ out \in Seq(Frames) /\ nframe \in 0..MaxFrames
  /\ carry \in BOOLEAN /\ spare \in 0..MaxSpare[mode] /\ failed \in BOOLEAN
  /\ wakeups \in BOOLEAN /\ ready \in BOOLEAN
  /\ io \in IoStates /\ held \in Frames \cup {None} /\ extra \in Seq(Frames)
  /\ left \in 0..MaxBehind
  /\ sock \in {"open", "lost", "closed"}
  /\ wire \in Seq(Frames) /\ late \subseteq Frames /\ cleared \subseteq Frames
  /\ lost \subseteq Frames
  /\ mark \in 0..MaxFrames /\ stale \in Nat

\* Every frame the encoder numbered is in one place: about to be queued (by the
\* caller or by the sender), queued, held by the sender, sent, dropped as late,
\* dropped by clear_queue(), or gone with the encode() that raised after it.  Once
\* an encode() has returned it, none is lost between the threads and none is sent
\* twice (huddle.py:333-355, 375-380, 422-455; huddle.rs:203-209).
Places ==
  <<Range(hand), Range(extra), Range(out), {held} \ {None}, Range(wire), late, cleared, lost>>
Conserved ==
  /\ UNION Range(Places) = 1..nframe
  /\ \A i, j \in 1..Len(Places) : i # j => Places[i] \cap Places[j] = {}
  /\ Cardinality(Range(wire)) = Len(wire) /\ Cardinality(Range(out)) = Len(out)

\* Frames go out in the order in which they were numbered ("forwards frames in
\* order", huddle.py:367; "seq wrapping, +1 per packet", huddle.rs:12).
\* With silence the I/O thread numbers frames too, between the caller's encode and
\* its append, and they do not.
InOrder == \A i, j \in 1..Len(wire) : i < j => wire[i] < wire[j]
WireInOrder == ~StreamSilence => InOrder

\* Opus has failed before and the sender makes silence: then what it encodes may
\* be more than a frame, and the rest is appended to _out whatever the caller's
\* thread has done in the meantime (huddle.py:444).
SilenceOverflows == StreamSilence /\ failed

\* After clear_queue() returned, at most the frame the sender already held is
\* still sent of all that was encoded before ("Drop all queued outbound audio
\* (barge-in)", huddle.py:351), while silence makes a frame at most.
BargeInCuts == SilenceOverflows \/ stale <= 1

\* clear_queue() never drops more than it reports ("Returns frames dropped",
\* huddle.py:351): between the count and the clear, nothing is added, while
\* silence makes a frame at most.
ClearCountCovers ==
  [][ClearOut /\ ~SilenceOverflows => Cardinality(cleared' \ cleared) <= dropped]_vars

\* Nothing but the end of the connection or leave() ends the sender ("Emit
\* exactly one wire frame per 20 ms of wall clock", huddle.py:385).
SenderSurvives == io # "crashed"

\* Queued frames do not stay queued while the sender runs: no wake-up is lost
\* between "the queue is empty" and the wait (huddle.py:345-348, 375-379).  The
\* caller has finitely many frames to queue (MaxFrames), so all of them leave.
QueueDrains == out # << >> ~> (out = << >> \/ io \in Over)

\* leave() ends, and no sender runs after it.
LeaveEnds == call = "leaving" ~> (call = "left" /\ io \in Over)
=============================================================================
