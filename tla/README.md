# Formal models of buzzkit

buzzkit is a Python client for the Buzz chat relay: an authenticated WebSocket
session with subscriptions (`python/buzzkit/client.py`), a voice-huddle client
with its own I/O thread (`python/buzzkit/huddle.py`), an Opus codec with the
huddle wire header (`src/huddle.rs`), event builders bound from Rust
(`src/lib.rs`), and agent-ownership checks (`python/buzzkit/agents.py`).

This directory holds TLA+ models of the parts that have behaviour over time,
TLC runs over small instances of them, and TLAPS proofs for all instances.
Everything is written from the code; names follow the source.

## Inventory

| Part | State | Operations | Interacts with |
|---|---|---|---|
| Session (`client.py` 92-98, 413-555) | `_ws`, `_reader`, `_auth_result`, `_auth_event_id`, `close_code`, `_subs`, `_pending_ok`, the reader task | `connect`, `_read_loop` and its handlers, `publish`, `subscribe`, `close` | relay over a WebSocket; callers over futures and queues |
| Huddle outbound (`huddle.py` 320-468) | `_out` (deque), `_out_ready`, encoder carry and counters, the sender task | `send_pcm`, `flush_pcm`, `clear_queue` on the caller's thread; `_send_loop`/`_relay_loop` on the I/O thread | encoder shared by both threads; `call_soon_threadsafe` wakes the sender |
| Huddle inbound (`huddle.py` 472-525) | `_backlog`, `_subscribers` under `_sub_lock`, the pump task, one queue per iterator | `_recv_loop`, `_publish`, `events` | the callers' event loops by `call_soon_threadsafe` |
| Huddle roster (`huddle.py` 527-604, `huddle.rs` 274-352) | `peers`, decoder per index | `_on_control`, `_on_audio`, `remove_peer` | called by the pump |
| Huddle lifecycle (`huddle.py` 183-316) | `_io_loop`, `_io_thread`, `_ws`, the tasks | `connect`, handshake, `leave`, `close` | starts and stops the three parts above |
| Codec (`huddle.rs` 52-262) | carry, seq (u16), ts (u32), two mutexes | `encode`, `flush`, `discard`, header encode/parse | called by the outbound part |
| Agent ownership (`agents.py`, `client.py` 288-371) | none | `verify_agent_profile`, `resolve_agent`, `parse_owner_command` | queries through the HTTP bridge |
| Multi-step operations (`client.py` 213-251, 373-402) | what the relay has after each request | `start_huddle`, `claim_invite` | HTTP bridge |
| HTTP bridge, builders, signing, examples, build files | none | one request, one response; pure functions | |

What is hard here, and what the properties are for:

* *Session.* The relay may answer late, twice, never or for another connection,
  and the connection may end between any two awaits. Correct means: each
  outcome belongs to the connection and event that produced it; every waiter is
  woken; nothing is left open.
* *Outbound.* Two threads share a deque and an encoder with no lock around the
  pair. Correct means: frames are neither lost, doubled nor stranded, they
  leave in the order of their numbers, and barge-in really cuts.
* *Inbound.* One thread posts to many loops from a snapshot taken under a lock.
  Correct means: from where it joins, each reader gets every item once and in
  order, and stops when, and only when, its huddle is over.
* *Roster.* The relay recycles indexes and may fail to announce a change.
  Correct means: what was announced, or repaired by a roster, is known; the
  events tell the same story; a decoder is fed one peer's stream.
* *Lifecycle.* A call waits on one loop for a coroutine on another, and either
  may fail, be cancelled or lose its loop. Correct means: one session at a time,
  nothing left when the I/O thread is gone, every call returns.
* *Codec and pacing.* Counters wrap, a carry is cut and padded, two threads
  share two locks, and a clock must neither burst nor drift.
* *Requests in a row.* The world changes between two requests, and a request may
  fail although the relay did what it asked.

`PROJECT.json` lists the hazards line by line with the properties that cover
each, and says for every one that is not covered why.

## Modules

| Module | Models | Kind |
|---|---|---|
| `BuzzSession` | the session | detailed model |
| `MCBuzzSession` | instances of it | for TLC |
| `BuzzSessionProofs` | theorems about it | TLAPS |
| `HuddleOutbound` | caller's thread, sender task, queue, encoder order | detailed model |
| `MCHuddleOutbound` | instances of it | for TLC |
| `HuddleOutboundProofs` | theorems about it | TLAPS |
| `EventStream` | what `events()` promises its readers | abstract specification |
| `HuddleEvents` | pump, lock sections, posts, iterators, reconnects | detailed model, refines `EventStream` |
| `MCHuddleEvents` | instances of it | for TLC |
| `HuddleEventsProofs` | theorems about it, and the refinement step by step | TLAPS |
| `HuddleRoster` | the room, `peers`, decoders, the program's view | detailed model |
| `HuddleRosterProofs` | theorems about it | TLAPS |
| `HuddleLifecycle` | calls, coroutines, I/O thread, socket, tasks | detailed model |
| `HuddleLifecycleProofs` | theorems about it | TLAPS |
| `HuddlePacer` | the clock of the paced sender | detailed model |
| `HuddlePacerProofs` | theorems about it | TLAPS |
| `HuddleCodec` | encoder, wire header, mutex and GIL | detailed model |
| `HuddleCodecProofs` | theorems about it | TLAPS |
| `BridgeOperations` | `resolve_agent`, `start_huddle`, `claim_invite` | detailed model |
| `MCBridgeOperations` | tags and profiles of two agents | for TLC |
| `BridgeOperationsProofs` | theorems about it | TLAPS |

### BuzzSession

Everything runs on one asyncio loop, so an action is the code between two
awaits that really suspend. `Queue.put` on an unbounded queue and `ws.send` of
a small frame on an open socket do not suspend and belong to the action around
them.

State: `pc` says where the caller is inside `connect()` or `close()`; `ws`,
`reader`, `auth`, `authId`, `closeCode`, `subs`, `pending` are the attributes of
the same names in the code; `rd[c]` is the reader task of connection `c`,
`iter`/`queue`/`pub` the `subscribe()` and `publish()` calls in progress. The
relay (`toAuth`, `toOk`, `reqs`, `inbox`) is external: it answers any request it
has seen on a connection in any order, several times and differently, or not at
all, challenges again in mid-session as NIP-42 allows, may send a frame that is
no list or too short, and may lose the connection with any close code or none.
`verdict` is a history of what it decided.

`connect()` is `ConnectBegin`, `ConnectOpened` or `ConnectRefused`, then
`ConnectDone` or `AuthTimeout` (also: the task is cancelled) or the failure
branch of `CloseBegin`. `close()` is `CloseBegin`, `CloseSocket` (after the
reader was awaited), `CloseDone`, or `CloseRaises` when the reader had died of
an exception. `_read_loop` is `OnSubscriptionFrame`, `OnAuthChallenge`, `OnOk`,
and its exits `ReadLost`, `ReadCancelled`, `OnMalformed` and that of an
`OnAuthChallenge` whose event cannot be built; each exit runs the whole finally
clause (`ReaderExit`).

Four constants are assumptions about what is around the client.
`FramesWellFormed = TRUE` says that the relay's frames are lists with all their
elements; with `FALSE`, one that is not ends the reader with an exception
(`client.py:449-465`). `AuthTagParses = TRUE` says that the auth_tag can be
parsed; with `FALSE`, building the AUTH event may raise. `SessionLive` runs with
both `FALSE`. `EagerReconnect = FALSE` says that a caller
reconnects only after the old reader has ended. `CallsDuringClose = FALSE` says
that no other task calls while `connect()` or `close()` runs. The last two are
needed: with `EagerReconnect = TRUE` TLC finds the old reader failing the new
handshake (the finally clause settles whatever `_auth_result` now is,
`client.py:473`), and with `CallsDuringClose = TRUE` an iterator registered
between the reader's end and the socket's that nobody wakes (`client.py:550`).

### HuddleOutbound

The caller's thread and the I/O thread interleave between any two calls on the
deque or the encoder; each such call is atomic under the GIL or the encoder's
mutex, and CPython lets another thread in after a call, not between the test and
the call in `if self._out: ... popleft()`, so these two are one step.

A frame is its place in the encoder's order. `mode` is the constructor's
choice: `"relay"` (`paced=False`), `"paced"` (without silence) or `"silence"`.
The sender's loop body is cut at its awaits and at each deque call: `Tick`,
`DropLate`, `CapQueue`, `TrimQueue`, `Pick`, `EncodeSilence`, `Extend`, `Send`,
`SendFails`, `WaitOver`. Time is abstracted to the number of frames the sender
finds itself behind.

Opus may fail in the middle of an `encode()`, as `drain()` has it
(`huddle.rs:198-212`): the call raises, the frames it had numbered by then are gone (`lost`), and all its samples stay in the carry, which then holds
whole frames as well (`spare`). The caller sees the exception; in the sender it
ends the task. Without a failure the carry is less than a frame, and 20 ms of
silence bring out one frame at most; after one they may bring out more, and the
sender appends those behind the first to the queue, whatever the caller's thread
is doing (`huddle.py:439-444`). `SilenceOverflows` names that condition, a
sender that streams silence and an Opus that has failed, and `BargeInCuts` and
`ClearCountCovers` are stated outside of it: within it, a frame appended between
the count and the clear of `clear_queue()` is dropped and not counted, and one
appended after the clear is sent although it is older. `Conserved` and
`WireInOrder` hold through failures. `MaxSpare` bounds, for each mode, the whole
frames that failures leave; TLC runs the paced mode without silence with none,
the proofs with any number.

### EventStream and HuddleEvents

`EventStream` is one sequence of items, some of which mark an end, and readers
with a position each. `HuddleEvents` is the code: the pump with its finally
clause, `_publish` as the section under the lock (`PublishItem`) followed by one
post per reader (`Post`, `PostRaises`), the callers' loops (`PutItem`), the
generators (`Subscribe`, `Take`, `Quit`, `Unsubscribe`), and `connect()` and
`leave()` as far as the pump sees them. What a frame decodes to is left out: a
frame gives no item, one or several, or raises (`Overflow`): `_on_control`
checks that a peer_index is an int, and `remove_peer` wants a byte
(`huddle.py:557-562`, `577-579`).

The refinement maps the iterators' states to the readers' and the history `log`
to the sequence of ends; a reader's position is the history variable `pos`.
`DeliversStream` includes the abstract fairness: what is published reaches every
reader that stays.

`EarlyEvents`, `LateEvents` and `LoopsClose` say what callers may do: call
`events()` for the first time while `connect()` runs, after the end was
published, and close the loop of a finished iterator. Each of them, set to
`TRUE`, makes TLC find a hung or wrongly ended iterator: with `EarlyEvents` and
a handshake that fails nothing ever ends the iterator (`huddle.py:196`); with
`LoopsClose`, `call_soon_threadsafe` raises on the closed loop, the pump dies,
and the other readers are ended or skipped although the huddle goes on
(`huddle.py:525`). `EventsLive` runs with `LoopsClose = TRUE`, states
`IteratorsStop` for loops that stay open, and keeps `InOrder` and `LeaveEnds`
without that condition. `Gapless` and `EndsTruthful`, in `Events`, are about
open loops too. `WideIndexes = FALSE`, an assumption about the relay, says that
every peer_index fits a byte; `EventsLive` runs without it.

### HuddleRoster

The relay's `room` says who holds which index; `PeerJoins` and `PeerLeaves`
change it and either announce it, in which case `OnJoined` or `OnLeft` handles
the message, or do not (another pod). `Resync` is a "roster" message with the
whole room, handled by `OnRoster`, which compares only which indexes have an
entry, as the code does. `Connect` takes the room from the "joined" answer and,
like the code, leaves the decoders as they are. `view` is a program that keeps
its own list by the events.

`Wide` is the set of indexes that do not fit a byte. A "left" that names one, or
a roster that drops one, raises half-way (`Raise`): the entry is gone or the new
peers are not taken over, no event is made, some decoders are forgotten, and the
pump has ended (`died`). `KnowsRoom` and `EventsTellAll` speak of the time while
it reads (`Reads`); the run has such an index.

Two constants are assumptions about the relay. `ReuseUnseen = FALSE`: an index
whose peer left unannounced is given to nobody else until a roster. With `TRUE`,
TLC finds a roster that gives an index to another pubkey: no event is made for
either, and the old decoder goes on (`huddle.py:567-576`). `AudioUnseen =
FALSE`: no audio of peers not announced. With `TRUE`, their decoder is created
by the audio and no roster forgets it (`huddle.py:577-579`). Across a reconnect
decoders are inherited in any case, so `OnePeerPerDecoder` is about one
connection.

### HuddleLifecycle

`call[t]` is where a task of the program is in `connect()`, `leave()` or
`close()`; `impl[t]` is where its coroutine is on the I/O loop, and `"lost"`
when that loop was stopped under it. A socket has a number, and so have the
sender and pump made for it; `ws` and `tasks` are the attributes, `held[t]` what
the coroutine has in a local. `Joined`, `Closed`, `Forget` and so on are the
pieces of `_connect_impl` and `_teardown_impl` between their awaits.
`websockets.connect` (`huddle.py:201`) is `Dialed`, which has a connection open
that only its coroutine knows of, and then `Opened` or `OpenFails`. `Return` is
the rest of the public method, with `StopThread` where it calls
`_stop_io_thread()`.

Four constants are assumptions about the program. `Overlap = FALSE`: a call
begins when the others have ended. With `TRUE`, `leave()` stops the I/O loop
under a `connect()` or another `leave()`, which then waits for ever
(`huddle.py:290-301`). `Again = FALSE`: no `connect()` while the I/O loop
exists; with `TRUE` it replaces socket and tasks while the old ones run on.
`CancelAt`: where `_connect_impl` may be when `connect()` is cancelled; in the
passing run while the address is still looked up (`"resolving"`) or after the
coroutine has failed (`"raised"`). In between a socket is open, and the I/O loop
is stopped before the coroutine could close it: with `"opening"`, `"challenge"`
or `"joined"` TLC finds it left open.
`Crashes = TRUE`: tasks may die of an exception. After that every `leave()`
raises before it closes the socket and leaves the I/O thread running
(`huddle.py:307-316`), which `CrashedLeave.cfg` shows; `NothingLeft` speaks of
the time when that thread is gone.

### HuddlePacer

`_send_loop` once more, with a clock and without the caller's race: `Tick` is
the sleep, the catching up and the cap; `Turn` picks a frame, silence, nothing
or the wait for audio; `Stall` lets another thread hold the GIL in the middle of
a turn. Every wait may take up to `MaxStall` longer than asked for.

The docstring says that after a stall "the clock resyncs to *now + one frame*"
and "the next iteration actually sleeps" (`huddle.py:388-391`). The code keeps
its grid: the frame after a late one may follow after less than a frame's time.
`NoBurst` states what is true: never three within a frame.

### HuddleCodec

Two threads call `encode()`, `flush()` and `discard()`; the actions follow a
call through its locks (`Enter`, `Acquire`, `Back`, `Finish`) and through
`drain` (`Cut`, `Drained`). `EncodeHeader` and `Parse` are the two ends of the
wire. A byte has `Base` values, so that `seq` (two bytes) and `ts_48k` (four)
wrap within a run of 17 frames; nothing else depends on 256.

### BridgeOperations

A run makes calls of one of the three operations, and the model has each request
with its refusal, its failure and its lost answer. `resolve_agent` is `Resolve`,
`Records`, `ProfilesCome`, with `AgentsChange` in between; `was` is a history of
who was recorded and attested during the call, and of whether the answers were
whole: `query()` makes an empty list of an answer that is no list
(`client.py:278`, `NotAList`), and the relay gives no more than the limit.
`VerifyAgentProfile` is the
code's sequence of verdicts, `Owned` the documented meaning, against which it is
checked. `start_huddle` is `StartHuddle` and `Answered`, and the relay may
handle what was sent after the call gave up. `claim_invite` is `ClaimInvite`,
`PolicyShown` (whose status the code does not check, `client.py:380`),
`PolicyAccepted` and `InviteClaimed`. Whom the relay admits is left open.

## Runs

`CHECK_DEADLOCK FALSE` everywhere: a caller that has made its calls and closed,
or a run that has reached its bounds, really stops.

| Run | Question | Bounds | Distinct states |
|---|---|---|---|
| `Session` | do outcomes belong to their own connection, is a verdict on one event ever given to another, is nothing left behind? | 2 connections, 5 frames, one `subscribe()` or two `publish()` calls of 2 events that may outlive the first connection, OKs repeated and contradicted, one ordinary and one quiet close code | 5.5 M |
| `SessionLive` | does every waiter wake, fail or return? | 1 connection, 4 frames, one one-shot subscription, auth_tag may not parse, frames may be malformed | 25 k |
| `Outbound` | are frames conserved, ordered, cut and drained in all three modes, also when Opus fails? | 3 frames, bursts of up to 2, cap 1, up to 2 frames behind, failures that leave up to 2 whole frames in the carry (unpaced) or 1 (with silence) | 398 k |
| `Events` | does the pump implement `EventStream`, and is nobody ended by a live connection? | 2 connections, 2 iterators, 2 events, backlog of 2, bursts of 2 | 352 k |
| `EventsLive` | do iterators stop when they must, is the order kept when the pump dies? | 1 connection, 2 iterators, 3 events, loops may close, indexes may be wide | 347 k |
| `Roster` | do peers, events and decoders agree with the room? | 3 indexes, one of them wide, 2 other peers, 2 connections, 3 unannounced changes | 191 k |
| `Lifecycle` | is nothing left, and does every call return? | 2 tasks, 3 sockets | 26 k |
| `Pacer` | is there never a burst, nor a frame too many? | a frame is 3 units, stalls of up to 4, 12 units, cap 1 | 513 k |
| `Codec` | are carry, counters, header and locks in step? | 2 threads, feeds of half and one and a half frames, 17 frames, bytes of 4 values | 95 k |
| `Bridge` | is so what the operations report? | 2 agents, 7 shapes of profile, limit 2, 2 policy versions, 2 calls, answers that are no list | 667 k |

Why these are enough. Two connections are what it takes for something to leak
from one to the next, and five frames let the relay challenge, accept, challenge
again, answer and stream. Five are also the handshake and three OKs, so one
event's can be repeated, contradicted and followed by the other's, or two
handshakes and an OK read while a `publish()` of the first connection still
waits. A run of `Session` subscribes or publishes, never both (the constraint
`OneKindOfCall`): the two kinds of call share no state but the connection. The
proofs make no such restriction. With three frames, a cap of one and a lag of two,
the sender trims, drops late frames, holds one and still has one queued. Two
iterators are needed for one to leave or close its loop while the pump is
posting to the other; two events overflow the backlog once the end marker of a
connection follows them.

Three indexes let two peers swap places while the client holds the third, and
one unannounced change can hide another. The wide one may be a peer's, that of
the client, or dropped by a roster together with a narrow one. Three sockets are
two reconnects, so that what a failed or cancelled session leaves meets two
later ones. Stalls longer than a frame and a run of four frames show a late
frame, its drop and the frames around it. With the limit at two, two agents fit
and a third record does not.

Runs that show a disagreement of the code with its own documentation:

| Run | What TLC finds |
|---|---|
| `ClearRacesStall` | `clear_queue()` during the recovery from a stall kills the sender |
| `CancelledConnect` | a `connect()` cancelled in the handshake leaves the socket open, and `close()` does nothing about it |

Five more disagreements are kept as configurations with a run of their own, apart
from those above (`tlc -config <name>.cfg <module>`):

| Configuration | Module, property | What TLC finds |
|---|---|---|
| `CrashedLeave` | `HuddleLifecycle`, `LeaveCloses` | after a task has crashed, `leave()` raises and leaves the socket open, contrary to "then close the socket" (`huddle.py:288`) |
| `DeadReader` | `MCBuzzSession`, `CloseLeavesNothing` | a malformed frame kills the reader, and `close()` raises before it has closed the socket, contrary to "close the WebSocket" (`client.py:547`) |
| `SharedSubId` | `MCBuzzSession`, `IteratorsStop` | of two `subscribe()` calls with the default sub_id, the first is never told that the connection is lost, contrary to "active subscriptions receive a final ``closed`` and their iterators stop" (`client.py:13-14`) |
| `WideIndex` | `MCHuddleEvents`, `EndsTruthful` | a peer_index that does not fit a byte ends every iterator while the socket is up, contrary to "stops when the relay closes the socket" (`huddle.py:476-477`) |
| `StaleEnd` | `MCHuddleEvents`, `EndsAreOwn` | the end of a connection nobody listened to stays in the backlog and stops the first iterator of the next one at once, contrary to "until the huddle ends" (`huddle.py:473`) |

Others need only another value of a constant to be seen again:

* *Bad auth_tag.* `AuthTagParses = FALSE` violates `CloseLeavesNothing`: the
  reader dies of a ValueError, which `close()` re-raises before it closes the
  socket (`client.py:550-554`).
* *Quiet close.* Codes 1000 and 1001 end the frame iterator without an
  exception, and `close_code` stays `None` (`client.py:87`, `468`).
* *Silence out of order.* In silence mode `InOrder` of `HuddleOutbound` fails:
  silence encoded between the caller's encode and append is sent ahead of lower
  seqs (`huddle.py:333-334`, `440`), although seq/ts are to "stay contiguous"
  (`huddle.py:398-400`).
* *Two frames of silence.* A comment says of the 20 ms of silence that "1..=2
  frames can come out" (`huddle.py:441-444`). While Opus does not fail there is
  never a second one, because less than a frame is carried (`CarryIsPartial`).
  After a failure there may be one, and it is then queued between the count and
  the clear of a `clear_queue()`: with `ClearCountCovers` without its condition,
  TLC finds the call dropping more than "Returns frames dropped"
  (`huddle.py:351`) says, and `BargeInCuts` without it fails as well.
* *Late reader.* `LateEvents = TRUE` violates `IteratorsStop`: `events()` first
  called after the relay closed the socket never ends (`huddle.py:476-477`).

Each passing property is also shown to be breakable: `PROJECT.json` names, for
each, a plausible bug in a modelled definition under which TLC finds it violated
(the operators with a suffix, such as `TakeFrame_newest`).

Smaller disagreements seen on the way that have no run: `clear_queue()` may
return more than it dropped, because the sender can take a frame between the
count and the clear (`huddle.py:353`; `ClearCountCovers` states the side that
holds); the queue cap is not enforced once the sender has ended
(`huddle.py:433`); a `publish()` waits its whole timeout after a loss
(`client.py:510`).

## Fairness

* `BuzzSession`: weak fairness of the steps the event loop takes on its own (the
  reader, the resumption of `connect()` and `close()`, the consumer of an
  iterator asking for the next item). None for the relay, the network, the
  caller's next call or the 20 s timers of `connect()` and `publish()`.
* `HuddleOutbound`: weak fairness of the calls under way and of the sender;
  strong fairness of the scheduled wake-up and of the cancellation, because the
  I/O loop runs its callbacks in the order they were scheduled although the
  sender keeps waking. None for new calls or the network.
* `HuddleLifecycle`: weak fairness of the coroutines on the I/O loop, of the
  return to the caller, of the handshake's failure (its 10 s timer,
  `huddle.py:50`) and of the opening's, and of the end of a cancelled task. None
  for the relay.
* `HuddleCodec`: weak fairness of each thread's next step; nothing says who wins
  a lock, and no new call is promised.
* `HuddleEvents`: weak fairness of the pump's own steps, of a `leave()` under
  way, and of each caller's loop and reader. None for the relay or for calls.

## Proofs

`BuzzSessionProofs` proves, for every value of the constants:

* `TypeCorrect`: `Spec => []TypeOK`;
* `OneConnectionCorrect`: without eager reconnects, one socket and one reader at
  a time, and in each phase of `connect()` and `close()` the attributes agree
  with the tasks;
* `PublishTruthfulCorrect`: no `publish()` reports a verdict the relay did not
  give on that event, whatever the caller does and however often the relay
  answers;
* `SettledCorrect`, `ConnectedCorrect`, `CloseCodeCorrect`: without eager
  reconnects, `SettledByOwnConnection`, `ConnectedMeansAuthed` and
  `CloseCodeIsCurrent`;
* `NoOrphanCorrect`, `CloseCorrect`: for an orderly caller (no eager reconnects,
  no calls during `close()`, one iterator per sub_id), an auth_tag that parses
  and frames that are well formed, `NoOrphanIterator` and `CloseLeavesNothing`.

They rest on the two named assumptions of `BuzzSession`, which TLC evaluates on
every run. The argument is a chain of inductive invariants, each proved with one
step per action and used by the next: types first; then `OneConnection`, which
is inductive with types alone because it says in each `pc` which socket and
reader may be alive; then the history facts. `PublishTruthful` is not inductive:
it needs that every OK on its way to the client, in any inbox, states a verdict
the relay gave (`FramesTruthful`). `ConnectedMeansAuthed` needs in addition that
the OK was read on the connection that `connect()` then returns, which
`OneConnection` gives: the only reader alive is that of `self._ws`.
`CloseCodeIsCurrent` and `SettledByOwnConnection` need `OneConnection` for the
same reason (`OutcomesHold`). The lemma `NothingLeftBehind` adds that no reader
has died of an exception and that an open socket has a live reader except while
`close()` awaits it (`Tended`); `NoOrphanIterator` is then inductive, because
with one iterator per sub_id nobody else can take a waiting iterator's place in
`_subs`. Each of the five conditions of `Orderly` is needed: TLC finds a
counterexample when it is dropped.

`HuddleOutboundProofs` proves, for every cap, burst, lag and number of frames:

* `OutboundTypeCorrect`: `Spec => []TypeOK`;
* `ConservedCorrect`: in all three modes, and also when Opus fails, every frame
  the encoder numbered is in exactly one place, and one that an `encode()` has
  returned is not lost between the threads;
* `WireInOrderCorrect`: outside silence mode frames leave in the order of their
  numbers;
* `BargeInCorrect`: after `clear_queue()` at most one older frame is sent,
  unless the sender streams silence and Opus has failed;
* `ClearCountCorrect`: `clear_queue()` never drops more than it reports, with
  the same exception.

They rest on the three named assumptions of `HuddleOutbound`. `TypeOK` is carried
with `AtHand`, which says when the sender holds a frame and the caller has some
in hand. `Conserved` counts; `Kept`, which is inductive, says instead that each
queue is free of repetitions and that the eight places are disjoint and make up
`1..nframe`, so that what `popleft` returns leaves the queue for good. `Line`
says that wire, held frame, queue and hand, in this order, increase; it holds as
long as only the caller takes numbers from the encoder, which silence mode
breaks. `Cut` says that everything queued or in hand is newer than the last
`clear_queue()`, and that if the held frame is not, none such has been sent yet;
`Counted` that nothing is queued between the count and the clear.

`HuddleEventsProofs` proves, for any number of iterators, connections and items,
any length of the backlog and whatever callers do:

* `EventsType` and `BacklogCorrect`: types; until the first `events()` call the
  backlog is the newest items in order;
* `InOrderCorrect`: no iterator gets an item twice or out of order, also when a
  closed loop kills the pump half-way through posting one;
* `EndsCorrect`, if `~WideIndexes`: until a loop is closed, an iterator that
  stopped by itself met the end of a connection that is over or is being left;
* `GaplessCorrect`, if `~LoopsClose`: an iterator misses nothing;
* `RefinesStream`, if `~LoopsClose`: `Spec => Stream!Spec`, the safety half of
  `DeliversStream`.

They rest on `EventsAssumption` alone. The invariant is one conjunction, `EInv`.
`Registered` says how the list of subscribers, the pump's snapshot of it and the
iterators agree: none is in either twice, one that reads is in the list, and a
new one has nothing posted. So what comes to an iterator, its queue, then its
loop's callbacks, then the item in the pump's hand, has that item once at most.
The lemma `Comes` tells in which five ways a step can leave an iterator reading
(an item is published, nothing happens to it, the pump dies before it posts the
item, it starts with the backlog, it takes its first item); `Ordered` (rising
numbers) and `Whole` (every number) then follow by arithmetic on sequences, and
do not look at the actions again. `Ends` is what makes an end truthful: with
open loops and indexes that are bytes no exception ends the pump, so whoever
publishes one does it for a connection that is over, and it stays over when the
next `connect()` comes. In the refinement `PublishItem` is the abstract
`Publish`, `Subscribe` is `Join` (at the place that `BacklogHolds` gives),
`Take` is `Read` (of the reader's next item, which is `Gapless`), `Quit` is
`Quit`, and every other step a stutter.

`HuddleLifecycleProofs` proves `OneSessionCorrect` and `NothingLeftCorrect` for
any number of calling tasks and of connections, whether or not tasks crash and
teardowns fail, of a program that is `Polite`: calls do not overlap, `connect()`
is called without an I/O loop only, and is cancelled, if at all, where no socket
is open, a half-open one included. Each of the three is needed, see
`HuddleLifecycle` above and the run `CancelledConnect`. `OneSession` and
`NothingLeft` say little of the moments in between, so the invariant follows the
calls: `OneCall` (one call runs at a time, and `connect()` runs without anybody
else's coroutine; a cancelled `leave()` may leave its own behind), `Connecting`
and `TearingDown` (how far each has come, and what the attributes name by then),
`Stopped` (without an I/O loop the attributes are empty as well) and `NoneLost`
(no task was cut off). The step that matters is `Return` with `StopThread`:
`TearingDown` says that both attributes are empty when a teardown has ended
well, so stopping the thread cuts nothing off; when it raised, the code does not
get to stop it.

`HuddleRosterProofs` proves, for every set of indexes and peers and any number
of connections and unannounced changes:

* `RosterTypeCorrect`: types, and that a connected client is in the room at its
  index;
* `KnowsRoomCorrect`: while the pump reads, the peers agree with the room
  wherever the client was told the latest;
* `EventsTellAllCorrect`, if `~ReuseUnseen`: while the pump reads, who follows
  the events has the client's list;
* `OnePeerPerDecoderCorrect`, if `~ReuseUnseen` and `~AudioUnseen`: a decoder is
  fed one peer's stream within a connection.

`Known` strengthens `KnowsRoom`: the client has its own entry right, and, unless
an index is reused unseen, an entry of the client and one of the room that both
name somebody name the same one. So a roster, which compares only which indexes
have an entry, makes the right events, and the view follows the handlers step by
step. `Fed` says that what a decoder was fed on this connection is the stream of
the peer the client has at its index; a change of that entry either forgets the
decoder or leaves it with nothing of this connection.

`HuddlePacerProofs` proves `OnScheduleCorrect` and `NoBurstCorrect` for every
frame length, cap and stall. The invariant is types, `Due` (a frame is picked no
earlier than its slot, and less than a frame after it unless the thread was held
up) and `Slots` (the slots of the frames sent, and the next one, are a frame
apart). `BehindBounds` is the arithmetic of the truncating division: what is
dropped after a stall ends less than a frame before now. An off-by-one there
breaks `Due`.

`HuddleCodecProofs` proves `CarryIsPartialCorrect`: with any number of threads,
less than a frame is carried between calls unless Opus failed. It is inductive
with `Guarded`, which says that who is inside has the mutex and that only an
`encode()` is in the middle of a carry. `HeaderInStepCorrect` says, for every
even `Base` above two and every length of a frame, that number, media time and
level arrive as they were put out, and that no level byte makes the receiver
drop the frame. Its invariant `Counted` ties the counters and the last header to
the history `count`; that a counter may wrap at every step or once at the end is
the lemma `Wraps`, that the bytes give the number back `TwoBytes` and
`FourBytes`, and that a level is its two's complement `LevelByte`. They rest on
the uniqueness of quotient and remainder, which is proved there too.

`BridgeOperationsProofs` proves, for every set of agents, profiles and tags:

* `ResolveTruthfulCorrect` and `ResolveCompleteCorrect`: whom `resolve_agent`
  reports as verified was recorded and attested in the course of the call, and
  who was both all the time is reported, if the answers were whole;
* `ReportsHoldCorrect`: what `start_huddle` and `claim_invite` report is so.

The first two rest on the lemma `VerifiedIsOwned`: for any profile, the code's
sequence of verdicts ends in "verified" if and only if the documented conditions
hold. `Asked` relates the history of the call to the present: what holds now
held some time, what held all the time holds now. For the third, an announcement
is sent only after its channel exists (`Channelled`), and a call claims only
under a policy it agreed to after it was shown (`Agreeing`).
`ProfileAssumption` says that a profile has a sequence of tags and a tag one of
conditions.

Only model-checked is what needs fairness, which is out of the prover's reach:
`IteratorsStop`, `FailsFast` and `CloseReturns` of the session, `QueueDrains`
and `LeaveEnds` of the outbound side, `IteratorsStop`, `LeaveEnds` and the
fairness in `DeliversStream` of the inbound one, `CallsReturn` of the lifecycle
and `GilComesBack` of the codec. All the invariants that the runs check, and the
one action property, are theorems.

## Not modelled

The HTTP bridge's one-shot methods, builders, signing, examples and build files
keep no state: one request and one response, or a pure function. So are
`parse_owner_command`, `owner_pubkey_hex` and `verified_owner_hex`: one decision
on a value that nothing changes. Opus, the relay, websockets and asyncio are
external and modelled by what the code relies on. Payloads, logging, health
counters and the wording of errors are left out. In the session, a reader that
is cancelled before its first step (its finally clause would not run) is treated
as one that has run: by then nobody can be waiting on it. `HuddleCodec` has no
thread that dies holding the mutex (the code ignores the poisoning,
`huddle.rs:266`), and the decoder's own mutex, which is taken in the same two
ways, has no model of its own.

## Plan

1. The queue cap once the sender has ended, and without pacing: a model of the
   caller that never stops sending (`huddle.py:433`).
2. Decoders across a reconnect of the same client: what a decoder inherited from
   the last huddle is fed in the next (`huddle.py:282`).
3. Proofs of what fairness does not need but liveness rests on: that in the
   states where a caller waits, a step that serves it is still to come.
