---------------------------- MODULE HuddleEvents ----------------------------
(***************************************************************************)
(* The inbound side of HuddleClient (python/buzzkit/huddle.py): the        *)
(* receive pump on the client's private I/O thread reads the socket and    *)
(* publishes events; events() iterators on the callers' own loops consume  *)
(* them; connect() and leave() bring the pump up and down.                 *)
(*                                                                         *)
(* The threads share _backlog and _subscribers, guarded by _sub_lock, and  *)
(* the callers' loops, to which the pump posts with call_soon_threadsafe   *)
(* after it has let go of the lock.  An action is one section under the    *)
(* lock, one post, one callback, or the code between two awaits.           *)
(*                                                                         *)
(* An item is named after its place in the order of publication; the       *)
(* history variable log says which connection published it and whether it  *)
(* is the None that marks that connection's end.                           *)
(***************************************************************************)
EXTENDS Naturals, Sequences, Functions

CONSTANTS
  Subs,         \* events() iterators; each has a queue and a loop of its own
  None,
  Kept,         \* the backlog's maxlen
  EarlyEvents,  \* may events() first run while connect() runs?
  LateEvents,   \* may it first run after the relay's end was published?
  LoopsClose,   \* may the loop of a finished iterator close?
  WideIndexes,  \* may a control message name a peer_index outside a byte?
  MaxConn,      \* bound: connections in a run
  MaxItems,     \* bound: events read in a run, the ends not counted
  MaxBurst      \* bound: events one frame gives

ASSUME EventsAssumption ==
  /\ Kept \in Nat \ {0} /\ MaxConn \in Nat /\ MaxItems \in Nat /\ MaxBurst \in Nat
  /\ None \notin Seq(Nat)
  /\ {EarlyEvents, LateEvents, LoopsClose, WideIndexes} \subseteq BOOLEAN

VARIABLES
  (* The caller and the connection. *)
  phase,    \* "off", "connecting", "on", "leaving"; _io_loop is None when "off"
  conn,     \* connections so far; the current one
  link,     \* "none", "opening", "up", "down" (by relay or network), "closed"
  (* The pump: _recv_loop and the _publish it is in. *)
  io,       \* "none", "reading", "locking", "posting", "done", "crashed"
  rest,     \* events of the last frame still to publish, this one included
  fin,      \* its finally clause: "no", "end", "raise" (an exception is on its way)
  todo,     \* _publish's snapshot: who has still to be posted to
  (* Shared under _sub_lock. *)
  backlog,  \* _backlog: a sequence of items, or None
  subs,     \* _subscribers
  (* The iterators and their loops. *)
  iter,     \* "new", "reading", "over" (got None), "quit" (closed by the caller)
  posted,   \* callbacks on its loop that put an item into its queue
  queue,    \* its asyncio.Queue
  closed,   \* iterators whose loop is closed
  (* History. *)
  log,      \* items published so far
  pos,      \* the item each iterator expects next
  of        \* the connection in whose time it was started

caller == <<phase, conn, link>>
pump   == <<io, rest, fin, todo>>
shared == <<backlog, subs>>
iters  == <<iter, posted, queue, closed>>
vars   == <<caller, pump, shared, iters, log, pos, of>>

Init ==
  /\ phase = "off" /\ conn = 0 /\ link = "none"
  /\ io = "none" /\ rest = 0 /\ fin = "no" /\ todo = << >>
  /\ backlog = << >> /\ subs = << >>
  /\ iter = [s \in Subs |-> "new"]
  /\ posted = [s \in Subs |-> << >>] /\ queue = [s \in Subs |-> << >>]
  /\ closed = {}
  /\ log = << >>
  /\ pos = [s \in Subs |-> 1] /\ of = [s \in Subs |-> 0]

-----------------------------------------------------------------------------
(* connect() and leave(), as far as the pump is concerned *)

ConnectBegin ==
  /\ phase = "off" /\ conn < MaxConn
  /\ phase' = "connecting" /\ conn' = conn + 1 /\ link' = "opening"
  /\ UNCHANGED <<pump, shared, iters, log, pos, of>>

ConnectDone ==
  /\ phase = "connecting"
  /\ phase' = "on" /\ link' = "up"
  /\ io' = "reading" /\ fin' = "no"
  /\ UNCHANGED <<conn, rest, todo, shared, iters, log, pos, of>>

\* The handshake fails before there is a pump; the I/O loop is stopped.
ConnectFails ==
  /\ phase = "connecting"
  /\ phase' = "off" /\ link' = "closed"
  /\ UNCHANGED <<conn, pump, shared, iters, log, pos, of>>

\* The relay closes the socket, or the network does.
LinkEnds ==
  /\ link = "up"
  /\ link' = "down"
  /\ UNCHANGED <<phase, conn, pump, shared, iters, log, pos, of>>

LeaveBegin ==
  /\ phase = "on"
  /\ phase' = "leaving"
  /\ UNCHANGED <<conn, link, pump, shared, iters, log, pos, of>>

\* The pump is cancelled at its await and runs its finally clause.
CancelPump_waits ==
  /\ phase = "leaving" /\ io = "reading" /\ link = "down"
  /\ io' = "locking" /\ fin' = "end"
  /\ UNCHANGED <<caller, rest, todo, shared, iters, log, pos, of>>
CancelPump ==
  /\ phase = "leaving" /\ io = "reading"
  /\ io' = "locking" /\ fin' = "end"
  /\ UNCHANGED <<caller, rest, todo, shared, iters, log, pos, of>>

LeaveDone ==
  /\ phase = "leaving" /\ io = "done"
  /\ phase' = "off" /\ link' = "closed" /\ io' = "none"
  /\ UNCHANGED <<conn, rest, fin, todo, shared, iters, log, pos, of>>

\* "await task" raises what the pump raised, and leave() ends there.
LeaveRaises ==
  /\ phase = "leaving" /\ io = "crashed"
  /\ phase' = "on"
  /\ UNCHANGED <<conn, link, pump, shared, iters, log, pos, of>>

-----------------------------------------------------------------------------
(* The pump *)

\* Malformed audio or an unknown control message gives no event.
Undecodable_raises == io' = "locking" /\ fin' = "raise" /\ rest' = 0
Undecodable == UNCHANGED <<io, fin, rest>>

\* remove_peer() takes a byte: a "left", or a roster that drops a peer, with
\* another index raises OverflowError before it gives any event.
Overflow == io' = "locking" /\ fin' = "raise" /\ rest' = 0

\* Another frame gives one event, or several (a roster).
ReadFrame ==
  /\ io = "reading" /\ link = "up"
  /\ \/ Undecodable
     \/ WideIndexes /\ Overflow
     \/ \E n \in 1..MaxBurst :
          /\ Len(SelectSeq(log, LAMBDA i : ~i.end)) + n <= MaxItems
          /\ io' = "locking" /\ rest' = n /\ UNCHANGED fin
  /\ UNCHANGED <<caller, todo, shared, iters, log, pos, of>>

\* "async for" is over, or ConnectionClosed is caught.
ReadEnd_silent ==
  /\ io = "reading" /\ link = "down"
  /\ io' = "done" /\ fin' = "end"
  /\ UNCHANGED <<caller, rest, todo, shared, iters, log, pos, of>>
ReadEnd ==
  /\ io = "reading" /\ link = "down"
  /\ io' = "locking" /\ fin' = "end"
  /\ UNCHANGED <<caller, rest, todo, shared, iters, log, pos, of>>

\* What follows the publication of an item.
Published ==
  /\ UNCHANGED fin
  /\ \/ fin = "end"   /\ io' = "done"    /\ UNCHANGED rest
     \/ fin = "raise" /\ io' = "crashed" /\ UNCHANGED rest
     \/ fin = "no" /\ rest' = rest - 1
        /\ io' = IF rest > 1 THEN "locking" ELSE "reading"

\* deque(maxlen): an append to a full one drops its oldest item.
Remember_refuse(i) == IF Len(backlog) < Kept THEN Append(backlog, i) ELSE backlog
Remember_unbounded(i) == Append(backlog, i)
Remember(i) ==
  IF Len(backlog) < Kept THEN Append(backlog, i) ELSE Append(Tail(backlog), i)

\* The section under the lock: keep the item, drop it, or note who gets it.
PublishItem ==
  /\ io = "locking"
  /\ log' = Append(log, [conn |-> conn, end |-> fin # "no"])
  /\ \/ /\ subs = << >>
        /\ backlog' = IF backlog = None THEN None ELSE Remember(Len(log'))
        /\ Published /\ UNCHANGED todo
     \/ /\ subs # << >>
        /\ todo' = subs /\ io' = "posting"
        /\ UNCHANGED <<backlog, rest, fin>>
  /\ UNCHANGED <<caller, subs, iters, pos, of>>

\* One call_soon_threadsafe of the loop after it.
Post_firstOnly ==
  /\ io = "posting" /\ Head(todo) \notin closed
  /\ posted' = [posted EXCEPT ![Head(todo)] = Append(@, Len(log))]
  /\ todo' = << >> /\ Published
  /\ UNCHANGED <<caller, shared, iter, queue, closed, log, pos, of>>
Post ==
  /\ io = "posting" /\ Head(todo) \notin closed
  /\ posted' = [posted EXCEPT ![Head(todo)] = Append(@, Len(log))]
  /\ todo' = Tail(todo)
  /\ IF Len(todo) = 1 THEN Published ELSE UNCHANGED <<io, rest, fin>>
  /\ UNCHANGED <<caller, shared, iter, queue, closed, log, pos, of>>

\* On a closed loop it raises RuntimeError, which no one catches: the pump goes
\* to its finally clause, or out of it.
PostRaises ==
  /\ io = "posting" /\ Head(todo) \in closed
  /\ todo' = << >> /\ rest' = 0 /\ fin' = "raise"
  /\ io' = IF fin = "no" THEN "locking" ELSE "crashed"
  /\ UNCHANGED <<caller, shared, iters, log, pos, of>>

Pump == ReadFrame \/ ReadEnd \/ PublishItem \/ Post \/ PostRaises

-----------------------------------------------------------------------------
(* An iterator and its loop *)

EndPublished == log # << >> /\ log[Len(log)] = [conn |-> conn, end |-> TRUE]

\* The first step of events(): take over the backlog and register, under the
\* lock.  Without an I/O loop it raises and changes nothing.
Backlog == IF backlog = None THEN << >> ELSE backlog
Taken_leftInPlace == backlog
Taken == None

Subscribe(s) ==
  /\ iter[s] = "new" /\ phase # "off"
  /\ phase = "connecting" => EarlyEvents
  /\ EndPublished => backlog # None \/ (LateEvents /\ phase = "on")
  /\ iter' = [iter EXCEPT ![s] = "reading"]
  /\ queue' = [queue EXCEPT ![s] = Backlog]
  /\ backlog' = Taken
  /\ subs' = Append(subs, s)
  /\ pos' = [pos EXCEPT ![s] = Len(log) - Len(Backlog) + 1]
  /\ of' = [of EXCEPT ![s] = conn]
  /\ UNCHANGED <<caller, pump, posted, closed, log>>

\* The loop runs queue.put_nowait.
PutItem_newestFirst(s) ==
  /\ posted[s] # << >> /\ s \notin closed
  /\ queue' = [queue EXCEPT ![s] = <<Head(posted[s])>> \o @]
  /\ posted' = [posted EXCEPT ![s] = Tail(@)]
  /\ UNCHANGED <<caller, pump, shared, iter, closed, log, pos, of>>
PutItem(s) ==
  /\ posted[s] # << >> /\ s \notin closed
  /\ queue' = [queue EXCEPT ![s] = Append(@, Head(posted[s]))]
  /\ posted' = [posted EXCEPT ![s] = Tail(@)]
  /\ UNCHANGED <<caller, pump, shared, iter, closed, log, pos, of>>

Take(s) ==
  /\ iter[s] = "reading" /\ queue[s] # << >>
  /\ queue' = [queue EXCEPT ![s] = Tail(@)]
  /\ pos' = [pos EXCEPT ![s] = Head(queue[s]) + 1]
  /\ iter' = [iter EXCEPT ![s] = IF log[Head(queue[s])].end THEN "over" ELSE @]
  /\ UNCHANGED <<caller, pump, shared, posted, closed, log, of>>

\* The caller leaves its "async for": the generator is closed at its yield.
Quit(s) ==
  /\ iter[s] = "reading"
  /\ iter' = [iter EXCEPT ![s] = "quit"]
  /\ UNCHANGED <<caller, pump, shared, posted, queue, closed, log, pos, of>>

\* The generator's finally clause, under the lock: list.remove.
Without(s) ==
  LET i == CHOOSE i \in 1..Len(subs) : subs[i] = s
  IN SubSeq(subs, 1, i - 1) \o SubSeq(subs, i + 1, Len(subs))
Unsubscribe(s) ==
  /\ iter[s] \in {"over", "quit"} /\ s \in Range(subs)
  /\ subs' = Without(s)
  /\ UNCHANGED <<caller, pump, backlog, iters, log, pos, of>>

\* External: the program closes the loop its finished iterator ran on.
CloseLoop(s) ==
  /\ LoopsClose
  /\ iter[s] \in {"over", "quit"} /\ s \notin Range(subs) /\ s \notin closed
  /\ closed' = closed \cup {s}
  /\ UNCHANGED <<caller, pump, shared, iter, posted, queue, log, pos, of>>

Iterator(s) ==
  Subscribe(s) \/ PutItem(s) \/ Take(s) \/ Quit(s) \/ Unsubscribe(s) \/ CloseLoop(s)

-----------------------------------------------------------------------------
Next ==
  \/ ConnectBegin \/ ConnectDone \/ ConnectFails \/ LinkEnds
  \/ LeaveBegin \/ CancelPump \/ LeaveDone \/ LeaveRaises
  \/ Pump
  \/ \E s \in Subs : Iterator(s)

\* The I/O thread runs, and so do the callers' loops; a reader asks for the
\* next item.  Nothing is assumed of the relay or of the callers' calls.
Fairness ==
  /\ WF_vars(ReadEnd) /\ WF_vars(PublishItem) /\ WF_vars(Post) /\ WF_vars(PostRaises)
  /\ WF_vars(CancelPump) /\ WF_vars(LeaveDone) /\ WF_vars(LeaveRaises)
  /\ \A s \in Subs : WF_vars(PutItem(s)) /\ WF_vars(Take(s))

Spec == Init /\ [][Next]_vars
FairSpec == Spec /\ Fairness

-----------------------------------------------------------------------------
(* Properties *)

TypeOK ==
  /\ phase \in {"off", "connecting", "on", "leaving"}
  /\ conn \in 0..MaxConn /\ link \in {"none", "opening", "up", "down", "closed"}
  /\ io \in {"none", "reading", "locking", "posting", "done", "crashed"}
  /\ rest \in 0..MaxBurst /\ fin \in {"no", "end", "raise"}
  /\ todo \in Seq(Subs) /\ (io = "posting" <=> todo # << >>)
  /\ backlog \in Seq(Nat) \cup {None}
  /\ backlog # None => Len(backlog) <= Kept
  /\ subs \in Seq(Subs)
  /\ iter \in [Subs -> {"new", "reading", "over", "quit"}]
  /\ posted \in [Subs -> Seq(Nat)] /\ queue \in [Subs -> Seq(Nat)]
  /\ closed \subseteq Subs
  /\ log \in Seq([conn : 1..MaxConn, end : BOOLEAN])
  /\ pos \in [Subs -> Nat] /\ of \in [Subs -> 0..MaxConn]

\* From the item a reading iterator expects next to the last one published,
\* every item is in its queue, posted to its loop or about to be posted: once,
\* and in order (huddle.py:484-499, 515-525).
Coming(s) ==
  queue[s] \o posted[s] \o (IF s \in Range(todo) THEN <<Len(log)>> ELSE << >>)
Gapless ==
  \A s \in Subs : iter[s] = "reading" =>
    Coming(s) = [i \in 1..(Len(log) + 1 - pos[s]) |-> pos[s] - 1 + i]

\* Also when the pump dies half-way through posting an item, nothing reaches an
\* iterator twice or out of order (huddle.py:484-499, 515-525).
InOrder ==
  \A s \in Subs : iter[s] = "reading" =>
    \A i, j \in 1..Len(Coming(s)) :
      pos[s] <= Coming(s)[i] /\ (i < j => Coming(s)[i] < Coming(s)[j])

\* Until the first events() call the newest items are held, in order: "held here
\* (bounded) so early roster/audio isn't lost" (huddle.py:167-171).
BacklogHolds ==
  backlog # None =>
    LET n == IF Len(log) > Kept THEN Kept ELSE Len(log) IN
      backlog = [i \in 1..n |-> Len(log) - n + i]

\* An iterator that stopped by itself met the end of a connection that is over or
\* is being left, and then so are all the earlier ones: never a live one, not even
\* when leave() and connect() came in between (huddle.py:476-478).  Posting to a
\* closed loop ends the pump, and every iterator with it; so does an index outside
\* a byte, which is why this is violated with WideIndexes.
IsOver(c) == c < conn \/ link \in {"down", "closed"} \/ phase = "leaving"
EndsTruthful ==
  closed = {} =>
    \A s \in Subs : iter[s] = "over" =>
      log[pos[s] - 1].end /\ IsOver(log[pos[s] - 1].conn)

\* The end it met is that of the connection it was opened in, or of a later one
\* ("The iterator stops when the relay closes the socket", huddle.py:476-477).
EndsAreOwn ==
  closed = {} =>
    \A s \in Subs : iter[s] = "over" => log[pos[s] - 1].conn >= of[s]

\* events() as its readers see it.
Stream == INSTANCE EventStream WITH
            Readers <- Subs, state <- iter,
            ends <- [i \in 1..Len(log) |-> log[i].end]
DeliversStream == Stream!FairSpec

\* When its connection is over, an iterator stops (huddle.py:476-478).
IteratorsStop ==
  \A s \in Subs :
    (iter[s] = "reading" /\ IsOver(of[s]))
      ~> (iter[s] # "reading" \/ closed # {})

\* leave() ends, and leaves no pump running.
LeaveEnds == phase = "leaving" ~> (phase # "leaving" /\ io \in {"none", "crashed"})
=============================================================================
