---------------------------- MODULE BuzzSession ----------------------------
(***************************************************************************)
(* The authenticated WebSocket session of BuzzClient                       *)
(* (python/buzzkit/client.py): connect() and its NIP-42 handshake, the     *)
(* reader task, publish() and its pending OKs, subscribe() iterators, and  *)
(* close().                                                                *)
(*                                                                         *)
(* Everything runs on one asyncio loop, so an action is the code between   *)
(* two awaits that really suspend.  Two awaits never do and are part of    *)
(* the action around them: Queue.put on an unbounded queue, and ws.send of *)
(* a small frame on an open socket.  The relay is external: it answers any *)
(* request at any later time, in any order, several times and differently, *)
(* or never, and may lose the connection at any moment.                    *)
(***************************************************************************)
EXTENDS Naturals, Sequences

CONSTANTS
  Ids,               \* NIP-01 subscription ids
  Subs, IdOf,        \* subscribe() calls, and the sub_id each one passes
  OneShot,           \* the calls that pass close_on_eose=True
  Events,            \* ids of the signed events handed to publish()
  Pubs, EvOf,        \* publish() calls, and the event each one publishes
  Codes, OkCodes,    \* close codes; those the frame iterator ends on quietly
  None,              \* Python's None
  FramesWellFormed,  \* are the relay's frames lists with all their elements?
  AuthTagParses,     \* is it known that build_auth_event parses the auth_tag?
  EagerReconnect,    \* may connect() be called before the old reader ended?
  CallsDuringClose,  \* may other tasks call while connect()/close() runs?
  MaxConn,           \* bound: sockets opened in a run
  MaxFrames          \* bound: frames the relay sends in a run

ASSUME SessionAssumption ==
  /\ IdOf \in [Subs -> Ids]
  /\ EvOf \in [Pubs -> Events]
  /\ OneShot \subseteq Subs
  /\ OkCodes \subseteq Codes
  /\ MaxConn \in Nat /\ MaxFrames \in Nat
  /\ None \notin Codes /\ None \notin Subs /\ None \notin Pubs
  /\ \A e \in Events : e \notin Nat

ASSUME FlagAssumption ==
  {FramesWellFormed, AuthTagParses, EagerReconnect, CallsDuringClose} \subseteq BOOLEAN

Conns   == 1..MaxConn
NoConn  == 0
AuthIds == 1..MaxFrames   \* an AUTH event is named after its challenge frame

Frame ==
       [t : {"AUTH"}, n : AuthIds]
  \cup [t : {"EVENT", "EOSE", "CLOSED"}, id : Ids]
  \cup [t : {"OK"}, of : AuthIds \cup Events, acc : BOOLEAN]
  \cup [t : {"MALFORMED"}]

Items == {"event", "eose", "closed"}   \* what the reader puts in a queue

VARIABLES
  (* The caller, inside connect() or close(). *)
  pc,         \* "idle", "opening", "authing", "awaiting", "closing"
  up,         \* the connection the last successful connect() returned, or 0
  (* BuzzClient's attributes. *)
  ws,         \* self._ws
  reader,     \* self._reader, named after the connection it reads
  auth,       \* self._auth_result: its state, and who settled it
  authId,     \* self._auth_event_id (0 for None)
  closeCode,  \* self.close_code
  subs,       \* self._subs
  pending,    \* self._pending_ok
  (* Its tasks. *)
  rd,         \* reader task of each connection
  iter,       \* subscribe() iterators
  on,         \* the connection an iterator sent its REQ on
  queue,      \* each iterator's asyncio.Queue
  pub,        \* publish() calls
  (* The connections, and the relay at their other end. *)
  nconn,      \* sockets opened so far
  sock,       \* "none", "open", "lost" (by relay or network), "closing", "closed"
  code,       \* close code a lost connection carries, None without a close frame
  inbox,      \* frames on their way to the client
  nsent,      \* frames sent so far
  toAuth,     \* AUTH events the relay may answer
  toOk,       \* EVENTs the relay may answer
  reqs,       \* subscriptions open at the relay
  verdict     \* history: what the relay decided, as <<what, accepted>>

caller  == <<pc, up>>
attrs   == <<ws, reader, auth, authId, closeCode>>
calls   == <<subs, iter, on, queue, pending, pub>>
net     == <<nconn, sock, code, inbox, nsent>>
relay   == <<toAuth, toOk, reqs, verdict>>
vars    == <<caller, attrs, calls, rd, net, relay>>

Init ==
  /\ pc = "idle" /\ up = NoConn
  /\ ws = NoConn /\ reader = NoConn /\ authId = 0 /\ closeCode = None
  /\ auth = [st |-> "none", by |-> NoConn]
  /\ subs = [i \in Ids |-> None] /\ pending = [e \in Events |-> None]
  /\ rd = [c \in Conns |-> "none"]
  /\ iter = [s \in Subs |-> "idle"] /\ on = [s \in Subs |-> NoConn]
  /\ queue = [s \in Subs |-> << >>]
  /\ pub = [p \in Pubs |-> "idle"]
  /\ nconn = 0 /\ nsent = 0
  /\ sock = [c \in Conns |-> "none"] /\ code = [c \in Conns |-> None]
  /\ inbox = [c \in Conns |-> << >>]
  /\ toAuth = [c \in Conns |-> {}] /\ toOk = [c \in Conns |-> {}]
  /\ reqs = [c \in Conns |-> {}]
  /\ verdict = {}

IsOpen(c) == c # NoConn /\ sock[c] = "open"
IsLost(c) == c # NoConn /\ sock[c] = "lost"

-----------------------------------------------------------------------------
(* Helpers shared by the reader's exits and by the handlers it calls.      *)

\* _settle_auth: resolve the pending connect(), a no-op once settled.
SettleAuth(c, st) ==
  auth' = IF auth.st = "pending" THEN [st |-> st, by |-> c] ELSE auth

Registered(s) == subs[IdOf[s]] = s

\* The reader's finally clause: a final "closed" for every registered queue.
ClosedToAll_none == queue
ClosedToAll ==
  [s \in Subs |-> IF Registered(s) THEN Append(queue[s], "closed") ELSE queue[s]]

Put(id, item) ==
  queue' = [s \in Subs |->
              IF subs[id] = s THEN Append(queue[s], item) ELSE queue[s]]

\* How _read_loop ends: rd becomes "done", or "failed" when an exception
\* other than ConnectionClosed or CancelledError escapes it.
ReaderExit_keepsAuth(c, how) ==
  /\ rd' = [rd EXCEPT ![c] = how]
  /\ queue' = ClosedToAll
  /\ UNCHANGED auth
ReaderExit(c, how) ==
  /\ rd' = [rd EXCEPT ![c] = how]
  /\ SettleAuth(c, "error")
  /\ queue' = ClosedToAll

\* The relay drops what it knew of a connection that is over.
Forget(c) ==
  /\ toAuth' = [toAuth EXCEPT ![c] = {}]
  /\ toOk' = [toOk EXCEPT ![c] = {}]
  /\ reqs' = [reqs EXCEPT ![c] = {}]
  /\ UNCHANGED verdict

-----------------------------------------------------------------------------
(* connect() *)

\* A caller reconnects once the reader of the lost connection is over; an
\* eager one as soon as it suspects the loss (a publish() timed out).
MayConnect ==
  \/ ws = NoConn
  \/ IsLost(ws) /\ (EagerReconnect \/ rd[ws] # "running")

ConnectBegin_keepsCode ==
  /\ pc = "idle" /\ MayConnect /\ nconn < MaxConn
  /\ pc' = "opening" /\ up' = NoConn
  /\ auth' = [st |-> "pending", by |-> NoConn]
  /\ UNCHANGED <<ws, reader, authId, closeCode, calls, rd, net, relay>>
ConnectBegin ==
  /\ pc = "idle" /\ MayConnect /\ nconn < MaxConn
  /\ pc' = "opening" /\ up' = NoConn
  /\ closeCode' = None
  /\ auth' = [st |-> "pending", by |-> NoConn]
  /\ UNCHANGED <<ws, reader, authId, calls, rd, net, relay>>

\* websockets.connect raises: outside the try, so nothing is undone.
ConnectRefused ==
  /\ pc = "opening"
  /\ pc' = "idle"
  /\ UNCHANGED <<up, attrs, calls, rd, net, relay>>

ConnectOpened ==
  /\ pc = "opening"
  /\ LET c == nconn + 1 IN
       /\ nconn' = c /\ ws' = c /\ reader' = c
       /\ sock' = [sock EXCEPT ![c] = "open"]
       /\ rd' = [rd EXCEPT ![c] = "running"]
  /\ pc' = "authing"
  /\ UNCHANGED <<up, auth, authId, closeCode, calls, code, inbox, nsent, relay>>

ConnectDone ==
  /\ pc = "authing" /\ auth.st = "ok"
  /\ pc' = "idle" /\ up' = ws
  /\ UNCHANGED <<attrs, calls, rd, net, relay>>

-----------------------------------------------------------------------------
(* close(), called by the caller or by connect()'s except clause.          *)

\* Cancelling a task that is over does nothing; without a reader close()
\* goes straight on to ws.close().
CancelReader_dropped == UNCHANGED rd
CancelReader ==
  rd' = IF reader # NoConn /\ rd[reader] = "running"
        THEN [rd EXCEPT ![reader] = "cancelled"] ELSE rd

CloseBegin ==
  /\ \/ pc = "idle" /\ (reader # NoConn \/ ws # NoConn)  \* else nothing to do
     \/ pc = "authing" /\ auth.st = "error"
  /\ pc' = "awaiting" /\ up' = NoConn
  /\ CancelReader
  /\ UNCHANGED <<attrs, calls, net, relay>>

\* asyncio.wait_for gives up on the handshake, or the task that runs connect()
\* is cancelled: either may come after the verdict and before connect() resumes.
CancelAuth ==
  auth' = IF auth.st = "pending" THEN [st |-> "cancelled", by |-> NoConn] ELSE auth

AuthTimeout_leavesOpen ==
  /\ pc = "authing"
  /\ pc' = "idle" /\ up' = NoConn
  /\ CancelAuth
  /\ UNCHANGED <<ws, reader, authId, closeCode, calls, rd, net, relay>>
AuthTimeout ==
  /\ pc = "authing"
  /\ pc' = "awaiting" /\ up' = NoConn
  /\ CancelAuth
  /\ CancelReader
  /\ UNCHANGED <<ws, reader, authId, closeCode, calls, net, relay>>

\* "await self._reader" is over; the next await is the one in ws.close().
ReaderOver_unawaited == TRUE
ReaderOver == reader # NoConn => rd[reader] = "done"
CloseSocket ==
  /\ pc = "awaiting" /\ ReaderOver
  /\ reader' = NoConn
  /\ IF IsOpen(ws)
     THEN sock' = [sock EXCEPT ![ws] = "closing"] /\ Forget(ws)
     ELSE UNCHANGED <<sock, relay>>
  /\ pc' = "closing"
  /\ UNCHANGED <<up, ws, auth, authId, closeCode, calls, rd, nconn, code, inbox, nsent>>

\* "await self._reader" raises what the reader raised: close() ends there.
CloseRaises ==
  /\ pc = "awaiting" /\ reader # NoConn /\ rd[reader] = "failed"
  /\ pc' = "idle"
  /\ UNCHANGED <<up, attrs, calls, rd, net, relay>>

CloseDone ==
  /\ pc = "closing"
  /\ IF ws # NoConn THEN sock' = [sock EXCEPT ![ws] = "closed"] ELSE UNCHANGED sock
  /\ ws' = NoConn
  /\ pc' = "idle"
  /\ UNCHANGED <<up, reader, auth, authId, closeCode, calls, rd, nconn, code, inbox, nsent, relay>>

-----------------------------------------------------------------------------
(* _read_loop of connection c *)

Receive(c) ==
  /\ rd[c] = "running" /\ inbox[c] # << >>
  /\ inbox' = [inbox EXCEPT ![c] = Tail(@)]
  /\ UNCHANGED <<caller, ws, reader, nconn, sock, code, nsent>>

\* EVENT, EOSE and CLOSED go to the queue registered under their id, if any.
OnSubscriptionFrame(c) ==
  /\ Receive(c)
  /\ LET f == Head(inbox[c]) IN
       \/ f.t = "EVENT"  /\ Put(f.id, "event")
       \/ f.t = "EOSE"   /\ Put(f.id, "eose")
       \/ f.t = "CLOSED" /\ Put(f.id, "closed")
  /\ UNCHANGED <<auth, authId, closeCode, subs, iter, on, pending, pub, rd, relay>>

\* _on_auth_challenge answers on self._ws, whichever connection that is now.
OnAuthChallenge(c) ==
  /\ Receive(c) /\ Head(inbox[c]).t = "AUTH"
  /\ \/ /\ ~AuthTagParses                  \* ValueError from build_auth_event
        /\ ReaderExit(c, "failed")
        /\ UNCHANGED <<authId, closeCode, toAuth>>
     \/ /\ IsOpen(ws)
        /\ authId' = Head(inbox[c]).n
        /\ toAuth' = [toAuth EXCEPT ![ws] = @ \cup {authId'}]
        /\ UNCHANGED <<rd, auth, queue, closeCode>>
     \/ /\ ~IsOpen(ws) /\ ws # NoConn       \* ConnectionClosed from send
        /\ authId' = Head(inbox[c]).n
        /\ closeCode' = code[ws]
        /\ ReaderExit(c, "done") /\ UNCHANGED toAuth
     \/ /\ ws = NoConn                      \* self._ws is None
        /\ authId' = Head(inbox[c]).n
        /\ ReaderExit(c, "failed") /\ UNCHANGED <<toAuth, closeCode>>
  /\ UNCHANGED <<subs, iter, on, pending, pub, toOk, reqs, verdict>>

\* _on_ok: the verdict on our AUTH settles connect(); any other OK resolves
\* the publish() that waits for that event, unless it gave up.
Verdict_ofAuth(acc) == IF acc THEN "ok" ELSE "error"
Verdict(acc) == IF acc THEN "accepted" ELSE "rejected"
AuthVerdict_always(acc) == "ok"
AuthVerdict(acc) == IF acc THEN "ok" ELSE "error"

AwaitsOk_any(p, e) == pub[p] = "waiting"
AwaitsOk(p, e) == EvOf[p] = e /\ pending[e] = p /\ pub[p] = "waiting"

OnOk(c) ==
  /\ Receive(c) /\ Head(inbox[c]).t = "OK"
  /\ LET f == Head(inbox[c]) IN
     IF f.of = authId
     THEN /\ SettleAuth(c, AuthVerdict(f.acc))
          /\ UNCHANGED <<pending, pub>>
     ELSE /\ pending' = [e \in Events |-> IF e = f.of THEN None ELSE pending[e]]
          /\ pub' = [p \in Pubs |->
                       IF AwaitsOk(p, f.of) THEN Verdict(f.acc) ELSE pub[p]]
          /\ UNCHANGED auth
  /\ UNCHANGED <<authId, closeCode, subs, iter, on, queue, rd, relay>>

\* JSON that is no list, or a list too short for its type, is a TypeError,
\* KeyError or IndexError, which ends the reader.
OnMalformed(c) ==
  /\ Receive(c) /\ Head(inbox[c]).t = "MALFORMED"
  /\ ReaderExit(c, "failed")
  /\ UNCHANGED <<authId, closeCode, subs, iter, on, pending, pub, relay>>

\* The frame iterator ends quietly on an OK close code and raises
\* ConnectionClosed on any other; only the exception carries the code.
ReadLost(c) ==
  /\ rd[c] = "running" /\ sock[c] = "lost"
  /\ closeCode' = IF code[c] \in OkCodes THEN closeCode ELSE code[c]
  /\ ReaderExit(c, "done")
  /\ UNCHANGED <<caller, ws, reader, authId, subs, iter, on, pending, pub, net, relay>>

\* CancelledError also runs the finally clause.  (A reader cancelled before its
\* first step skips it; connect() is settled by then and nobody waits on it.)
ReadCancelled(c) ==
  /\ rd[c] = "cancelled"
  /\ ReaderExit(c, "done")
  /\ UNCHANGED <<caller, ws, reader, authId, closeCode, subs, iter, on, pending, pub, net, relay>>

ReadLoop(c) ==
  \/ OnSubscriptionFrame(c) \/ OnAuthChallenge(c) \/ OnOk(c) \/ OnMalformed(c)
  \/ ReadLost(c) \/ ReadCancelled(c)

-----------------------------------------------------------------------------
(* subscribe() and publish() *)

\* Without self._ws both raise at once and change nothing.
MayCall == ws # NoConn /\ (pc = "idle" \/ CallsDuringClose)

\* The queue is registered before the REQ is sent and outside the try, so a
\* send that raises leaves it registered.
Subscribe(s) ==
  /\ iter[s] = "idle" /\ MayCall
  /\ subs' = [subs EXCEPT ![IdOf[s]] = s]
  /\ on' = [on EXCEPT ![s] = ws]
  /\ IF IsOpen(ws)
     THEN /\ iter' = [iter EXCEPT ![s] = "waiting"]
          /\ reqs' = [reqs EXCEPT ![ws] = @ \cup {IdOf[s]}]
     ELSE /\ iter' = [iter EXCEPT ![s] = "failed"]
          /\ UNCHANGED reqs
  /\ UNCHANGED <<caller, attrs, queue, pending, pub, rd, net, toAuth, toOk, verdict>>

\* The generator's finally clause: unregister the id, whoever holds it, and
\* send CLOSE on self._ws, whichever connection that is now.
Unregister(s) == [subs EXCEPT ![IdOf[s]] = None]

IterExit(s) ==
  /\ iter' = [iter EXCEPT ![s] = "done"]
  /\ subs' = Unregister(s)
  /\ IF IsOpen(ws) THEN reqs' = [reqs EXCEPT ![ws] = @ \ {IdOf[s]}] ELSE UNCHANGED reqs

Ends_onlyEose(s, item) == item = "eose" /\ s \in OneShot
Ends(s, item) == item = "closed" \/ (item = "eose" /\ s \in OneShot)

Iterate(s) ==
  /\ iter[s] = "waiting" /\ queue[s] # << >>
  /\ queue' = [queue EXCEPT ![s] = Tail(@)]
  /\ IF Ends(s, Head(queue[s])) THEN IterExit(s) ELSE UNCHANGED <<iter, subs, reqs>>
  /\ UNCHANGED <<caller, attrs, on, pending, pub, rd, net, toAuth, toOk, verdict>>

\* The caller leaves the "async for" loop and the generator is closed.
Abandon(s) ==
  /\ iter[s] = "waiting"
  /\ IterExit(s)
  /\ UNCHANGED <<caller, attrs, on, queue, pending, pub, rd, net, toAuth, toOk, verdict>>

Publish(p) ==
  /\ pub[p] = "idle" /\ MayCall
  /\ pending' = [pending EXCEPT ![EvOf[p]] = p]
  /\ IF IsOpen(ws)
     THEN /\ pub' = [pub EXCEPT ![p] = "waiting"]
          /\ toOk' = [toOk EXCEPT ![ws] = @ \cup {EvOf[p]}]
     ELSE /\ pub' = [pub EXCEPT ![p] = "failed"]
          /\ UNCHANGED toOk
  /\ UNCHANGED <<caller, attrs, subs, iter, on, queue, rd, net, toAuth, reqs, verdict>>

\* wait_for gives up; the entry stays in _pending_ok.
PublishTimeout(p) ==
  /\ pub[p] = "waiting"
  /\ pub' = [pub EXCEPT ![p] = "timeout"]
  /\ UNCHANGED <<caller, attrs, subs, iter, on, queue, pending, rd, net, relay>>

-----------------------------------------------------------------------------
(* The relay and the network (external) *)

SendFrame(c, f) ==
  /\ sock[c] = "open" /\ nsent < MaxFrames
  /\ inbox' = [inbox EXCEPT ![c] = Append(@, f)]
  /\ nsent' = nsent + 1
  /\ UNCHANGED <<caller, attrs, calls, rd, nconn, sock, code>>

\* NIP-42 allows a challenge at any time, so also in the middle of a session.
Challenge(c) ==
  /\ SendFrame(c, [t |-> "AUTH", n |-> nsent + 1])
  /\ UNCHANGED relay

AnswerAuth(c, a, acc) ==
  /\ a \in toAuth[c]
  /\ SendFrame(c, [t |-> "OK", of |-> a, acc |-> acc])
  /\ verdict' = verdict \cup {<<c, acc>>}
  /\ UNCHANGED <<toAuth, toOk, reqs>>

AnswerEvent(c, e, acc) ==
  /\ e \in toOk[c]
  /\ SendFrame(c, [t |-> "OK", of |-> e, acc |-> acc])
  /\ verdict' = verdict \cup {<<e, acc>>}
  /\ UNCHANGED <<toAuth, toOk, reqs>>

Garble(c) ==
  /\ ~FramesWellFormed
  /\ SendFrame(c, [t |-> "MALFORMED"])
  /\ UNCHANGED relay

Stream(c, id) ==
  /\ id \in reqs[c]
  /\ \/ \E t \in {"EVENT", "EOSE"} : SendFrame(c, [t |-> t, id |-> id]) /\ UNCHANGED reqs
     \/ /\ SendFrame(c, [t |-> "CLOSED", id |-> id])
        /\ reqs' = [reqs EXCEPT ![c] = @ \ {id}]
  /\ UNCHANGED <<toAuth, toOk, verdict>>

Lose(c) ==
  /\ sock[c] = "open"
  /\ \E k \in Codes \cup {None} : code' = [code EXCEPT ![c] = k]
  /\ sock' = [sock EXCEPT ![c] = "lost"]
  /\ Forget(c)
  /\ UNCHANGED <<caller, attrs, calls, rd, nconn, inbox, nsent>>

Relay(c) ==
  \/ Challenge(c) \/ Garble(c)
  \/ \E a \in AuthIds, acc \in BOOLEAN : AnswerAuth(c, a, acc)
  \/ \E e \in Events, acc \in BOOLEAN : AnswerEvent(c, e, acc)
  \/ \E id \in Ids : Stream(c, id)
  \/ Lose(c)

-----------------------------------------------------------------------------
Connect == ConnectBegin \/ ConnectRefused \/ ConnectOpened \/ ConnectDone
Close   == CloseBegin \/ CloseSocket \/ CloseRaises \/ CloseDone

Next ==
  \/ Connect \/ AuthTimeout \/ Close
  \/ \E c \in Conns : ReadLoop(c) \/ Relay(c)
  \/ \E s \in Subs : Subscribe(s) \/ Iterate(s) \/ Abandon(s)
  \/ \E p \in Pubs : Publish(p) \/ PublishTimeout(p)

\* The event loop runs every ready task, and the consumer of an iterator
\* keeps asking for the next item.  Nothing is assumed of the relay, of the
\* network, of the caller's next call, or of the timers.
Fairness ==
  /\ WF_vars(ConnectDone)
  /\ WF_vars(pc = "authing" /\ CloseBegin)
  /\ WF_vars(CloseSocket) /\ WF_vars(CloseRaises) /\ WF_vars(CloseDone)
  /\ \A c \in Conns : WF_vars(ReadLoop(c))
  /\ \A s \in Subs : WF_vars(Iterate(s))

Spec == Init /\ [][Next]_vars
FairSpec == Spec /\ Fairness

-----------------------------------------------------------------------------
(* Properties *)

TypeOK ==
  /\ pc \in {"idle", "opening", "authing", "awaiting", "closing"}
  /\ up \in Conns \cup {NoConn} /\ ws \in Conns \cup {NoConn}
  /\ reader \in Conns \cup {NoConn}
  /\ auth \in [st : {"none", "pending", "ok", "error", "cancelled"},
               by : Conns \cup {NoConn}]
  /\ authId \in AuthIds \cup {0}
  /\ closeCode \in Codes \cup {None}
  /\ subs \in [Ids -> Subs \cup {None}] /\ pending \in [Events -> Pubs \cup {None}]
  /\ rd \in [Conns -> {"none", "running", "cancelled", "done", "failed"}]
  /\ iter \in [Subs -> {"idle", "waiting", "done", "failed"}]
  /\ on \in [Subs -> Conns \cup {NoConn}]
  /\ queue \in [Subs -> Seq(Items)]
  /\ pub \in [Pubs -> {"idle", "waiting", "accepted", "rejected", "timeout", "failed"}]
  /\ nconn \in 0..MaxConn /\ nsent \in 0..MaxFrames
  /\ sock \in [Conns -> {"none", "open", "lost", "closing", "closed"}]
  /\ code \in [Conns -> Codes \cup {None}]
  /\ inbox \in [Conns -> Seq(Frame)]
  /\ toAuth \in [Conns -> SUBSET AuthIds] /\ toOk \in [Conns -> SUBSET Events]
  /\ reqs \in [Conns -> SUBSET Ids]
  /\ verdict \subseteq (Conns \cup Events) \X BOOLEAN

\* An iterator that waits can still be woken: the reader of its connection
\* runs and its queue is the registered one, or the final "closed" is already
\* in its queue.  ("on a dropped socket, active subscriptions receive a final
\* closed and their iterators stop", client.py:13-14.)
Alive(c) == c # NoConn /\ rd[c] \in {"running", "cancelled"}
HasClosed(s) == \E i \in 1..Len(queue[s]) : queue[s][i] = "closed"
NoOrphanIterator ==
  \A s \in Subs : iter[s] = "waiting" =>
    \/ HasClosed(s)
    \/ Registered(s) /\ Alive(on[s])

\* The outcome of a connect() is decided by the connection it opened, never
\* by a leftover of an earlier one (client.py:416-418, 430-438, 472-475).
SettledByOwnConnection ==
  auth.st \in {"ok", "error"} =>
    auth.by = IF pc = "opening" THEN nconn + 1 ELSE nconn

\* When connect() has returned, the relay has accepted an AUTH event that was
\* sent on that very connection (client.py:414).
ConnectedMeansAuthed == up # NoConn => <<up, TRUE>> \in verdict

\* publish() reports a verdict only if the relay gave that verdict on its own
\* event, whatever other publish() waits and however often and on whichever event
\* the relay says OK: a late, repeated or foreign one changes nothing
\* (client.py:495-511).
PublishTruthful ==
  \A p \in Pubs :
    /\ pub[p] = "accepted" => <<EvOf[p], TRUE>> \in verdict
    /\ pub[p] = "rejected" => <<EvOf[p], FALSE>> \in verdict

\* A connect() that failed and a close() that ended leave no socket open and
\* no reader running: "Cancel the reader task and close the WebSocket"
\* (client.py:547; 426-428).
CloseLeavesNothing ==
  pc = "idle" /\ up = NoConn =>
    \A c \in Conns : sock[c] \notin {"open", "closing"} /\ ~Alive(c)

\* close_code belongs to the last connection, and that connection is lost
\* ("None while connected", client.py:87-91).
CloseCodeIsCurrent ==
  closeCode # None =>
    nconn # 0 /\ sock[nconn] # "open" /\ code[nconn] = closeCode

\* The client holds one connection at a time: only the newest socket is in use,
\* it is self._ws, and no other reader task is alive or still to be awaited.
\* In each phase of connect() and close() the attributes agree with the tasks.
\* (client.py:420-428, 546-555.)
OneConnection ==
  /\ \A c \in Conns : sock[c] = "none" <=> c > nconn
  /\ \A c \in Conns : sock[c] \in {"open", "closing"} => c = ws
  /\ \A c \in Conns : Alive(c) => c = ws /\ c = reader
  /\ ws # NoConn => ws = nconn
  /\ reader # NoConn => reader = ws
  /\ pc = "opening" =>
       /\ ws = NoConn \/ IsLost(ws)
       /\ \A c \in Conns : ~Alive(c)
       /\ auth.st = "pending" /\ closeCode = None
  /\ pc = "authing" => ws # NoConn
  /\ pc = "closing" => reader = NoConn
  /\ \A c \in Conns : sock[c] = "closing" => pc = "closing"
  /\ \A c \in Conns : rd[c] = "cancelled" => pc = "awaiting"

\* After the connection is lost every iterator waiting on it stops (client.py:
\* 13-14), unless an exception had killed the reader before.
ReaderFailed(c) == c # NoConn /\ rd[c] = "failed"
IteratorsStop ==
  \A s \in Subs :
    (iter[s] = "waiting" /\ IsLost(on[s]))
      ~> (iter[s] # "waiting" \/ ReaderFailed(on[s]))

\* connect() fails as soon as the connection is lost, its reader dies or its
\* rejection is read; it does not need the 20 s timer (client.py:416-418).
FailsFast ==
  (pc = "authing" /\ (IsLost(ws) \/ ~Alive(ws) \/ auth.st = "error"))
     ~> pc # "authing"

\* A close() ends, whatever the relay does.
CloseReturns == pc \in {"awaiting", "closing"} ~> pc = "idle"
=============================================================================
