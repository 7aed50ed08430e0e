------------------------- MODULE BuzzSessionProofs -------------------------
(* Proofs about BuzzSession for every value of its constants. *)
EXTENDS BuzzSession, TLAPS

-----------------------------------------------------------------------------
(* What the helpers shared by several actions do to the types. *)

LEMMA GrowType ==
  ASSUME NEW A, NEW X, NEW f \in [A -> SUBSET X], NEW a \in A, NEW x \in X
  PROVE  /\ [f EXCEPT ![a] = @ \cup {x}] \in [A -> SUBSET X]
         /\ [f EXCEPT ![a] = @ \ {x}] \in [A -> SUBSET X]
<1>1. f[a] \cup {x} \in SUBSET X /\ f[a] \ {x} \in SUBSET X OBVIOUS
<1> QED BY <1>1

LEMMA ReceiveType ==
  ASSUME TypeOK, NEW c \in Conns, Receive(c)
  PROVE  inbox' \in [Conns -> Seq(Frame)] /\ Head(inbox[c]) \in Frame
BY DEF TypeOK, Receive

LEMMA SendFrameType ==
  ASSUME TypeOK, NEW c \in Conns, NEW f \in Frame, SendFrame(c, f)
  PROVE  inbox' \in [Conns -> Seq(Frame)] /\ nsent' \in 0..MaxFrames
BY SessionAssumption DEF TypeOK, SendFrame, SessionAssumption

LEMMA ChallengeId ==
  ASSUME TypeOK, nsent < MaxFrames
  PROVE  nsent + 1 \in AuthIds
BY SessionAssumption DEF TypeOK, SessionAssumption, AuthIds

LEMMA PutType ==
  ASSUME TypeOK, NEW id \in Ids, NEW item \in Items, Put(id, item)
  PROVE  queue' \in [Subs -> Seq(Items)]
BY DEF TypeOK, Put

LEMMA ClosedToAllType ==
  ASSUME TypeOK
  PROVE  ClosedToAll \in [Subs -> Seq(Items)]
BY DEF TypeOK, ClosedToAll, Items

LEMMA ReaderExitType ==
  ASSUME TypeOK, NEW c \in Conns, NEW how \in {"done", "failed"}, ReaderExit(c, how)
  PROVE  /\ rd' \in [Conns -> {"none", "running", "cancelled", "done", "failed"}]
         /\ auth' \in [st : {"none", "pending", "ok", "error", "cancelled"},
                       by : Conns \cup {NoConn}]
         /\ queue' \in [Subs -> Seq(Items)]
<1>1. queue' \in [Subs -> Seq(Items)]
  BY ClosedToAllType DEF ReaderExit
<1>2. rd' \in [Conns -> {"none", "running", "cancelled", "done", "failed"}]
  BY DEF TypeOK, ReaderExit
<1>3. auth' \in [st : {"none", "pending", "ok", "error", "cancelled"},
                 by : Conns \cup {NoConn}]
  BY DEF TypeOK, ReaderExit, SettleAuth
<1> QED BY <1>1, <1>2, <1>3

LEMMA IterExitType ==
  ASSUME TypeOK, NEW s \in Subs, IterExit(s)
  PROVE  /\ iter' \in [Subs -> {"idle", "waiting", "done", "failed"}]
         /\ subs' \in [Ids -> Subs \cup {None}]
         /\ reqs' \in [Conns -> SUBSET Ids]
<1> IdOf[s] \in Ids BY SessionAssumption DEF SessionAssumption
<1>1. iter' \in [Subs -> {"idle", "waiting", "done", "failed"}]
  BY DEF TypeOK, IterExit
<1>2. subs' \in [Ids -> Subs \cup {None}]
  BY DEF TypeOK, IterExit, Unregister
<1>3. reqs' \in [Conns -> SUBSET Ids]
  <2>1. CASE IsOpen(ws)
    <3>1. ws \in Conns BY <2>1 DEF TypeOK, IsOpen
    <3>2. reqs' = [reqs EXCEPT ![ws] = @ \ {IdOf[s]}] BY <2>1 DEF IterExit
    <3> QED BY <3>1, <3>2, GrowType DEF TypeOK
  <2>2. CASE ~IsOpen(ws) BY <2>2 DEF TypeOK, IterExit
  <2> QED BY <2>1, <2>2
<1> QED BY <1>1, <1>2, <1>3

-----------------------------------------------------------------------------
(* TypeOK is inductive only with the bound on sockets that ConnectBegin has
   already checked when ConnectOpened opens one. *)

RoomToOpen == pc = "opening" => nconn < MaxConn
TypeInv == TypeOK /\ RoomToOpen

LEMMA TypeInit == Init => TypeInv
BY SessionAssumption
DEF Init, TypeInv, TypeOK, RoomToOpen, SessionAssumption, Conns, NoConn, AuthIds

LEMMA TypeNext == TypeInv /\ [Next]_vars => TypeInv'
<1> SUFFICES ASSUME TypeInv, [Next]_vars PROVE TypeInv'
  OBVIOUS
<1> USE SessionAssumption DEF SessionAssumption, TypeInv, TypeOK, RoomToOpen, caller, attrs, calls, net, relay
<1>1. CASE ConnectBegin BY <1>1 DEF ConnectBegin, NoConn
<1>2. CASE ConnectRefused BY <1>2 DEF ConnectRefused
<1>3. CASE ConnectOpened 
  <2>1. nconn' \in Conns BY <1>3 DEF ConnectOpened, Conns
  <2> QED BY <1>3, <2>1 DEF ConnectOpened
<1>4. CASE ConnectDone BY <1>4 DEF ConnectDone
<1>5. CASE AuthTimeout BY <1>5 DEF AuthTimeout, CancelAuth, CancelReader, NoConn
<1>6. CASE CloseBegin BY <1>6 DEF CloseBegin, CancelReader, NoConn
<1>7. CASE CloseSocket BY <1>7, ZenonT(30) DEF CloseSocket, Forget, IsOpen, NoConn
<1>8. CASE CloseRaises BY <1>8 DEF CloseRaises
<1>9. CASE CloseDone BY <1>9 DEF CloseDone, NoConn
<1>10. ASSUME NEW c \in Conns, OnSubscriptionFrame(c) PROVE TypeInv'
  <2>1. inbox' \in [Conns -> Seq(Frame)] /\ Head(inbox[c]) \in Frame
    BY <1>10, ReceiveType DEF OnSubscriptionFrame
  <2>2. queue' \in [Subs -> Seq(Items)]
    BY <1>10, <2>1, PutType DEF OnSubscriptionFrame, Frame, Items
  <2> QED BY <1>10, <2>1, <2>2 DEF OnSubscriptionFrame, Receive
<1>11. ASSUME NEW c \in Conns, OnAuthChallenge(c) PROVE TypeInv'
  <2>1. inbox' \in [Conns -> Seq(Frame)] /\ Head(inbox[c]) \in Frame
    BY <1>11, ReceiveType DEF OnAuthChallenge
  <2>2. CASE ReaderExit(c, "failed") /\ UNCHANGED <<authId, closeCode, toAuth>>
    BY <1>11, <2>1, <2>2, ReaderExitType DEF OnAuthChallenge, Receive
  <2>3. CASE authId' = Head(inbox[c]).n
    <3>1. authId' \in AuthIds
      BY <1>11, <2>1, <2>3 DEF OnAuthChallenge, Frame
    <3>2. CASE /\ IsOpen(ws) /\ UNCHANGED <<rd, auth, queue, closeCode>>
               /\ toAuth' = [toAuth EXCEPT ![ws] = @ \cup {authId'}]
      <4>1. ws \in Conns BY <3>2 DEF IsOpen
      <4>2. toAuth' \in [Conns -> SUBSET AuthIds] BY <3>1, <3>2, <4>1
      <4> QED BY <1>11, <2>1, <3>1, <3>2, <4>2 DEF OnAuthChallenge, Receive
    <3>3. CASE /\ closeCode' \in Codes \cup {None} /\ UNCHANGED toAuth
               /\ ReaderExit(c, "done") \/ ReaderExit(c, "failed")
      BY <1>11, <2>1, <3>1, <3>3, ReaderExitType DEF OnAuthChallenge, Receive
    <3> QED BY <1>11, <2>3, <3>2, <3>3 DEF OnAuthChallenge, NoConn
  <2> QED BY <1>11, <2>2, <2>3 DEF OnAuthChallenge
<1>12. ASSUME NEW c \in Conns, OnOk(c) PROVE TypeInv'
  <2>1. inbox' \in [Conns -> Seq(Frame)] /\ Head(inbox[c]) \in Frame
    BY <1>12, ReceiveType DEF OnOk
  <2>2. CASE Head(inbox[c]).of = authId
    BY <1>12, <2>1, <2>2, SMTT(30) DEF OnOk, Receive, SettleAuth, AuthVerdict
  <2>3. CASE Head(inbox[c]).of # authId
    <3>1. pub' \in [Pubs -> {"idle", "waiting", "accepted", "rejected", "timeout", "failed"}]
      BY <1>12, <2>3 DEF OnOk, Verdict
    <3>2. pending' \in [Events -> Pubs \cup {None}]
      BY <1>12, <2>3 DEF OnOk
    <3> QED BY <1>12, <2>1, <2>3, <3>1, <3>2 DEF OnOk, Receive
  <2> QED BY <2>2, <2>3
<1>13. ASSUME NEW c \in Conns, ReadLost(c) PROVE TypeInv'
  BY <1>13, ReaderExitType DEF ReadLost
<1>14. ASSUME NEW c \in Conns, ReadCancelled(c) PROVE TypeInv'
  BY <1>14, ReaderExitType DEF ReadCancelled
<1>15. ASSUME NEW s \in Subs, Subscribe(s) PROVE TypeInv'
  <2>1. ws \in Conns /\ IdOf[s] \in Ids BY <1>15 DEF Subscribe, MayCall
  <2>2. reqs' = [reqs EXCEPT ![ws] = @ \cup {IdOf[s]}] \/ UNCHANGED reqs
    BY <1>15 DEF Subscribe
  <2>3. reqs' \in [Conns -> SUBSET Ids]
    <3>1. reqs \in [Conns -> SUBSET Ids] OBVIOUS
    <3> HIDE DEF TypeOK
    <3> QED BY <2>1, <2>2, <3>1, GrowType
  <2>4. \E st \in {"waiting", "failed"} : iter' = [iter EXCEPT ![s] = st]
    BY <1>15 DEF Subscribe
  <2>5. iter' \in [Subs -> {"idle", "waiting", "done", "failed"}] BY <2>4
  <2> QED BY <1>15, <2>1, <2>3, <2>5 DEF Subscribe
<1>16. ASSUME NEW s \in Subs, Iterate(s) PROVE TypeInv'
  <2>1. queue' \in [Subs -> Seq(Items)] BY <1>16 DEF Iterate
  <2>2. CASE IterExit(s) BY <1>16, <2>1, <2>2, IterExitType DEF Iterate
  <2>3. CASE UNCHANGED <<iter, subs, reqs>> BY <1>16, <2>1, <2>3 DEF Iterate
  <2> QED BY <1>16, <2>2, <2>3 DEF Iterate
<1>17. ASSUME NEW s \in Subs, Abandon(s) PROVE TypeInv'
  BY <1>17, IterExitType DEF Abandon
<1>18. ASSUME NEW p \in Pubs, Publish(p) PROVE TypeInv'
  <2>1. ws \in Conns /\ EvOf[p] \in Events BY <1>18 DEF Publish, MayCall
  <2>2. toOk' = [toOk EXCEPT ![ws] = @ \cup {EvOf[p]}] \/ UNCHANGED toOk
    BY <1>18 DEF Publish
  <2>3. toOk' \in [Conns -> SUBSET Events]
    <3>1. toOk \in [Conns -> SUBSET Events] OBVIOUS
    <3> HIDE DEF TypeOK
    <3> QED BY <2>1, <2>2, <3>1, GrowType
  <2>4. \E st \in {"waiting", "failed"} : pub' = [pub EXCEPT ![p] = st]
    BY <1>18 DEF Publish
  <2>5. pub' \in [Pubs -> {"idle", "waiting", "accepted", "rejected", "timeout", "failed"}]
    BY <2>4
  <2> QED BY <1>18, <2>1, <2>3, <2>5 DEF Publish
<1>19. ASSUME NEW p \in Pubs, PublishTimeout(p) PROVE TypeInv'
  BY <1>19 DEF PublishTimeout
<1>20. ASSUME NEW c \in Conns, Challenge(c) PROVE TypeInv'
  <2>1. [t |-> "AUTH", n |-> nsent + 1] \in Frame
    BY <1>20, ChallengeId DEF Challenge, SendFrame, Frame
  <2> QED BY <1>20, <2>1, SendFrameType DEF Challenge, SendFrame
<1>21. ASSUME NEW c \in Conns, NEW a \in AuthIds, NEW acc \in BOOLEAN, AnswerAuth(c, a, acc)
       PROVE  TypeInv'
  <2>1. [t |-> "OK", of |-> a, acc |-> acc] \in Frame BY DEF Frame
  <2> QED BY <1>21, <2>1, SendFrameType DEF AnswerAuth, SendFrame
<1>22. ASSUME NEW c \in Conns, NEW e \in Events, NEW acc \in BOOLEAN, AnswerEvent(c, e, acc)
       PROVE  TypeInv'
  <2>1. [t |-> "OK", of |-> e, acc |-> acc] \in Frame BY DEF Frame
  <2> QED BY <1>22, <2>1, SendFrameType DEF AnswerEvent, SendFrame
<1>23. ASSUME NEW c \in Conns, NEW id \in Ids, Stream(c, id) PROVE TypeInv'
  <2>1. \A t \in {"EVENT", "EOSE", "CLOSED"} : [t |-> t, id |-> id] \in Frame BY DEF Frame
  <2>2. PICK t \in {"EVENT", "EOSE", "CLOSED"} : SendFrame(c, [t |-> t, id |-> id])
    BY <1>23 DEF Stream
  <2>3. inbox' \in [Conns -> Seq(Frame)] /\ nsent' \in 0..MaxFrames
    BY <2>1, <2>2, SendFrameType
  <2>4. reqs' \in [Conns -> SUBSET Ids] BY <1>23 DEF Stream
  <2> QED BY <1>23, <2>2, <2>3, <2>4 DEF Stream, SendFrame
<1>24. ASSUME NEW c \in Conns, Lose(c) PROVE TypeInv'
  BY <1>24 DEF Lose, Forget
<1>25. ASSUME NEW c \in Conns, OnMalformed(c) PROVE TypeInv'
  <2>1. inbox' \in [Conns -> Seq(Frame)]
    BY <1>25, ReceiveType DEF OnMalformed
  <2> QED BY <1>25, <2>1, ReaderExitType DEF OnMalformed, Receive
<1>26. ASSUME NEW c \in Conns, Garble(c) PROVE TypeInv'
  <2>1. [t |-> "MALFORMED"] \in Frame BY DEF Frame
  <2> QED BY <1>26, <2>1, SendFrameType DEF Garble, SendFrame
<1>27. CASE UNCHANGED vars BY <1>27 DEF vars
<1> QED
  <2> HIDE DEF TypeInv
  <2>1. ASSUME NEW c \in Conns, ReadLoop(c) PROVE TypeInv'
    BY <2>1, <1>10, <1>11, <1>12, <1>13, <1>14, <1>25 DEF ReadLoop
  <2>2. ASSUME NEW c \in Conns, Relay(c) PROVE TypeInv'
    BY <2>2, <1>20, <1>21, <1>22, <1>23, <1>24, <1>26 DEF Relay
  <2> QED
    BY <1>1, <1>2, <1>3, <1>4, <1>5, <1>6, <1>7, <1>8, <1>9, <1>15, <1>16, <1>17, <1>18, <1>19,
       <1>27, <2>1, <2>2 DEF Next, Connect, Close

\* Every variable of the session keeps its type, whatever the relay sends and
\* in whatever order calls, losses and closes come.
THEOREM TypeCorrect == Spec => []TypeOK
<1>1. TypeInv => TypeOK BY DEF TypeInv
<1> QED BY <1>1, TypeInit, TypeNext, PTL DEF Spec
-----------------------------------------------------------------------------
(* One connection at a time.  It needs a caller that reconnects only once the
   reader of the lost connection is over. *)

phase == <<pc, ws, reader, nconn, sock, rd, auth, closeCode>>

LEMMA OneConnectionStutter == OneConnection /\ UNCHANGED phase => OneConnection'
BY DEF OneConnection, phase, IsLost, Alive

LEMMA OneConnectionInit == Init => OneConnection
BY SessionAssumption DEF Init, OneConnection, IsLost, Alive, Conns, NoConn, SessionAssumption

LEMMA OneConnectionNext ==
  ASSUME ~EagerReconnect, TypeInv, OneConnection, [Next]_vars
  PROVE  OneConnection'
<1> USE DEF caller, attrs, calls, net, relay
<1>a. /\ nconn \in Nat /\ nconn <= MaxConn /\ MaxConn \in Nat
      /\ ws \in Conns \cup {NoConn} /\ reader \in Conns \cup {NoConn}
      /\ rd \in [Conns -> {"none", "running", "cancelled", "done", "failed"}]
      /\ sock \in [Conns -> {"none", "open", "lost", "closing", "closed"}]
      /\ pc \in {"idle", "opening", "authing", "awaiting", "closing"}
  BY SessionAssumption DEF TypeInv, TypeOK, SessionAssumption
<1>b. pc = "opening" => nconn < MaxConn BY DEF TypeInv, RoomToOpen
<1>c. Conns = 1..MaxConn /\ NoConn = 0 BY DEF Conns, NoConn
<1>1. CASE ConnectBegin
  BY <1>a, <1>c, <1>1 DEF ConnectBegin, MayConnect, OneConnection, Alive, IsLost
<1>2. CASE ConnectRefused
  BY <1>a, <1>c, <1>2 DEF ConnectRefused, OneConnection, Alive, IsLost
<1>3. CASE ConnectOpened
  BY <1>a, <1>b, <1>c, <1>3 DEF ConnectOpened, OneConnection, Alive, IsLost
<1>4. CASE ConnectDone
  BY <1>a, <1>c, <1>4 DEF ConnectDone, OneConnection, Alive, IsLost
<1>5. CASE AuthTimeout
  BY <1>a, <1>c, <1>5 DEF AuthTimeout, CancelAuth, CancelReader, OneConnection, Alive, IsLost
<1>6. CASE CloseBegin
  BY <1>a, <1>c, <1>6 DEF CloseBegin, CancelReader, OneConnection, Alive, IsLost
<1>7. CASE CloseSocket
  BY <1>a, <1>c, <1>7 DEF CloseSocket, ReaderOver, IsOpen, OneConnection, Alive, IsLost
<1>8. CASE CloseRaises
  BY <1>a, <1>c, <1>8 DEF CloseRaises, OneConnection, Alive, IsLost
<1>9. CASE CloseDone
  BY <1>a, <1>c, <1>9 DEF CloseDone, OneConnection, Alive, IsLost
<1>10. ASSUME NEW c \in Conns, ReadLoop(c) PROVE OneConnection'
  <2>1. UNCHANGED <<pc, ws, reader, nconn, sock>>
    BY <1>10 DEF ReadLoop, OnSubscriptionFrame, OnAuthChallenge, OnOk, OnMalformed, ReadLost,
              ReadCancelled, Receive
  <2>2. Alive(c)
    BY <1>10, <1>c DEF ReadLoop, OnSubscriptionFrame, OnAuthChallenge, OnOk, OnMalformed,
                    ReadLost, ReadCancelled, Receive, Alive
  <2>3. pc # "opening" BY <2>2 DEF OneConnection
  <2>4. rd' = rd \/ \E how \in {"done", "failed"} : rd' = [rd EXCEPT ![c] = how]
    BY <1>10 DEF ReadLoop, OnSubscriptionFrame, OnAuthChallenge, OnOk, OnMalformed, ReadLost,
              ReadCancelled, ReaderExit
  <2> QED BY <1>a, <1>c, <2>1, <2>2, <2>3, <2>4 DEF OneConnection, Alive, IsLost
<1>11. ASSUME NEW c \in Conns, Lose(c) PROVE OneConnection'
  BY <1>a, <1>c, <1>11 DEF Lose, OneConnection, Alive, IsLost
<1>12. ASSUME NEW c \in Conns, Relay(c), ~Lose(c) PROVE OneConnection'
  <2>1. UNCHANGED phase
    BY <1>12 DEF Relay, Challenge, Garble, AnswerAuth, AnswerEvent, Stream, SendFrame, phase
  <2> QED BY <2>1, OneConnectionStutter
<1>13. ASSUME NEW s \in Subs, Subscribe(s) \/ Iterate(s) \/ Abandon(s) PROVE OneConnection'
  <2>1. UNCHANGED phase
    BY <1>13 DEF Subscribe, Iterate, Abandon, phase
  <2> QED BY <2>1, OneConnectionStutter
<1>14. ASSUME NEW p \in Pubs, Publish(p) \/ PublishTimeout(p) PROVE OneConnection'
  <2>1. UNCHANGED phase
    BY <1>14 DEF Publish, PublishTimeout, phase
  <2> QED BY <2>1, OneConnectionStutter
<1>15. CASE UNCHANGED vars
  BY <1>15, OneConnectionStutter DEF vars, phase
<1> QED
  BY <1>1, <1>2, <1>3, <1>4, <1>5, <1>6, <1>7, <1>8, <1>9, <1>10, <1>11, <1>12, <1>13, <1>14, <1>15
  DEF Next, Connect, Close

\* When every caller waits for the old reader, the client never has two
\* sockets or two readers, whatever the relay does.
THEOREM OneConnectionCorrect == ~EagerReconnect => (Spec => []OneConnection)
<1> SUFFICES ASSUME ~EagerReconnect PROVE Spec => []OneConnection OBVIOUS
<1> DEFINE Inv == TypeInv /\ OneConnection
<1>1. Init => Inv BY TypeInit, OneConnectionInit
<1>2. Inv /\ [Next]_vars => Inv' BY TypeNext, OneConnectionNext
<1>3. Inv => OneConnection OBVIOUS
<1> QED BY <1>1, <1>2, <1>3, PTL DEF Spec
-----------------------------------------------------------------------------
(* Verdicts.  An OK frame on its way carries the relay's verdict: on the event
   it names, or on the AUTH event of the connection that carries it.  No frame
   is malformed unless the relay may send such. *)

TrueFrame(c, f, V) ==
  /\ f.t = "OK" =>
       /\ f.of \in Events => <<f.of, f.acc>> \in V
       /\ f.of \in AuthIds => <<c, f.acc>> \in V
  /\ f.t = "MALFORMED" => ~FramesWellFormed

FramesTruthful ==
  \A c \in Conns : \A i \in 1..Len(inbox[c]) : TrueFrame(c, inbox[c][i], verdict)

LEMMA FramesStutter ==
  FramesTruthful /\ UNCHANGED <<inbox, verdict>> => FramesTruthful'
BY DEF FramesTruthful

LEMMA FramesReceive ==
  ASSUME TypeOK, FramesTruthful, NEW c \in Conns, Receive(c), UNCHANGED verdict
  PROVE  FramesTruthful' /\ TrueFrame(c, Head(inbox[c]), verdict)
<1>1. inbox[c] \in Seq(Frame) /\ inbox[c] # << >> BY DEF TypeOK, Receive
<1>2. TrueFrame(c, inbox[c][1], verdict) BY <1>1 DEF FramesTruthful
<1>3. inbox' = [inbox EXCEPT ![c] = Tail(@)] /\ inbox \in [Conns -> Seq(Frame)]
  BY DEF TypeOK, Receive
<1>4. ASSUME NEW d \in Conns, NEW i \in 1..Len(inbox'[d])
      PROVE  TrueFrame(d, inbox'[d][i], verdict')
  <2>1. CASE d = c
    <3>1. inbox'[d] = Tail(inbox[c]) BY <1>3, <2>1
    <3>2. i + 1 \in 1..Len(inbox[c]) /\ inbox'[d][i] = inbox[c][i + 1]
      BY <1>1, <1>4, <3>1
    <3> QED BY <2>1, <3>2 DEF FramesTruthful
  <2>2. CASE d # c BY <1>3, <1>4, <2>2 DEF FramesTruthful
  <2> QED BY <2>1, <2>2
<1> QED BY <1>1, <1>2, <1>4 DEF FramesTruthful

LEMMA FramesSend ==
  ASSUME TypeOK, FramesTruthful, NEW c \in Conns, NEW f \in Frame, SendFrame(c, f),
         verdict \subseteq verdict', TrueFrame(c, f, verdict')
  PROVE  FramesTruthful'
<1>1. inbox' = [inbox EXCEPT ![c] = Append(@, f)] /\ inbox \in [Conns -> Seq(Frame)]
  BY DEF TypeOK, SendFrame
<1>2. ASSUME NEW d \in Conns, NEW i \in 1..Len(inbox'[d])
      PROVE  TrueFrame(d, inbox'[d][i], verdict')
  <2>1. CASE i \in 1..Len(inbox[d])
    <3>1. inbox'[d][i] = inbox[d][i] BY <1>1, <1>2, <2>1
    <3>2. TrueFrame(d, inbox[d][i], verdict) BY <2>1 DEF FramesTruthful
    <3> QED BY <3>1, <3>2 DEF TrueFrame
  <2>2. CASE i \notin 1..Len(inbox[d])
    <3>1. d = c /\ i = Len(inbox[c]) + 1 BY <1>1, <1>2, <2>2
    <3>2. inbox'[d][i] = f BY <1>1, <3>1
    <3> QED BY <3>1, <3>2
  <2> QED BY <2>1, <2>2
<1> QED BY <1>2 DEF FramesTruthful

LEMMA FramesInit == Init => FramesTruthful
<1> SUFFICES ASSUME Init, NEW c \in Conns PROVE Len(inbox[c]) = 0
  BY DEF FramesTruthful
<1> QED BY DEF Init

LEMMA FramesNext ==
  ASSUME TypeOK, FramesTruthful, [Next]_vars
  PROVE  FramesTruthful' /\ verdict \subseteq verdict'
<1> USE DEF caller, attrs, calls, net, relay
<1>1. CASE Connect \/ AuthTimeout
  <2>1. UNCHANGED <<inbox, verdict>>
    BY <1>1 DEF Connect, ConnectBegin, ConnectRefused, ConnectOpened, ConnectDone, AuthTimeout
  <2> QED BY <2>1, FramesStutter
<1>2. CASE Close
  <2>1. UNCHANGED <<inbox, verdict>>
    BY <1>2 DEF Close, CloseBegin, CloseSocket, CloseRaises, CloseDone, Forget
  <2> QED BY <2>1, FramesStutter
<1>3. ASSUME NEW c \in Conns, ReadLoop(c) PROVE FramesTruthful' /\ verdict \subseteq verdict'
  <2>1. CASE Receive(c)
    <3>1. UNCHANGED verdict
      BY <1>3 DEF ReadLoop, OnSubscriptionFrame, OnAuthChallenge, OnOk, OnMalformed,
                  ReadLost, ReadCancelled
    <3> QED BY <2>1, <3>1, FramesReceive
  <2>2. CASE ReadLost(c) \/ ReadCancelled(c)
    <3>1. UNCHANGED <<inbox, verdict>> BY <2>2 DEF ReadLost, ReadCancelled
    <3> QED BY <3>1, FramesStutter
  <2> QED BY <1>3, <2>1, <2>2 DEF ReadLoop, OnSubscriptionFrame, OnAuthChallenge, OnOk, OnMalformed
<1>4. ASSUME NEW c \in Conns, Challenge(c) PROVE FramesTruthful' /\ verdict \subseteq verdict'
  <2> DEFINE f == [t |-> "AUTH", n |-> nsent + 1]
  <2>1. f \in Frame BY <1>4, ChallengeId DEF Challenge, SendFrame, Frame
  <2>2. SendFrame(c, f) /\ verdict' = verdict BY <1>4 DEF Challenge
  <2>3. TrueFrame(c, f, verdict') BY DEF TrueFrame
  <2> HIDE DEF f
  <2> QED BY <2>1, <2>2, <2>3, FramesSend
<1>5. ASSUME NEW c \in Conns, NEW a \in AuthIds, NEW acc \in BOOLEAN, AnswerAuth(c, a, acc)
      PROVE  FramesTruthful' /\ verdict \subseteq verdict'
  <2> DEFINE f == [t |-> "OK", of |-> a, acc |-> acc]
  <2>1. f \in Frame BY DEF Frame
  <2>2. SendFrame(c, f) /\ verdict' = verdict \cup {<<c, acc>>} BY <1>5 DEF AnswerAuth
  <2>3. a \notin Events BY SessionAssumption DEF SessionAssumption, AuthIds
  <2>4. TrueFrame(c, f, verdict') BY <2>2, <2>3 DEF TrueFrame
  <2> HIDE DEF f
  <2> QED BY <2>1, <2>2, <2>4, FramesSend
<1>6. ASSUME NEW c \in Conns, NEW e \in Events, NEW acc \in BOOLEAN, AnswerEvent(c, e, acc)
      PROVE  FramesTruthful' /\ verdict \subseteq verdict'
  <2> DEFINE f == [t |-> "OK", of |-> e, acc |-> acc]
  <2>1. f \in Frame BY DEF Frame
  <2>2. SendFrame(c, f) /\ verdict' = verdict \cup {<<e, acc>>} BY <1>6 DEF AnswerEvent
  <2>3. e \notin AuthIds BY SessionAssumption DEF SessionAssumption, AuthIds
  <2>4. TrueFrame(c, f, verdict') BY <2>2, <2>3 DEF TrueFrame
  <2> HIDE DEF f
  <2> QED BY <2>1, <2>2, <2>4, FramesSend
<1>7. ASSUME NEW c \in Conns, NEW id \in Ids, Stream(c, id)
      PROVE  FramesTruthful' /\ verdict \subseteq verdict'
  <2>1. PICK t \in {"EVENT", "EOSE", "CLOSED"} : SendFrame(c, [t |-> t, id |-> id])
    BY <1>7 DEF Stream
  <2> DEFINE f == [t |-> t, id |-> id]
  <2>2. f \in Frame BY DEF Frame
  <2>3. SendFrame(c, f) /\ verdict' = verdict BY <1>7, <2>1 DEF Stream
  <2>4. TrueFrame(c, f, verdict') BY DEF TrueFrame
  <2> HIDE DEF f
  <2> QED BY <2>2, <2>3, <2>4, FramesSend
<1>8. ASSUME NEW c \in Conns, Lose(c) PROVE FramesTruthful' /\ verdict \subseteq verdict'
  BY <1>8, FramesStutter DEF Lose, Forget
<1>9. ASSUME NEW s \in Subs, Subscribe(s) \/ Iterate(s) \/ Abandon(s)
      PROVE  FramesTruthful' /\ verdict \subseteq verdict'
  BY <1>9, FramesStutter DEF Subscribe, Iterate, Abandon
<1>10. ASSUME NEW p \in Pubs, Publish(p) \/ PublishTimeout(p)
       PROVE  FramesTruthful' /\ verdict \subseteq verdict'
  BY <1>10, FramesStutter DEF Publish, PublishTimeout
<1>11. ASSUME NEW c \in Conns, Garble(c) PROVE FramesTruthful' /\ verdict \subseteq verdict'
  <2> DEFINE f == [t |-> "MALFORMED"]
  <2>1. f \in Frame BY DEF Frame
  <2>2. SendFrame(c, f) /\ verdict' = verdict BY <1>11 DEF Garble
  <2>3. TrueFrame(c, f, verdict') BY <1>11 DEF Garble, TrueFrame
  <2> HIDE DEF f
  <2> QED BY <2>1, <2>2, <2>3, FramesSend
<1>12. CASE UNCHANGED vars BY <1>12, FramesStutter DEF vars
<1> QED
  BY <1>1, <1>2, <1>3, <1>4, <1>5, <1>6, <1>7, <1>8, <1>9, <1>10, <1>11, <1>12
  DEF Next, Relay

LEMMA PublishNext ==
  ASSUME TypeOK, FramesTruthful, PublishTruthful, [Next]_vars
  PROVE  PublishTruthful'
<1>1. verdict \subseteq verdict' BY FramesNext
<1>2. pub \in [Pubs -> {"idle", "waiting", "accepted", "rejected", "timeout", "failed"}]
  BY DEF TypeOK
<1> USE DEF caller, attrs, calls, net, relay
<1>3. CASE UNCHANGED pub BY <1>1, <1>3 DEF PublishTruthful
<1>4. ASSUME NEW q \in Pubs, NEW st \in {"waiting", "failed", "timeout"},
             pub' = [pub EXCEPT ![q] = st]
      PROVE  PublishTruthful'
  BY <1>1, <1>2, <1>4 DEF PublishTruthful
<1>5. ASSUME NEW q \in Pubs, Publish(q) \/ PublishTimeout(q) PROVE PublishTruthful'
  BY <1>4, <1>5 DEF Publish, PublishTimeout
<1>6. ASSUME NEW c \in Conns, OnOk(c) PROVE PublishTruthful'
  <2> DEFINE f == Head(inbox[c])
  <2>1. f \in Frame /\ f.t = "OK" BY <1>6, ReceiveType DEF OnOk
  <2>2. f.acc \in BOOLEAN BY <2>1 DEF Frame
  <2>3. UNCHANGED verdict /\ Receive(c) BY <1>6 DEF OnOk
  <2>4. TrueFrame(c, f, verdict) BY <2>3, FramesReceive
  <2>5. CASE UNCHANGED pub BY <2>5, <1>3
  <2>6. CASE pub' = [p \in Pubs |-> IF AwaitsOk(p, f.of) THEN Verdict(f.acc) ELSE pub[p]]
    <3> HIDE DEF f
    <3>1. ASSUME NEW p \in Pubs, AwaitsOk(p, f.of)
          PROVE  <<EvOf[p], f.acc>> \in verdict
      <4>1. EvOf[p] = f.of /\ f.of \in Events
        BY <3>1, SessionAssumption DEF AwaitsOk, SessionAssumption
      <4> QED BY <2>1, <2>4, <4>1 DEF TrueFrame
    <3>2. ASSUME NEW p \in Pubs
          PROVE  /\ pub'[p] = "accepted" => <<EvOf[p], TRUE>> \in verdict'
                 /\ pub'[p] = "rejected" => <<EvOf[p], FALSE>> \in verdict'
      <4>1. CASE AwaitsOk(p, f.of) /\ f.acc
        <5>1. f.acc = TRUE BY <2>2, <4>1
        <5>2. pub'[p] = "accepted" BY <2>6, <4>1 DEF Verdict
        <5> QED BY <2>3, <3>1, <4>1, <5>1, <5>2
      <4>2. CASE AwaitsOk(p, f.of) /\ ~f.acc
        <5>1. f.acc = FALSE BY <2>2, <4>2
        <5>2. pub'[p] = "rejected" BY <2>6, <4>2 DEF Verdict
        <5> QED BY <2>3, <3>1, <4>2, <5>1, <5>2
      <4>3. CASE ~AwaitsOk(p, f.of)
        <5>1. pub'[p] = pub[p] BY <2>6, <4>3
        <5> QED BY <2>3, <5>1 DEF PublishTruthful
      <4> QED BY <4>1, <4>2, <4>3
    <3> QED BY <3>2 DEF PublishTruthful
  <2> QED BY <1>6, <2>5, <2>6 DEF OnOk
<1>7. CASE UNCHANGED vars BY <1>3, <1>7 DEF vars
<1>8. ASSUME NEW c \in Conns, ReadLoop(c), ~OnOk(c) PROVE UNCHANGED pub
  BY <1>8 DEF ReadLoop, OnSubscriptionFrame, OnAuthChallenge, OnMalformed, ReadLost, ReadCancelled
<1>9. ASSUME NEW c \in Conns, Relay(c) PROVE UNCHANGED pub
  BY <1>9 DEF Relay, Challenge, Garble, AnswerAuth, AnswerEvent, Stream, SendFrame, Lose
<1>10. ASSUME NEW s \in Subs, Subscribe(s) \/ Iterate(s) \/ Abandon(s) PROVE UNCHANGED pub
  BY <1>10 DEF Subscribe, Iterate, Abandon
<1>11. ASSUME Connect \/ AuthTimeout PROVE UNCHANGED pub
  BY <1>11 DEF Connect, ConnectBegin, ConnectRefused, ConnectOpened, ConnectDone, AuthTimeout
<1>12. ASSUME Close PROVE UNCHANGED pub
  BY <1>12 DEF Close, CloseBegin, CloseSocket, CloseRaises, CloseDone
<1> QED BY <1>3, <1>5, <1>6, <1>7, <1>8, <1>9, <1>10, <1>11, <1>12 DEF Next

\* publish() never reports a verdict the relay did not give on that event:
\* with any number of calls, events, connections, losses and late answers.
THEOREM PublishTruthfulCorrect == Spec => []PublishTruthful
<1> DEFINE Inv == TypeInv /\ FramesTruthful /\ PublishTruthful
<1>1. Init => Inv BY TypeInit, FramesInit DEF Init, PublishTruthful
<1>2. Inv /\ [Next]_vars => Inv'
  BY TypeNext, FramesNext, PublishNext DEF TypeInv
<1>3. Inv => PublishTruthful OBVIOUS
<1> QED BY <1>1, <1>2, <1>3, PTL DEF Spec
-----------------------------------------------------------------------------
(* Outcomes.  With one connection at a time, what connect() and close_code
   report comes from the newest connection. *)

AuthOkTruthful == auth.st = "ok" => <<auth.by, TRUE>> \in verdict

Outcomes ==
  SettledByOwnConnection /\ CloseCodeIsCurrent /\ AuthOkTruthful /\ ConnectedMeansAuthed

LEMMA OutcomesStutter ==
  ASSUME Outcomes, verdict \subseteq verdict',
         UNCHANGED <<pc, up, auth, closeCode, nconn, sock, code>>
  PROVE  Outcomes'
BY DEF Outcomes, SettledByOwnConnection, CloseCodeIsCurrent, AuthOkTruthful, ConnectedMeansAuthed

\* What one step of the reader may do to the fields the outcomes speak of.
LEMMA ReaderOutcome ==
  ASSUME TypeOK, FramesTruthful, NEW c \in Conns, ReadLoop(c)
  PROVE  /\ Alive(c)
         /\ UNCHANGED <<pc, up, ws, nconn, sock, code, verdict>>
         /\ \/ UNCHANGED auth
            \/ auth.st = "pending" /\ auth' = [st |-> "error", by |-> c]
            \/ /\ auth.st = "pending" /\ auth' = [st |-> "ok", by |-> c]
               /\ <<c, TRUE>> \in verdict
         /\ \/ UNCHANGED closeCode
            \/ sock[c] = "lost" /\ closeCode' = code[c]
            \/ ws # NoConn /\ ~IsOpen(ws) /\ closeCode' = code[ws]
<1> USE DEF caller, attrs, calls, net, relay
<1>c. c # NoConn BY DEF Conns, NoConn
<1>1. CASE OnSubscriptionFrame(c)
  BY <1>1, <1>c DEF OnSubscriptionFrame, Receive, Alive
<1>2. CASE OnAuthChallenge(c)
  BY <1>2, <1>c DEF OnAuthChallenge, Receive, Alive, ReaderExit, SettleAuth
<1>3. CASE ReadLost(c) \/ ReadCancelled(c)
  BY <1>3, <1>c DEF ReadLost, ReadCancelled, Alive, ReaderExit, SettleAuth
<1>4. CASE OnOk(c)
  <2> DEFINE f == Head(inbox[c])
  <2>1. f \in Frame /\ f.t = "OK" BY <1>4, ReceiveType DEF OnOk
  <2>2. f.acc \in BOOLEAN /\ f.of \in AuthIds \cup Events BY <2>1 DEF Frame
  <2>3. Alive(c) /\ UNCHANGED <<pc, up, ws, nconn, sock, code, verdict, closeCode>>
    BY <1>4, <1>c DEF OnOk, Receive, Alive
  <2>4. TrueFrame(c, f, verdict) BY <1>4, FramesReceive DEF OnOk
  <2>5. CASE UNCHANGED auth BY <2>3, <2>5
  <2>6. CASE f.of = authId /\ SettleAuth(c, AuthVerdict(f.acc)) /\ ~UNCHANGED auth
    <3>1. f.of \in AuthIds
      BY <2>2, <2>6, SessionAssumption DEF TypeOK, SessionAssumption, AuthIds
    <3>2. <<c, f.acc>> \in verdict BY <2>1, <2>4, <3>1 DEF TrueFrame
    <3> HIDE DEF f
    <3>3. auth.st = "pending" /\ auth' = [st |-> AuthVerdict(f.acc), by |-> c]
      BY <2>6 DEF SettleAuth
    <3>4. CASE f.acc
      <4>1. f.acc = TRUE BY <2>2, <3>4
      <4>2. AuthVerdict(f.acc) = "ok" BY <3>4 DEF AuthVerdict
      <4> QED BY <2>3, <3>2, <3>3, <4>1, <4>2
    <3>5. CASE ~f.acc
      <4>1. AuthVerdict(f.acc) = "error" BY <3>5 DEF AuthVerdict
      <4> QED BY <2>3, <3>3, <4>1
    <3> QED BY <3>4, <3>5
  <2> QED BY <1>4, <2>5, <2>6 DEF OnOk
<1>5. CASE OnMalformed(c)
  BY <1>5, <1>c DEF OnMalformed, Receive, Alive, ReaderExit, SettleAuth
<1> QED BY <1>1, <1>2, <1>3, <1>4, <1>5 DEF ReadLoop

LEMMA OutcomesNext ==
  ASSUME ~EagerReconnect, TypeInv, OneConnection, FramesTruthful, Outcomes, [Next]_vars
  PROVE  Outcomes'
<1> USE DEF caller, attrs, calls, net, relay
<1>t. TypeOK BY DEF TypeInv
<1>v. verdict \subseteq verdict' BY <1>t, FramesNext
<1>a. /\ nconn \in Nat /\ nconn <= MaxConn /\ MaxConn \in Nat
      /\ ws \in Conns \cup {NoConn} /\ up \in Conns \cup {NoConn}
      /\ sock \in [Conns -> {"none", "open", "lost", "closing", "closed"}]
      /\ code \in [Conns -> Codes \cup {None}]
      /\ pc \in {"idle", "opening", "authing", "awaiting", "closing"}
  BY <1>t, SessionAssumption DEF TypeOK, SessionAssumption
<1>b. pc = "opening" => nconn < MaxConn BY DEF TypeInv, RoomToOpen
<1>c. Conns = 1..MaxConn /\ NoConn = 0 BY DEF Conns, NoConn
<1> USE DEF Outcomes, SettledByOwnConnection, CloseCodeIsCurrent, AuthOkTruthful, ConnectedMeansAuthed
<1>1. CASE ConnectBegin BY <1>1, <1>v DEF ConnectBegin
<1>2. CASE ConnectRefused
  BY <1>2, <1>v DEF ConnectRefused, OneConnection
<1>3. CASE ConnectOpened
  BY <1>3, <1>v DEF ConnectOpened, OneConnection
<1>4. CASE ConnectDone
  <2>1. ws = nconn /\ auth.by = nconn BY <1>4 DEF ConnectDone, OneConnection
  <2> QED BY <1>4, <1>v, <2>1 DEF ConnectDone
<1>5. CASE AuthTimeout
  BY <1>5, <1>v DEF AuthTimeout, CancelAuth
<1>6. CASE CloseBegin BY <1>6, <1>v DEF CloseBegin
<1>7. CASE CloseSocket BY <1>7, <1>a, <1>c, <1>v DEF CloseSocket, IsOpen
<1>8. CASE CloseRaises BY <1>8, <1>v DEF CloseRaises
<1>9. CASE CloseDone BY <1>9, <1>a, <1>c, <1>v DEF CloseDone
<1>10. ASSUME NEW c \in Conns, ReadLoop(c) PROVE Outcomes'
  <2>1. Alive(c) /\ UNCHANGED <<pc, up, ws, nconn, sock, code, verdict>>
    BY <1>t, <1>10, ReaderOutcome
  <2>2. ws = c /\ nconn = c /\ pc # "opening" BY <2>1, <1>c DEF OneConnection
  <2>3. (SettledByOwnConnection /\ AuthOkTruthful)'
    <3>1. CASE UNCHANGED auth BY <2>1, <2>2, <3>1
    <3>2. CASE auth' = [st |-> "error", by |-> c] BY <2>1, <2>2, <3>2
    <3>3. CASE auth' = [st |-> "ok", by |-> c] /\ <<c, TRUE>> \in verdict
      BY <2>1, <2>2, <3>3
    <3> QED BY <1>t, <1>10, <3>1, <3>2, <3>3, ReaderOutcome
  <2>4. CloseCodeIsCurrent'
    <3>1. CASE UNCHANGED closeCode BY <2>1, <3>1
    <3>2. CASE sock[c] # "open" /\ closeCode' = code[c] BY <1>c, <2>1, <2>2, <3>2
    <3>3. sock[c] = "lost" => sock[c] # "open" OBVIOUS
    <3>4. ws # NoConn /\ ~IsOpen(ws) => sock[c] # "open" BY <2>2 DEF IsOpen
    <3> QED BY <1>t, <1>10, <2>2, <3>1, <3>2, <3>3, <3>4, ReaderOutcome
  <2> QED BY <2>1, <2>3, <2>4
<1>11. ASSUME NEW c \in Conns, Lose(c) PROVE Outcomes'
  BY <1>11, <1>a, <1>c, <1>v DEF Lose
<1>12. ASSUME NEW c \in Conns, Relay(c), ~Lose(c) PROVE Outcomes'
  <2>1. UNCHANGED <<pc, up, auth, closeCode, nconn, sock, code>>
    BY <1>12 DEF Relay, Challenge, Garble, AnswerAuth, AnswerEvent, Stream, SendFrame
  <2> QED BY <1>v, <2>1, OutcomesStutter
<1>13. ASSUME NEW s \in Subs, Subscribe(s) \/ Iterate(s) \/ Abandon(s) PROVE Outcomes'
  <2>1. UNCHANGED <<pc, up, auth, closeCode, nconn, sock, code>>
    BY <1>13 DEF Subscribe, Iterate, Abandon
  <2> QED BY <1>v, <2>1, OutcomesStutter
<1>14. ASSUME NEW p \in Pubs, Publish(p) \/ PublishTimeout(p) PROVE Outcomes'
  <2>1. UNCHANGED <<pc, up, auth, closeCode, nconn, sock, code>>
    BY <1>14 DEF Publish, PublishTimeout
  <2> QED BY <1>v, <2>1, OutcomesStutter
<1>15. CASE UNCHANGED vars
  <2>1. UNCHANGED <<pc, up, auth, closeCode, nconn, sock, code>> BY <1>15 DEF vars
  <2> QED BY <1>v, <2>1, OutcomesStutter
<1> QED
  BY <1>1, <1>2, <1>3, <1>4, <1>5, <1>6, <1>7, <1>8, <1>9, <1>10, <1>11, <1>12, <1>13, <1>14, <1>15
  DEF Next, Connect, Close

\* The three outcomes, each a theorem below.
LEMMA OutcomesHold ==
  ~EagerReconnect =>
    (Spec => [](SettledByOwnConnection /\ ConnectedMeansAuthed /\ CloseCodeIsCurrent))
<1> SUFFICES ASSUME ~EagerReconnect
             PROVE  Spec => [](SettledByOwnConnection /\ ConnectedMeansAuthed /\ CloseCodeIsCurrent)
  OBVIOUS
<1> DEFINE Inv == TypeInv /\ OneConnection /\ FramesTruthful /\ Outcomes
<1>1. Init => Inv
  BY TypeInit, OneConnectionInit, FramesInit
  DEF Init, Outcomes, SettledByOwnConnection, CloseCodeIsCurrent, AuthOkTruthful, ConnectedMeansAuthed
<1>2. Inv /\ [Next]_vars => Inv'
  BY TypeNext, OneConnectionNext, FramesNext, OutcomesNext DEF TypeInv
<1>3. Inv => SettledByOwnConnection /\ ConnectedMeansAuthed /\ CloseCodeIsCurrent
  BY DEF Outcomes
<1> QED BY <1>1, <1>2, <1>3, PTL DEF Spec
\* When every caller waits for the old reader, connect() is settled by an answer
\* or the loss of its own connection, not by an older one (client.py:430-438).
THEOREM SettledCorrect == ~EagerReconnect => (Spec => []SettledByOwnConnection)
BY OutcomesHold, PTL

\* When every caller waits for the old reader, a connect() that returned was
\* accepted by the relay on that connection (client.py:425-428, 493).
THEOREM ConnectedCorrect == ~EagerReconnect => (Spec => []ConnectedMeansAuthed)
BY OutcomesHold, PTL

\* When every caller waits for the old reader, close_code is that of the last, lost
\* connection (client.py:87, 468-470).
THEOREM CloseCodeCorrect == ~EagerReconnect => (Spec => []CloseCodeIsCurrent)
BY OutcomesHold, PTL

-----------------------------------------------------------------------------
(* Nothing is left behind.  Each of the five conditions is needed: TLC finds a
   counterexample as soon as one of them is dropped. *)

Orderly ==
  /\ ~EagerReconnect /\ ~CallsDuringClose /\ AuthTagParses /\ FramesWellFormed
  /\ \A s, r \in Subs : IdOf[s] = IdOf[r] => s = r

\* An open socket has a live reader, except while close() waits for it.
Tended ==
  /\ \A c \in Conns : rd[c] # "failed"
  /\ \A c \in Conns : sock[c] = "open" /\ pc # "awaiting" => Alive(c)
  /\ CloseLeavesNothing

LEMMA TendedStutter ==
  Tended /\ UNCHANGED <<pc, up, sock, rd>> => Tended'
BY DEF Tended, CloseLeavesNothing, Alive

LEMMA TendedNext ==
  ASSUME Orderly, TypeInv, OneConnection, FramesTruthful, Tended, [Next]_vars
  PROVE  Tended'
<1> USE DEF caller, attrs, calls, net, relay
<1>a. /\ nconn \in Nat /\ nconn <= MaxConn /\ MaxConn \in Nat
      /\ ws \in Conns \cup {NoConn} /\ up \in Conns \cup {NoConn}
      /\ reader \in Conns \cup {NoConn}
      /\ sock \in [Conns -> {"none", "open", "lost", "closing", "closed"}]
      /\ rd \in [Conns -> {"none", "running", "cancelled", "done", "failed"}]
      /\ pc \in {"idle", "opening", "authing", "awaiting", "closing"}
  BY SessionAssumption DEF TypeInv, TypeOK, SessionAssumption
<1>b. pc = "opening" => nconn < MaxConn BY DEF TypeInv, RoomToOpen
<1>c. Conns = 1..MaxConn /\ NoConn = 0 BY DEF Conns, NoConn
<1>1. CASE ConnectBegin
  BY <1>1 DEF ConnectBegin, Tended, CloseLeavesNothing, Alive
<1>2. CASE ConnectRefused
  BY <1>2 DEF ConnectRefused, Tended, CloseLeavesNothing, Alive, OneConnection
<1>3. CASE ConnectOpened
  BY <1>a, <1>b, <1>c, <1>3 DEF ConnectOpened, Tended, CloseLeavesNothing, Alive, OneConnection
<1>4. CASE ConnectDone
  BY <1>4 DEF ConnectDone, Tended, CloseLeavesNothing, Alive, OneConnection
<1>5. CASE AuthTimeout
  BY <1>a, <1>c, <1>5 DEF AuthTimeout, CancelReader, Tended, CloseLeavesNothing, Alive
<1>6. CASE CloseBegin
  BY <1>a, <1>c, <1>6 DEF CloseBegin, CancelReader, Tended, CloseLeavesNothing, Alive
<1>7. CASE CloseSocket
  BY <1>a, <1>c, <1>7 DEF CloseSocket, IsOpen, Tended, CloseLeavesNothing, Alive, OneConnection
<1>8. CASE CloseRaises
  BY <1>a, <1>8 DEF CloseRaises, Tended
<1>9. CASE CloseDone
  BY <1>a, <1>c, <1>9 DEF CloseDone, Tended, CloseLeavesNothing, Alive, OneConnection
<1>10. ASSUME NEW c \in Conns, OnSubscriptionFrame(c) \/ OnOk(c) PROVE Tended'
  <2>1. UNCHANGED <<pc, up, sock, rd>> BY <1>10 DEF OnSubscriptionFrame, OnOk, Receive
  <2> QED BY <2>1, TendedStutter
<1>11. ASSUME NEW c \in Conns, OnAuthChallenge(c) PROVE Tended'
  <2>1. UNCHANGED <<pc, up, sock>> /\ Alive(c)
    BY <1>11, <1>c DEF OnAuthChallenge, Receive, Alive
  <2>2. c = ws /\ ws # NoConn BY <2>1, <1>c DEF OneConnection
  <2>3. CASE UNCHANGED rd BY <2>1, <2>3, TendedStutter
  <2>4. CASE rd' = [rd EXCEPT ![c] = "done"] /\ sock[c] # "open"
    BY <1>a, <2>1, <2>4 DEF Tended, CloseLeavesNothing, Alive
  <2> QED BY <1>11, <2>2, <2>3, <2>4 DEF OnAuthChallenge, ReaderExit, Orderly, IsOpen
<1>12. ASSUME NEW c \in Conns, ReadLost(c) PROVE Tended'
  BY <1>a, <1>12 DEF ReadLost, ReaderExit, Tended, CloseLeavesNothing, Alive
<1>13. ASSUME NEW c \in Conns, ReadCancelled(c) PROVE Tended'
  BY <1>a, <1>13 DEF ReadCancelled, ReaderExit, Tended, CloseLeavesNothing, Alive, OneConnection
<1>14. ASSUME NEW c \in Conns, Lose(c) PROVE Tended'
  BY <1>a, <1>14 DEF Lose, Tended, CloseLeavesNothing, Alive
<1>15. ASSUME NEW c \in Conns, Relay(c), ~Lose(c) PROVE Tended'
  <2>1. UNCHANGED <<pc, up, sock, rd>>
    BY <1>15 DEF Relay, Challenge, Garble, AnswerAuth, AnswerEvent, Stream, SendFrame
  <2> QED BY <2>1, TendedStutter
<1>16. ASSUME NEW s \in Subs, Subscribe(s) \/ Iterate(s) \/ Abandon(s) PROVE Tended'
  <2>1. UNCHANGED <<pc, up, sock, rd>> BY <1>16 DEF Subscribe, Iterate, Abandon
  <2> QED BY <2>1, TendedStutter
<1>17. ASSUME NEW p \in Pubs, Publish(p) \/ PublishTimeout(p) PROVE Tended'
  <2>1. UNCHANGED <<pc, up, sock, rd>> BY <1>17 DEF Publish, PublishTimeout
  <2> QED BY <2>1, TendedStutter
<1>18. CASE UNCHANGED vars BY <1>18, TendedStutter DEF vars
<1>19. ASSUME NEW c \in Conns, OnMalformed(c) PROVE FALSE
  BY <1>19, FramesReceive DEF OnMalformed, TypeInv, TrueFrame, Orderly
<1> QED
  BY <1>1, <1>2, <1>3, <1>4, <1>5, <1>6, <1>7, <1>8, <1>9, <1>10, <1>11, <1>12, <1>13, <1>14, <1>15,
     <1>16, <1>17, <1>18, <1>19 DEF Next, Connect, Close, ReadLoop

-----------------------------------------------------------------------------
LEMMA AppendClosed ==
  ASSUME NEW q \in Seq(Items), NEW item \in Items
  PROVE  /\ Append(q, item) \in Seq(Items)
         /\ (\E i \in 1..Len(q) : q[i] = "closed")
              => \E i \in 1..Len(Append(q, item)) : Append(q, item)[i] = "closed"
         /\ item = "closed"
              => \E i \in 1..Len(Append(q, item)) : Append(q, item)[i] = "closed"
<1>1. Len(Append(q, item)) = Len(q) + 1 /\ Append(q, item)[Len(q) + 1] = item OBVIOUS
<1>2. \A i \in 1..Len(q) : Append(q, item)[i] = q[i] OBVIOUS
<1> QED BY <1>1, <1>2

LEMMA TailClosed ==
  ASSUME NEW q \in Seq(Items), q # << >>, Head(q) # "closed", NEW i \in 1..Len(q), q[i] = "closed"
  PROVE  \E j \in 1..Len(Tail(q)) : Tail(q)[j] = "closed"
<1>1. i # 1 /\ i - 1 \in 1..Len(Tail(q)) /\ Tail(q)[i - 1] = q[i] OBVIOUS
<1> QED BY <1>1

\* Queues may only grow and iterators may only leave "waiting" in a step that
\* keeps registrations and live readers.
LEMMA OrphanStutter ==
  ASSUME NoOrphanIterator, UNCHANGED <<iter, subs, on>>,
         \A s \in Subs : HasClosed(s) => HasClosed(s)',
         \A c \in Conns : Alive(c) => Alive(c)',
         on \in [Subs -> Conns \cup {NoConn}]
  PROVE  NoOrphanIterator'
<1> SUFFICES ASSUME NEW s \in Subs, iter[s] = "waiting"
             PROVE  HasClosed(s)' \/ (Registered(s) /\ Alive(on[s])')
  BY DEF NoOrphanIterator, Registered, Alive
<1>1. Alive(on[s]) => Alive(on[s])' BY DEF Alive
<1> QED BY <1>1 DEF NoOrphanIterator

LEMMA OrphanNext ==
  ASSUME Orderly, TypeInv, OneConnection, Tended, NoOrphanIterator, [Next]_vars
  PROVE  NoOrphanIterator'
<1> USE DEF caller, attrs, calls, net, relay
<1>t. TypeOK BY DEF TypeInv
<1>a. /\ queue \in [Subs -> Seq(Items)] /\ iter \in [Subs -> {"idle", "waiting", "done", "failed"}]
      /\ subs \in [Ids -> Subs \cup {None}] /\ on \in [Subs -> Conns \cup {NoConn}]
      /\ rd \in [Conns -> {"none", "running", "cancelled", "done", "failed"}]
      /\ ws \in Conns \cup {NoConn} /\ reader \in Conns \cup {NoConn}
      /\ IdOf \in [Subs -> Ids] /\ None \notin Subs
  BY <1>t, SessionAssumption DEF TypeOK, SessionAssumption
<1>b. UNCHANGED queue => \A s \in Subs : HasClosed(s) => HasClosed(s)' BY DEF HasClosed
<1>c. UNCHANGED rd => \A c \in Conns : Alive(c) => Alive(c)' BY DEF Alive
<1>1. CASE Connect
  <2>1. UNCHANGED <<iter, subs, on, queue>>
    BY <1>1 DEF Connect, ConnectBegin, ConnectRefused, ConnectOpened, ConnectDone
  <2>2. \A c \in Conns : Alive(c) => Alive(c)'
    BY <1>1, <1>a DEF Connect, ConnectBegin, ConnectRefused, ConnectOpened, ConnectDone, Alive
  <2> QED BY <1>a, <1>b, <2>1, <2>2, OrphanStutter
<1>2. CASE AuthTimeout \/ Close
  <2>1. UNCHANGED <<iter, subs, on, queue>>
    BY <1>2 DEF AuthTimeout, Close, CloseBegin, CloseSocket, CloseRaises, CloseDone
  <2>2. \A c \in Conns : Alive(c) => Alive(c)'
    BY <1>2, <1>a DEF AuthTimeout, Close, CloseBegin, CloseSocket, CloseRaises, CloseDone, CancelReader, Alive
  <2> QED BY <1>a, <1>b, <2>1, <2>2, OrphanStutter
<1>3. ASSUME NEW c \in Conns, NEW how, ReaderExit(c, how), UNCHANGED <<iter, subs, on>>
      PROVE  NoOrphanIterator'
  <2> SUFFICES ASSUME NEW s \in Subs, iter[s] = "waiting" PROVE HasClosed(s)'
    BY <1>3 DEF NoOrphanIterator
  <2>1. queue[s] \in Seq(Items) /\ "closed" \in Items BY <1>a DEF Items
  <2>2. CASE Registered(s)
    <3>1. queue'[s] = Append(queue[s], "closed") BY <1>3, <2>2 DEF ReaderExit, ClosedToAll
    <3> QED BY <2>1, <3>1, AppendClosed DEF HasClosed
  <2>3. CASE ~Registered(s)
    <3>1. queue'[s] = queue[s] BY <1>3, <2>3 DEF ReaderExit, ClosedToAll
    <3> QED BY <2>3, <3>1 DEF NoOrphanIterator, HasClosed
  <2> QED BY <2>2, <2>3
<1>4. ASSUME NEW c \in Conns, OnSubscriptionFrame(c) PROVE NoOrphanIterator'
  <2>1. PICK item \in Items : Put(Head(inbox[c]).id, item)
    BY <1>4 DEF OnSubscriptionFrame, Items
  <2>2. ASSUME NEW s \in Subs, HasClosed(s) PROVE HasClosed(s)'
    <3>1. queue'[s] = queue[s] \/ queue'[s] = Append(queue[s], item) BY <2>1 DEF Put
    <3>2. queue[s] \in Seq(Items) BY <1>a
    <3> QED BY <2>2, <3>1, <3>2, AppendClosed DEF HasClosed
  <2>3. UNCHANGED <<iter, subs, on, rd>> BY <1>4 DEF OnSubscriptionFrame
  <2> QED BY <1>a, <1>c, <2>2, <2>3, OrphanStutter
<1>5. ASSUME NEW c \in Conns, OnAuthChallenge(c) PROVE NoOrphanIterator'
  <2>1. UNCHANGED <<iter, subs, on>> BY <1>5 DEF OnAuthChallenge
  <2>2. UNCHANGED <<rd, queue>> \/ \E how : ReaderExit(c, how) BY <1>5 DEF OnAuthChallenge
  <2> QED BY <1>a, <1>b, <1>c, <1>3, <2>1, <2>2, OrphanStutter
<1>6. ASSUME NEW c \in Conns, OnOk(c) PROVE NoOrphanIterator'
  <2>1. UNCHANGED <<iter, subs, on, queue, rd>> BY <1>6 DEF OnOk
  <2> QED BY <1>a, <1>b, <1>c, <2>1, OrphanStutter
<1>7. ASSUME NEW c \in Conns, ReadLost(c) \/ ReadCancelled(c) PROVE NoOrphanIterator'
  <2>1. UNCHANGED <<iter, subs, on>> /\ ReaderExit(c, "done")
    BY <1>7 DEF ReadLost, ReadCancelled
  <2> QED BY <1>3, <2>1
<1>15. ASSUME NEW c \in Conns, OnMalformed(c) PROVE NoOrphanIterator'
  <2>1. UNCHANGED <<iter, subs, on>> /\ ReaderExit(c, "failed")
    BY <1>15 DEF OnMalformed
  <2> QED BY <1>3, <2>1
<1>8. ASSUME NEW c \in Conns, Relay(c) PROVE NoOrphanIterator'
  <2>1. UNCHANGED <<iter, subs, on, queue, rd>>
    BY <1>8 DEF Relay, Challenge, Garble, AnswerAuth, AnswerEvent, Stream, SendFrame, Lose
  <2> QED BY <1>a, <1>b, <1>c, <2>1, OrphanStutter
<1>9. ASSUME NEW p \in Pubs, Publish(p) \/ PublishTimeout(p) PROVE NoOrphanIterator'
  <2>1. UNCHANGED <<iter, subs, on, queue, rd>> BY <1>9 DEF Publish, PublishTimeout
  <2> QED BY <1>a, <1>b, <1>c, <2>1, OrphanStutter
<1>10. ASSUME NEW s \in Subs, Subscribe(s) PROVE NoOrphanIterator'
  <2> SUFFICES ASSUME NEW r \in Subs, iter'[r] = "waiting"
               PROVE  HasClosed(r)' \/ (Registered(r) /\ Alive(on[r]))'
    BY DEF NoOrphanIterator
  <2>1. UNCHANGED <<queue, rd>> BY <1>10 DEF Subscribe
  <2>2. CASE r = s
    <3>1. IsOpen(ws) /\ pc = "idle" /\ ws # NoConn
      BY <1>10, <1>a, <2>2 DEF Subscribe, MayCall, Orderly
    <3>2. Alive(ws) BY <1>a, <3>1 DEF Tended, IsOpen
    <3>3. subs'[IdOf[r]] = r /\ on'[r] = ws BY <1>10, <1>a, <2>2 DEF Subscribe
    <3> QED BY <2>1, <3>2, <3>3 DEF Registered, Alive
  <2>3. CASE r # s
    <3>1. IdOf[r] # IdOf[s] BY <2>3 DEF Orderly
    <3>2. iter'[r] = iter[r] /\ on'[r] = on[r] /\ subs'[IdOf[r]] = subs[IdOf[r]]
      BY <1>10, <1>a, <2>3, <3>1 DEF Subscribe
    <3> QED BY <2>1, <3>2 DEF NoOrphanIterator, HasClosed, Registered, Alive
  <2> QED BY <2>2, <2>3
<1>11. ASSUME NEW s \in Subs, IterExit(s), UNCHANGED <<on, rd>>,
              \A r \in Subs : r # s => queue'[r] = queue[r]
       PROVE  NoOrphanIterator'
  <2> SUFFICES ASSUME NEW r \in Subs, iter'[r] = "waiting"
               PROVE  HasClosed(r)' \/ (Registered(r) /\ Alive(on[r]))'
    BY DEF NoOrphanIterator
  <2>1. r # s BY <1>11, <1>a DEF IterExit
  <2>2. IdOf[r] # IdOf[s] BY <2>1 DEF Orderly
  <2>3. iter[r] = "waiting" /\ subs'[IdOf[r]] = subs[IdOf[r]] /\ queue'[r] = queue[r]
    BY <1>11, <1>a, <2>1, <2>2 DEF IterExit, Unregister
  <2>4. HasClosed(r) \/ (Registered(r) /\ Alive(on[r])) BY <2>3 DEF NoOrphanIterator
  <2>5. HasClosed(r) => HasClosed(r)' BY <2>3 DEF HasClosed
  <2>6. Registered(r) /\ Alive(on[r]) => (Registered(r) /\ Alive(on[r]))'
    BY <1>11, <2>3 DEF Registered, Alive
  <2> QED BY <2>4, <2>5, <2>6
<1>12. ASSUME NEW s \in Subs, Abandon(s) PROVE NoOrphanIterator'
  BY <1>11, <1>12 DEF Abandon
<1>13. ASSUME NEW s \in Subs, Iterate(s) PROVE NoOrphanIterator'
  <2>1. queue' = [queue EXCEPT ![s] = Tail(@)] /\ UNCHANGED <<on, rd>> /\ queue[s] # << >>
    BY <1>13 DEF Iterate
  <2>2. CASE IterExit(s) BY <1>11, <1>a, <2>1, <2>2
  <2>3. CASE ~Ends(s, Head(queue[s])) /\ UNCHANGED <<iter, subs>>
    <3>1. Head(queue[s]) # "closed" BY <2>3 DEF Ends
    <3>2. ASSUME NEW r \in Subs, HasClosed(r) PROVE HasClosed(r)'
      <4>1. CASE r = s
        <5>1. queue[s] \in Seq(Items) /\ queue'[s] = Tail(queue[s]) BY <1>a, <2>1
        <5> QED BY <2>1, <3>1, <3>2, <4>1, <5>1, TailClosed DEF HasClosed
      <4>2. CASE r # s
        <5>1. queue'[r] = queue[r] BY <1>a, <2>1, <4>2
        <5> QED BY <3>2, <5>1 DEF HasClosed
      <4> QED BY <4>1, <4>2
    <3> QED BY <1>a, <1>c, <2>1, <2>3, <3>2, OrphanStutter
  <2> QED BY <1>13, <2>2, <2>3 DEF Iterate
<1>14. CASE UNCHANGED vars BY <1>14, <1>a, <1>b, <1>c, OrphanStutter DEF vars
<1> QED
  BY <1>1, <1>2, <1>4, <1>5, <1>6, <1>7, <1>8, <1>9, <1>10, <1>12, <1>13, <1>14,
     <1>15 DEF Next, ReadLoop

\* What is left behind, in two theorems below.
LEMMA NothingLeftBehind ==
  Orderly => (Spec => [](NoOrphanIterator /\ CloseLeavesNothing))
<1> SUFFICES ASSUME Orderly PROVE Spec => [](NoOrphanIterator /\ CloseLeavesNothing)
  OBVIOUS
<1> DEFINE Inv == TypeInv /\ OneConnection /\ FramesTruthful /\ Tended /\ NoOrphanIterator
<1>1. Init => Inv
  BY TypeInit, OneConnectionInit, FramesInit
  DEF Init, Tended, CloseLeavesNothing, NoOrphanIterator, Alive
<1>2. Inv /\ [Next]_vars => Inv'
  BY TypeNext, OneConnectionNext, FramesNext, TendedNext, OrphanNext DEF Orderly, TypeInv
<1>3. Inv => NoOrphanIterator /\ CloseLeavesNothing BY DEF Tended
<1> QED BY <1>1, <1>2, <1>3, PTL DEF Spec

\* Under orderly use no iterator is ever left waiting without a live reader or a
\* "closed" to come, for any number of calls and connections (client.py:472-477).
THEOREM NoOrphanCorrect == Orderly => (Spec => []NoOrphanIterator)
BY NothingLeftBehind, PTL

\* Under orderly use a failed connect() and a close() leave no socket open and no
\* reader running (client.py:426-428, 546-555).
THEOREM CloseCorrect == Orderly => (Spec => []CloseLeavesNothing)
BY NothingLeftBehind, PTL
=============================================================================
