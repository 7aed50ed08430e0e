------------------------ MODULE HuddleLifecycleProofs ------------------------
(***************************************************************************)
(* Proofs about HuddleLifecycle, for any number of tasks that call the      *)
(* client and any number of connections.                                    *)
(***************************************************************************)
EXTENDS HuddleLifecycle, TLAPS

\* Calls do not overlap, connect() is called without an I/O loop only, and is
\* cancelled, if at all, before _connect_impl has a socket or after it has failed.
Polite == ~Overlap /\ ~Again /\ CancelAt \subseteq {"resolving", "raised"}

Active == {"connect", "leave"}
Ended  == {"none", "done", "raised", "lost"}

-----------------------------------------------------------------------------
(* The inductive invariant *)

\* One call runs at a time, connect() without any coroutine but its own; leave()
\* calls that were cancelled may have theirs.
OneCall ==
  /\ \A t, u \in Callers : {call[t], call[u]} \subseteq Active => t = u
  /\ \A t \in Callers : call[t] = "connect" =>
       /\ loop /\ impl[t] \notin {"none", "saying", "sender", "pump", "lost"}
       /\ \A u \in Callers \ {t} : impl[u] \in Ended
  /\ \A t \in Callers :
       impl[t] \in {"resolving", "opening", "challenge", "joined"} => call[t] = "connect"

\* Without an I/O loop nothing is left, not even in the attributes.
Stopped ==
  ~loop => /\ ws = 0 /\ tasks = 0 /\ open = {}
           /\ \A t \in Callers : call[t] \notin Active /\ impl[t] \in Ended

\* No task is cut off.
NoneLost == \A n \in Conns, k \in Kinds : task[n][k] # "lost"

\* How far connect() has come.
Connecting ==
  \A t \in Callers : call[t] = "connect" =>
    /\ impl[t] \in {"resolving", "raised"} => ws = 0 /\ tasks = 0 /\ open = {}
    /\ impl[t] = "opening" =>
         ws = 0 /\ tasks = 0 /\ held[t] # 0 /\ open \subseteq {held[t]}
    /\ impl[t] \in {"challenge", "joined"} => ws # 0 /\ held[t] = ws /\ tasks = 0

\* How far a teardown has come: it awaits the tasks that the attributes name, if
\* they still name any, and closes the socket after both.
TearingDown ==
  \A t \in Callers :
    /\ impl[t] \in Kinds => tasks \in {0, held[t]}
    /\ impl[t] = "pump" /\ held[t] # 0 => task[held[t]]["sender"] = "over"
    /\ impl[t] = "closing" => held[t] # 0 /\ ws \in {0, held[t]} /\ tasks = 0
    /\ call[t] = "leave" /\ impl[t] = "done" => ws = 0 /\ tasks = 0

LInv == TypeOK /\ OneCall /\ Stopped /\ NoneLost /\ Connecting /\ TearingDown /\ OneSession

LEMMA StopThreadType ==
  ASSUME TypeOK, NEW t \in Callers, StopThread(t), call' = [call EXCEPT ![t] = "idle"]
  PROVE  /\ loop' \in BOOLEAN
         /\ task' \in [Conns -> [Kinds -> {"none", "running", "cancelling", "over",
                                           "crashed", "lost"}]]
         /\ impl' \in [Callers -> {"none", "resolving", "opening", "challenge", "joined",
                                   "saying", "sender", "pump", "closing", "done",
                                   "raised", "lost"}]
         /\ \A u \in Callers : impl'[u] = "none" <=> call'[u] = "idle"
BY DEF TypeOK, StopThread, Lost

\* A step that leaves the attributes alone, opens no socket, starts no task and
\* disturbs no connect() that is opening its socket keeps OneSession.
LEMMA SessionKept ==
  ASSUME OneSession, open' \subseteq open, UNCHANGED <<ws, tasks>>,
         \A t \in Callers :
           impl[t] = "opening" => impl'[t] = "opening" /\ held'[t] = held[t],
         \A n \in Conns, k \in Kinds :
           task'[n][k] \in {"running", "cancelling"} => task[n][k] \in {"running", "cancelling"}
  PROVE  OneSession'
<1>1. ASSUME NEW n \in open'
      PROVE  n = ws' \/ \E t \in Callers : impl'[t] = "opening" /\ held'[t] = n
  BY <1>1 DEF OneSession
<1> QED BY <1>1 DEF OneSession

LEMMA CallConnectStep ==
  ASSUME Polite, LInv, NEW t \in Callers, CallConnect(t) PROVE LInv'
<1> USE LifecycleAssumption DEF Conns, Kinds, Active, Ended, LInv, CallConnect, Begin, Step, Orderly, attrs, world
<1>1. TypeOK'
  BY DEF TypeOK
<1>2. OneCall'
  BY DEF TypeOK, OneCall, Stopped, Polite
<1>3. Stopped'
  BY DEF Stopped
<1>4. NoneLost'
  BY DEF NoneLost
<1>5. Connecting'
  BY DEF Stopped, Connecting, Polite
<1>6. TearingDown'
  BY DEF TearingDown
<1>7. OneSession'
  BY SessionKept DEF TypeOK
<1> QED BY <1>1, <1>2, <1>3, <1>4, <1>5, <1>6, <1>7 DEF LInv

LEMMA DialedStep ==
  ASSUME Polite, LInv, NEW t \in Callers, Dialed(t) PROVE LInv'
<1> USE LifecycleAssumption DEF Conns, Kinds, Active, Ended, LInv, Dialed, Hold, Step, attrs
<1>1. TypeOK'
  BY DEF TypeOK
<1>2. OneCall'
  BY DEF OneCall
<1>3. Stopped'
  BY DEF Stopped
<1>4. NoneLost'
  BY DEF NoneLost
<1>5. Connecting'
  BY DEF TypeOK, OneCall, Connecting
<1>6. TearingDown'
  BY DEF OneCall, TearingDown
<1>7. OneSession'
  <2>1. call[t] = "connect" /\ open = {} /\ tasks = 0 /\ ws = 0
    BY DEF OneCall, Connecting
  <2>2. open' = {socks'} /\ impl'[t] = "opening" /\ held'[t] = socks'
    BY <2>1 DEF TypeOK
  <2> QED BY <2>1, <2>2 DEF OneSession
<1> QED BY <1>1, <1>2, <1>3, <1>4, <1>5, <1>6, <1>7 DEF LInv

LEMMA OpenedStep ==
  ASSUME Polite, LInv, NEW t \in Callers, Opened(t) PROVE LInv'
<1> USE LifecycleAssumption DEF Conns, Kinds, Active, Ended, LInv, Opened, Step, world
<1>1. TypeOK'
  BY DEF TypeOK
<1>2. OneCall'
  BY DEF OneCall
<1>3. Stopped'
  BY DEF Stopped
<1>4. NoneLost'
  BY DEF NoneLost
<1>5. Connecting'
  BY DEF TypeOK, OneCall, Connecting
<1>6. TearingDown'
  BY DEF OneCall, TearingDown
<1>7. OneSession'
  BY DEF OneCall, Connecting, OneSession
<1> QED BY <1>1, <1>2, <1>3, <1>4, <1>5, <1>6, <1>7 DEF LInv

LEMMA OpenFailsStep ==
  ASSUME Polite, LInv, NEW t \in Callers, OpenFails(t) PROVE LInv'
<1> USE LifecycleAssumption DEF Conns, Kinds, Active, Ended, LInv, OpenFails, Step, attrs
<1>1. TypeOK'
  BY DEF TypeOK
<1>2. OneCall'
  BY DEF OneCall
<1>3. Stopped'
  BY DEF Stopped
<1>4. NoneLost'
  BY DEF NoneLost
<1>5. Connecting'
  BY DEF Connecting
<1>6. TearingDown'
  BY DEF TearingDown
<1>7. OneSession'
  BY DEF OneSession
<1> QED BY <1>1, <1>2, <1>3, <1>4, <1>5, <1>6, <1>7 DEF LInv

LEMMA ChallengedStep ==
  ASSUME Polite, LInv, NEW t \in Callers, Challenged(t) PROVE LInv'
<1> USE LifecycleAssumption DEF Conns, Kinds, Active, Ended, LInv, Challenged, Hold, Step, attrs, world
<1>1. TypeOK'
  BY DEF TypeOK
<1>2. OneCall'
  BY DEF OneCall
<1>3. Stopped'
  BY DEF Stopped
<1>4. NoneLost'
  BY DEF NoneLost
<1>5. Connecting'
  BY DEF Connecting
<1>6. TearingDown'
  BY DEF TearingDown
<1>7. OneSession'
  BY DEF OneSession
<1> QED BY <1>1, <1>2, <1>3, <1>4, <1>5, <1>6, <1>7 DEF LInv

LEMMA HandshakeFailsStep ==
  ASSUME Polite, LInv, NEW t \in Callers, HandshakeFails(t) PROVE LInv'
<1> USE LifecycleAssumption DEF Conns, Kinds, Active, Ended, LInv, HandshakeFails, Hold, Step, attrs, world
<1>1. TypeOK'
  <2>1. CASE Step(t, "raised") /\ UNCHANGED held
    BY <2>1 DEF TypeOK
  <2>2. CASE Step(t, "closing") /\ Hold(t, ws)
    BY <2>2 DEF TypeOK
  <2> QED BY <2>1, <2>2
<1>2. OneCall'
  BY DEF TypeOK, OneCall
<1>3. Stopped'
  BY DEF Stopped
<1>4. NoneLost'
  BY DEF NoneLost
<1>5. Connecting'
  BY DEF TypeOK, Connecting
<1>6. TearingDown'
  BY DEF TypeOK, OneCall, Connecting, TearingDown
<1>7. OneSession'
  BY SessionKept DEF TypeOK
<1> QED BY <1>1, <1>2, <1>3, <1>4, <1>5, <1>6, <1>7 DEF LInv

LEMMA JoinedStep ==
  ASSUME Polite, LInv, NEW t \in Callers, Joined(t) PROVE LInv'
<1> USE LifecycleAssumption DEF Conns, Kinds, Active, Ended, LInv, Joined, Step, world
<1>1. TypeOK'
  BY DEF TypeOK
<1>2. OneCall'
  BY DEF OneCall
<1>3. Stopped'
  BY DEF Stopped
<1>4. NoneLost'
  BY DEF NoneLost
<1>5. Connecting'
  BY DEF TypeOK, OneCall, Connecting
<1>6. TearingDown'
  BY DEF OneCall, TearingDown
<1>7. OneSession'
  BY DEF OneCall, Connecting, OneSession
<1> QED BY <1>1, <1>2, <1>3, <1>4, <1>5, <1>6, <1>7 DEF LInv

LEMMA CallLeaveStep ==
  ASSUME Polite, LInv, NEW t \in Callers, CallLeave(t) PROVE LInv'
<1> USE LifecycleAssumption DEF Conns, Kinds, Active, Ended, LInv, CallLeave, Begin, Step, Hold, Orderly, attrs, world
<1>1. TypeOK'
  <2>1. CASE Begin(t, "leave", "saying") /\ UNCHANGED held
    BY <2>1 DEF TypeOK
  <2>2. CASE Begin(t, "leave", "sender") /\ Hold(t, tasks)
    BY <2>2 DEF TypeOK
  <2> QED BY <2>1, <2>2
<1>2. OneCall'
  <2>1. \A u \in Callers : call[u] \notin Active
    BY DEF Polite, TypeOK
  <2>2. /\ call' = [call EXCEPT ![t] = "leave"]
        /\ impl' = [impl EXCEPT ![t] = "saying"] \/ impl' = [impl EXCEPT ![t] = "sender"]
    OBVIOUS
  <2> QED BY <2>1, <2>2 DEF OneCall, TypeOK
<1>3. Stopped'
  BY DEF Stopped
<1>4. NoneLost'
  BY DEF NoneLost
<1>5. Connecting'
  BY DEF TypeOK, Connecting
<1>6. TearingDown'
  BY SMTT(30) DEF TypeOK, TearingDown
<1>7. OneSession'
  BY SessionKept DEF TypeOK
<1> QED BY <1>1, <1>2, <1>3, <1>4, <1>5, <1>6, <1>7 DEF LInv

LEMMA SayStep ==
  ASSUME Polite, LInv, NEW t \in Callers, Say(t) PROVE LInv'
<1> USE LifecycleAssumption DEF Conns, Kinds, Active, Ended, LInv, Say, Step, Hold, attrs, world
<1>1. TypeOK'
  BY DEF TypeOK
<1>2. OneCall'
  BY DEF OneCall
<1>3. Stopped'
  BY DEF Stopped
<1>4. NoneLost'
  BY DEF NoneLost
<1>5. Connecting'
  BY DEF Connecting
<1>6. TearingDown'
  BY DEF TypeOK, TearingDown
<1>7. OneSession'
  BY DEF OneSession
<1> QED BY <1>1, <1>2, <1>3, <1>4, <1>5, <1>6, <1>7 DEF LInv

LEMMA CancelTaskStep ==
  ASSUME Polite, LInv, NEW t \in Callers, CancelTask(t) PROVE LInv'
<1> USE LifecycleAssumption DEF Conns, Kinds, Active, Ended, LInv, CancelTask, attrs, world
<1>1. TypeOK'
  BY DEF TypeOK
<1>2. OneCall'
  BY DEF OneCall
<1>3. Stopped'
  BY DEF Stopped
<1>4. NoneLost'
  BY DEF NoneLost
<1>5. Connecting'
  BY DEF Connecting
<1>6. TearingDown'
  BY DEF TearingDown
<1>7. OneSession'
  BY DEF OneSession
<1> QED BY <1>1, <1>2, <1>3, <1>4, <1>5, <1>6, <1>7 DEF LInv

LEMMA AwaitTaskStep ==
  ASSUME Polite, LInv, NEW t \in Callers, AwaitTask(t) PROVE LInv'
<1> USE LifecycleAssumption DEF Conns, Kinds, Active, Ended, LInv, AwaitTask, Outcome, CloseWs, Forget, Step, Hold, world
<1>1. TypeOK'
  <2>1. CASE Step(t, "pump") /\ UNCHANGED <<tasks, held>>
    BY <2>1 DEF TypeOK
  <2>2. CASE CloseWs(t)
    <3>1. tasks' = 0 /\ tasks' \in 0..MaxConn
      BY <2>2
    <3>2. CASE Step(t, "done") /\ UNCHANGED held
      BY <3>1, <3>2 DEF TypeOK
    <3>3. CASE Step(t, "closing") /\ Hold(t, ws)
      BY <3>1, <3>3 DEF TypeOK
    <3> QED BY <2>2, <3>2, <3>3
  <2>3. CASE Step(t, "raised") /\ UNCHANGED <<tasks, held>>
    BY <2>3 DEF TypeOK
  <2> QED BY <2>1, <2>2, <2>3
<1>2. OneCall'
  BY DEF TypeOK, OneCall, OneSession, Polite
<1>3. Stopped'
  BY DEF Stopped
<1>4. NoneLost'
  BY DEF NoneLost
<1>5. Connecting'
  BY DEF OneCall, Connecting
<1>6. TearingDown'
  BY DEF TypeOK, TearingDown
<1>7. OneSession'
  <2>1. CASE UNCHANGED tasks
    BY <2>1, SessionKept DEF TypeOK
  <2>2. CASE CloseWs(t)
    <3>1. \A u \in Callers : impl[u] = "opening" => impl'[u] = "opening" /\ held'[u] = held[u]
      BY <2>2 DEF TypeOK
    <3>2. \A n \in open : n = ws \/ \E u \in Callers : impl'[u] = "opening" /\ held'[u] = n
      BY <3>1 DEF OneSession
    <3> QED BY <2>2, <3>2 DEF TearingDown, OneSession
  <2> QED BY <2>1, <2>2
<1> QED BY <1>1, <1>2, <1>3, <1>4, <1>5, <1>6, <1>7 DEF LInv

LEMMA ClosedStep ==
  ASSUME Polite, LInv, NEW t \in Callers, Closed(t) PROVE LInv'
<1> USE LifecycleAssumption DEF Conns, Kinds, Active, Ended, LInv, Closed, Step
<1>1. TypeOK'
  BY DEF TypeOK, TearingDown
<1>2. OneCall'
  BY DEF OneCall
<1>3. Stopped'
  BY DEF Stopped
<1>4. NoneLost'
  BY DEF NoneLost
<1>5. Connecting'
  <2>1. \A u \in Callers : impl[u] # "opening"
    BY DEF OneCall
  <2>2. open' \subseteq {}
    <3>1. open' = open \ {held[t]} /\ ws \in {0, held[t]} /\ 0 \notin open
      BY DEF TearingDown, TypeOK
    <3> QED BY <2>1, <3>1 DEF OneSession
  <2> QED BY <2>1, <2>2 DEF TypeOK, OneCall, Connecting, TearingDown
<1>6. TearingDown'
  BY DEF TearingDown
<1>7. OneSession'
  <2>1. \A u \in Callers : impl[u] = "opening" => impl'[u] = "opening" /\ held'[u] = held[u]
    BY DEF TypeOK
  <2>2. \A n \in open' : n # ws
    BY DEF TearingDown, TypeOK
  <2>3. \A n \in open' : \E u \in Callers : impl'[u] = "opening" /\ held'[u] = n
    BY <2>1, <2>2 DEF OneSession
  <2> QED BY <2>3 DEF TearingDown, OneSession
<1> QED BY <1>1, <1>2, <1>3, <1>4, <1>5, <1>6, <1>7 DEF LInv

LEMMA ReturnStep ==
  ASSUME Polite, LInv, NEW t \in Callers, Return(t) PROVE LInv'
<1> USE LifecycleAssumption DEF Conns, Kinds, Active, Ended, LInv, Return, StopThread, Lost, Step, attrs, world
<1>1. TypeOK'
  <2>1. CASE StopThread(t)
    BY <2>1, StopThreadType DEF TypeOK
  <2>2. CASE Step(t, "none") /\ UNCHANGED <<loop, task>>
    BY <2>2 DEF TypeOK
  <2> QED BY <2>1, <2>2
<1>2. OneCall'
  <2>1. CASE <<call[t], impl[t]>> \in {<<"connect", "raised">>, <<"leave", "done">>}
    <3>1. \A u \in Callers : call'[u] \notin Active
      BY <2>1 DEF OneCall, TypeOK
    <3>2. StopThread(t)
      BY <2>1
    <3> QED BY <3>1, <3>2 DEF OneCall, TypeOK
  <2>2. CASE Step(t, "none") /\ UNCHANGED <<loop, task>>
    BY <2>2 DEF OneCall, TypeOK
  <2> QED BY <2>1, <2>2
<1>3. Stopped'
  BY DEF TypeOK, OneCall, Stopped, Connecting, TearingDown, OneSession
<1>4. NoneLost'
  BY DEF NoneLost, Connecting, TearingDown, OneSession
<1>5. Connecting'
  BY DEF TypeOK, Connecting
<1>6. TearingDown'
  BY DEF TypeOK, TearingDown
<1>7. OneSession'
  <2>1. CASE <<call[t], impl[t]>> \in {<<"connect", "raised">>, <<"leave", "done">>}
    <3>1. \A u \in Callers : impl[u] # "opening"
      BY <2>1 DEF OneCall
    <3> QED BY <2>1, <3>1, SessionKept
  <2>2. CASE Step(t, "none") /\ UNCHANGED <<loop, task>>
    <3>1. \A u \in Callers : impl[u] = "opening" => impl'[u] = "opening"
      BY <2>2 DEF TypeOK
    <3> QED BY <2>2, <3>1, SessionKept
  <2> QED BY <2>1, <2>2
<1> QED BY <1>1, <1>2, <1>3, <1>4, <1>5, <1>6, <1>7 DEF LInv

LEMMA ConnectCancelledStep ==
  ASSUME Polite, LInv, NEW t \in Callers, ConnectCancelled(t) PROVE LInv'
<1> USE LifecycleAssumption DEF Conns, Kinds, Active, Ended, LInv, ConnectCancelled, StopThread, Lost, attrs, world
<1>1. TypeOK'
  BY StopThreadType DEF TypeOK
<1>2. OneCall'
  BY DEF TypeOK, OneCall
<1>3. Stopped'
  BY DEF TypeOK, OneCall, Stopped, Connecting, TearingDown, Polite
<1>4. NoneLost'
  BY DEF TypeOK, OneCall, NoneLost, Connecting, OneSession, Polite
<1>5. Connecting'
  BY DEF Connecting
<1>6. TearingDown'
  BY DEF TearingDown
<1>7. OneSession'
  BY DEF OneSession, Connecting, TypeOK, Polite
<1> QED BY <1>1, <1>2, <1>3, <1>4, <1>5, <1>6, <1>7 DEF LInv

LEMMA LeaveCancelledStep ==
  ASSUME Polite, LInv, NEW t \in Callers, LeaveCancelled(t) PROVE LInv'
<1> USE LifecycleAssumption DEF Conns, Kinds, Active, Ended, LInv, LeaveCancelled, Step, attrs, world
<1>1. TypeOK'
  BY DEF TypeOK
<1>2. OneCall'
  BY DEF OneCall
<1>3. Stopped'
  BY DEF Stopped
<1>4. NoneLost'
  BY DEF NoneLost
<1>5. Connecting'
  BY DEF Connecting
<1>6. TearingDown'
  BY DEF TearingDown
<1>7. OneSession'
  BY DEF OneSession
<1> QED BY <1>1, <1>2, <1>3, <1>4, <1>5, <1>6, <1>7 DEF LInv

LEMMA RelayClosesStep == ASSUME LInv, NEW n \in Conns, RelayCloses(n) PROVE LInv'
BY DEF RelayCloses, LInv, TypeOK, OneCall, Stopped, NoneLost, Connecting, TearingDown,
       OneSession, attrs, Kinds

LEMMA TaskEndsStep ==
  ASSUME LInv, NEW n \in Conns, NEW k \in Kinds, TaskEnds(n, k) PROVE LInv'
<1> USE DEF LInv, TaskEnds, attrs, world, Conns, Kinds
<1>1. TypeOK'
  BY DEF TypeOK
<1>2. OneCall'
  BY DEF OneCall
<1>3. Stopped'
  BY DEF Stopped
<1>4. NoneLost'
  BY DEF NoneLost
<1>5. Connecting'
  BY DEF Connecting
<1>6. TearingDown'
  BY DEF TearingDown
<1>7. OneSession'
  BY DEF OneSession
<1> QED BY <1>1, <1>2, <1>3, <1>4, <1>5, <1>6, <1>7 DEF LInv

LEMMA LifecycleInit == Init => LInv
<1> SUFFICES ASSUME Init PROVE LInv
  OBVIOUS
<1>1. TypeOK
  <2>1. {ws, tasks, socks} \subseteq 0..MaxConn /\ open \subseteq 1..socks
    BY LifecycleAssumption DEF Init
  <2> QED BY <2>1 DEF Init, TypeOK
<1>2. OneCall /\ Stopped /\ NoneLost /\ Connecting /\ TearingDown /\ OneSession
  BY DEF Init, OneCall, Stopped, NoneLost, Connecting, TearingDown, OneSession, Active,
         Ended, Kinds
<1> QED BY <1>1, <1>2 DEF LInv

LEMMA LifecycleStep == Polite /\ LInv /\ [Next]_vars => LInv'
<1> SUFFICES ASSUME Polite, LInv, [Next]_vars PROVE LInv'
  OBVIOUS
<1>1. ASSUME NEW t \in Callers, Coroutine(t) PROVE LInv'
  BY <1>1, DialedStep, OpenedStep, OpenFailsStep, ChallengedStep, HandshakeFailsStep, JoinedStep,
     SayStep, CancelTaskStep, AwaitTaskStep, ClosedStep DEF Coroutine
<1>2. ASSUME NEW t \in Callers,
             CallConnect(t) \/ CallLeave(t) \/ Return(t) \/ ConnectCancelled(t)
               \/ LeaveCancelled(t)
      PROVE  LInv'
  BY <1>2, CallConnectStep, CallLeaveStep, ReturnStep, ConnectCancelledStep,
     LeaveCancelledStep
<1>3. ASSUME NEW n \in Conns, RelayCloses(n) \/ \E k \in Kinds : TaskEnds(n, k)
      PROVE  LInv'
  BY <1>3, RelayClosesStep, TaskEndsStep
<1>4. CASE UNCHANGED vars
  BY <1>4 DEF vars, attrs, world, LInv, TypeOK, OneCall, Stopped, NoneLost, Connecting,
       TearingDown, OneSession
<1> QED BY <1>1, <1>2, <1>3, <1>4 DEF Next

LEMMA LifecycleCorrect == Polite => (Spec => []LInv)
<1> SUFFICES ASSUME Polite PROVE Spec => []LInv
  OBVIOUS
<1>1. LInv /\ [Next]_vars => LInv'
  BY LifecycleStep
<1> QED BY <1>1, LifecycleInit, PTL DEF Spec

-----------------------------------------------------------------------------
\* For an orderly program, one socket and one pair of tasks exist at a time, and
\* they are those that the next leave() finds, whatever the relay does, whatever
\* fails and wherever a leave() is cancelled (huddle.py:303-316).
THEOREM OneSessionCorrect == Polite => (Spec => []OneSession)
<1>1. LInv => OneSession
  BY DEF LInv
<1> QED BY <1>1, LifecycleCorrect, PTL

\* For an orderly program, no socket is open and no task was cut off once leave()
\* has returned or connect() has raised (huddle.py:288, 296).
THEOREM NothingLeftCorrect == Polite => (Spec => []NothingLeft)
<1>1. LInv => NothingLeft
  BY DEF LInv, TypeOK, Stopped, NoneLost, OneSession, NothingLeft, Conns
<1> QED BY <1>1, LifecycleCorrect, PTL
=============================================================================
