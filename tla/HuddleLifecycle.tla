---------------------------- MODULE HuddleLifecycle ----------------------------
(***************************************************************************)
(* How a HuddleClient comes up and goes down (python/buzzkit/huddle.py):    *)
(* connect() starts the private I/O thread and runs _connect_impl on it,    *)
(* leave() and close() run _teardown_impl there and stop the thread.  A     *)
(* call waits on the caller's loop for its coroutine on the I/O loop; any   *)
(* of them may fail, be cancelled, or lose the I/O loop to another call.    *)
(*                                                                         *)
(* Starting, stopping and joining the thread is synchronous on the caller's *)
(* loop, so "the I/O loop exists" and "it runs" are one variable.  A socket *)
(* has a number, which is also that of the sender and pump made for it.     *)
(***************************************************************************)
EXTENDS Naturals

CONSTANTS
  Callers,        \* tasks of the program that call the client
  Overlap,        \* may a call begin while another runs?
  Again,          \* may connect() be called while the I/O loop exists?
  CancelAt,       \* where _connect_impl may be when connect() is cancelled,
                  \* as wait_for() does
  Crashes,        \* may the sender or the pump die of an exception?
  MaxConn         \* bound: sockets opened in a run

ASSUME LifecycleAssumption ==
  /\ {Overlap, Again, Crashes} \subseteq BOOLEAN
  /\ MaxConn \in Nat

VARIABLES
  loop,   \* is there an I/O loop and thread?
  ws,     \* the number of _ws, 0 for None
  tasks,  \* the number of _sender and _recv_pump, which are set together
  socks,  \* sockets opened so far
  open,   \* those that are open
  task,   \* the state of every sender and pump
  call,   \* the caller: "idle", "connect", "leave", "left" (a leave() that was
          \* cancelled, whose coroutine still runs)
  impl,   \* where its coroutine on the I/O loop is
  held    \* the socket or pair of tasks that coroutine has in a local

attrs == <<ws, tasks>>
world == <<socks, open>>
vars  == <<loop, attrs, world, task, call, impl, held>>

Conns == 1..MaxConn
Kinds == {"sender", "pump"}

Init ==
  /\ loop = FALSE /\ ws = 0 /\ tasks = 0 /\ socks = 0 /\ open = {}
  /\ task = [n \in Conns |-> [k \in Kinds |-> "none"]]
  /\ call = [t \in Callers |-> "idle"]
  /\ impl = [t \in Callers |-> "none"] /\ held = [t \in Callers |-> 0]

Step(t, to)     == impl' = [impl EXCEPT ![t] = to]
Hold(t, n)      == held' = [held EXCEPT ![t] = n]
Begin(t, c, to) == call' = [call EXCEPT ![t] = c] /\ Step(t, to)

Orderly == Overlap \/ \A t \in Callers : call[t] \in {"idle", "left"}

-----------------------------------------------------------------------------
(* connect() *)

CallConnect(t) ==
  /\ call[t] = "idle" /\ Orderly /\ (loop => Again) /\ socks < MaxConn
  /\ loop' = TRUE
  /\ Begin(t, "connect", "resolving")
  /\ UNCHANGED <<attrs, world, task, held>>

\* websockets.connect() finds the address, opens a connection and upgrades it: for
\* that long the socket is open and only its coroutine has it.
Dialed(t) ==
  /\ impl[t] = "resolving" /\ socks < MaxConn
  /\ socks' = socks + 1 /\ open' = open \cup {socks'}
  /\ Hold(t, socks') /\ Step(t, "opening")
  /\ UNCHANGED <<loop, attrs, task, call>>

Opened(t) ==
  /\ impl[t] = "opening"
  /\ ws' = held[t] /\ Step(t, "challenge")
  /\ UNCHANGED <<loop, tasks, world, task, call, held>>

\* It closes what it has opened.
OpenFails(t) ==
  /\ impl[t] \in {"resolving", "opening"} /\ Step(t, "raised")
  /\ open' = IF impl[t] = "opening" THEN open \ {held[t]} ELSE open
  /\ UNCHANGED <<loop, attrs, socks, task, call, held>>

\* The challenge came and the AUTH event is sent, on what _ws then is.
Challenged(t) ==
  /\ impl[t] = "challenge" /\ ws # 0
  /\ Hold(t, ws) /\ Step(t, "joined")
  /\ UNCHANGED <<loop, attrs, world, task, call>>

\* An error message, the end of the socket or the 10 s timer, before or after
\* the AUTH.  The except clause needs a _ws to close.
HandshakeFails_onlyClosed(t) ==
  /\ impl[t] \in {"challenge", "joined"} /\ held[t] \notin open
  /\ \/ ws = 0 /\ Step(t, "raised") /\ UNCHANGED held
     \/ ws # 0 /\ Step(t, "closing") /\ Hold(t, ws)
  /\ UNCHANGED <<loop, attrs, world, task, call>>
HandshakeFails_leavesOpen(t) ==
  /\ impl[t] \in {"challenge", "joined"} /\ Step(t, "raised")
  /\ ws' = 0
  /\ UNCHANGED <<loop, tasks, world, task, call, held>>
HandshakeFails(t) ==
  /\ impl[t] \in {"challenge", "joined"}
  /\ \/ ws = 0 /\ Step(t, "raised") /\ UNCHANGED held
     \/ ws # 0 /\ Step(t, "closing") /\ Hold(t, ws)
  /\ UNCHANGED <<loop, attrs, world, task, call>>

\* "joined" came: the two tasks start, and assert that there is a _ws.
Joined(t) ==
  /\ impl[t] = "joined"
  /\ tasks' = held[t]
  /\ task' = [task EXCEPT ![held[t]] =
                [k \in Kinds |-> IF ws = 0 THEN "crashed" ELSE "running"]]
  /\ Step(t, "done")
  /\ UNCHANGED <<loop, ws, world, call, held>>

-----------------------------------------------------------------------------
(* leave() and close() *)

\* Without an I/O loop there is nothing to do; close() sends no message.
CallLeave(t) ==
  /\ call[t] = "idle" /\ Orderly /\ loop
  /\ \/ Begin(t, "leave", "saying") /\ UNCHANGED held
     \/ Begin(t, "leave", "sender") /\ Hold(t, tasks)
  /\ UNCHANGED <<loop, attrs, world, task>>

\* The "leave" message; a failure to send it is ignored.
Say(t) ==
  /\ impl[t] = "saying" /\ Step(t, "sender") /\ Hold(t, tasks)
  /\ UNCHANGED <<loop, attrs, world, task, call>>

CancelTask(t) ==
  /\ impl[t] \in Kinds /\ held[t] # 0 /\ task[held[t]][impl[t]] = "running"
  /\ task' = [task EXCEPT ![held[t]][impl[t]] = "cancelling"]
  /\ UNCHANGED <<loop, attrs, world, call, impl, held>>

\* After both: forget them, and close the socket if there is one.
Forget_not == UNCHANGED tasks
Forget == tasks' = 0
CloseWs(t) ==
  /\ Forget
  /\ \/ ws = 0 /\ Step(t, "done") /\ UNCHANGED held
     \/ ws # 0 /\ Step(t, "closing") /\ Hold(t, ws)

Outcome(t) == IF held[t] = 0 THEN "over" ELSE task[held[t]][impl[t]]
AwaitTask(t) ==
  /\ impl[t] \in Kinds
  /\ \/ Outcome(t) = "over" /\ impl[t] = "sender"
        /\ Step(t, "pump") /\ UNCHANGED <<tasks, held>>
     \/ Outcome(t) = "over" /\ impl[t] = "pump" /\ CloseWs(t)
     \/ Outcome(t) \in {"crashed", "lost"}
        /\ Step(t, "raised") /\ UNCHANGED <<tasks, held>>
  /\ UNCHANGED <<loop, ws, world, task, call>>

\* Also the end of connect()'s except clause, which then raises.
Closed(t) ==
  /\ impl[t] = "closing"
  /\ open' = open \ {held[t]} /\ ws' = 0
  /\ Step(t, IF call[t] = "connect" THEN "raised" ELSE "done")
  /\ UNCHANGED <<loop, tasks, socks, task, call, held>>

-----------------------------------------------------------------------------
(* Back on the caller's loop *)

\* The loop stops under whatever else runs on it.
Lost(t) ==
  IF impl[t] \in {"none", "done", "raised"} THEN impl[t] ELSE "lost"
StopThread(t) ==
  /\ loop' = FALSE
  /\ impl' = [u \in Callers |-> IF u = t THEN "none" ELSE Lost(u)]
  /\ task' = [n \in Conns |-> [k \in Kinds |->
                IF task[n][k] \in {"running", "cancelling"} THEN "lost" ELSE task[n][k]]]

\* connect() stops the thread if it fails, leave() if it does not.
Return(t) ==
  /\ call[t] # "idle" /\ impl[t] \in {"done", "raised"}
  /\ call' = [call EXCEPT ![t] = "idle"]
  /\ \/ <<call[t], impl[t]>> \in {<<"connect", "raised">>, <<"leave", "done">>}
        /\ StopThread(t)
     \/ <<call[t], impl[t]>> \notin {<<"connect", "raised">>, <<"leave", "done">>}
        /\ Step(t, "none") /\ UNCHANGED <<loop, task>>
  /\ UNCHANGED <<attrs, world, held>>

\* The cancelled coroutine would close the socket, but its loop is stopped
\* before it could.
ConnectCancelled(t) ==
  /\ call[t] = "connect" /\ impl[t] \in CancelAt
  /\ call' = [call EXCEPT ![t] = "idle"] /\ StopThread(t)
  /\ UNCHANGED <<attrs, world, held>>

\* leave() does not stop the thread then.  Its coroutine swallows the
\* cancellation while it awaits a task it has cancelled, and goes on.
LeaveCancelled(t) ==
  /\ call[t] = "leave" /\ impl[t] # "lost"
  /\ call' = [call EXCEPT ![t] = "left"]
  /\ Step(t, IF impl[t] \in {"saying", "closing"} THEN "raised" ELSE impl[t])
  /\ UNCHANGED <<loop, attrs, world, task, held>>

-----------------------------------------------------------------------------
(* The relay and the tasks *)

RelayCloses(n) ==
  /\ n \in open /\ open' = open \ {n}
  /\ UNCHANGED <<loop, attrs, socks, task, call, impl, held>>

\* A task ends when it was cancelled or its socket is gone, or it crashes.
TaskEnds(n, k) ==
  /\ \/ task[n][k] = "cancelling"
     \/ task[n][k] = "running" /\ n \notin open
     \/ task[n][k] = "running" /\ Crashes
  /\ \E end \in {"over", "crashed"} :
       /\ end = "crashed" => Crashes
       /\ end = "over" => task[n][k] = "cancelling" \/ n \notin open
       /\ task' = [task EXCEPT ![n][k] = end]
  /\ UNCHANGED <<loop, attrs, world, call, impl, held>>

-----------------------------------------------------------------------------
Coroutine(t) ==
  \/ Dialed(t) \/ Opened(t) \/ OpenFails(t)
  \/ Challenged(t) \/ HandshakeFails(t) \/ Joined(t)
  \/ Say(t) \/ CancelTask(t) \/ AwaitTask(t) \/ Closed(t)

Next ==
  \/ \E t \in Callers :
       \/ CallConnect(t) \/ CallLeave(t) \/ Coroutine(t)
       \/ Return(t) \/ ConnectCancelled(t) \/ LeaveCancelled(t)
  \/ \E n \in Conns : RelayCloses(n) \/ \E k \in Kinds : TaskEnds(n, k)

\* The loops run; opening a socket and the handshake end, if only by their
\* timers; a cancelled task ends.  Nothing is assumed of the relay.
Fairness ==
  /\ \A t \in Callers :
       /\ WF_vars(OpenFails(t)) /\ WF_vars(HandshakeFails(t))
       /\ WF_vars(Say(t) \/ CancelTask(t) \/ AwaitTask(t) \/ Closed(t))
       /\ WF_vars(Return(t))
  /\ \A n \in Conns, k \in Kinds : WF_vars(task[n][k] = "cancelling" /\ TaskEnds(n, k))

Spec == Init /\ [][Next]_vars
FairSpec == Spec /\ Fairness

-----------------------------------------------------------------------------
(* Properties *)

TypeOK ==
  /\ loop \in BOOLEAN /\ ws \in 0..MaxConn /\ tasks \in 0..MaxConn
  /\ socks \in 0..MaxConn /\ open \subseteq 1..socks
  /\ task \in [Conns -> [Kinds -> {"none", "running", "cancelling", "over",
                                   "crashed", "lost"}]]
  /\ call \in [Callers -> {"idle", "connect", "leave", "left"}]
  /\ impl \in [Callers -> {"none", "resolving", "opening", "challenge", "joined",
                           "saying", "sender", "pump", "closing", "done", "raised",
                           "lost"}]
  /\ held \in [Callers -> 0..MaxConn]
  /\ \A t \in Callers : impl[t] = "none" <=> call[t] = "idle"

\* Once leave() or close() has returned, or connect() has raised, no socket is
\* open and no task was cut off: "then close the socket" (huddle.py:288),
\* "Close the socket and stop the paced sender" (huddle.py:296).
NothingLeft ==
  ~loop => open = {} /\ \A n \in Conns, k \in Kinds :
                          task[n][k] \in {"none", "over", "crashed"}

\* One socket and one pair of tasks at a time, and they are those the client's
\* attributes name, so that the next leave() finds them (huddle.py:303-316), or the
\* socket that a connect() is still opening.
OneSession ==
  /\ \A m, n \in open : m = n
  /\ \A n \in open :
       n = ws \/ \E t \in Callers : impl[t] = "opening" /\ held[t] = n
  /\ tasks # 0 => tasks = ws
  /\ \A n \in Conns, k \in Kinds :
       task[n][k] \in {"running", "cancelling"} => n = tasks

\* A leave() or close() that is over has closed the socket: "Tell the relay we are
\* leaving, then close the socket" (huddle.py:288).
LeaveCloses ==
  [][\A t \in Callers : call[t] = "leave" /\ call'[t] = "idle" => open' = {}]_vars

\* Every call ends, also when a task crashed or the relay says nothing
\* (huddle.py:203, 307-316).
CallsReturn ==
  \A t \in Callers : call[t] \in {"connect", "leave"} ~> call[t] \in {"idle", "left"}
=============================================================================
