--------------------------- MODULE HuddleEventsProofs ---------------------------
(***************************************************************************)
(* Proofs about HuddleEvents, for any number of iterators, connections and  *)
(* items and any length of the backlog, and of the safety half of its       *)
(* refinement of EventStream.                                               *)
(***************************************************************************)
EXTENDS HuddleEvents, SequenceTheorems, TLAPS

-----------------------------------------------------------------------------
(* The inductive invariant *)

Distinct(s) == \A i, j \in 1..Len(s) : s[i] = s[j] => i = j

\* There is a pump only between connect() and the end of leave(), and it has
\* something to publish when it is at it.
Steady ==
  /\ phase # "off" => conn >= 1
  /\ io # "none" => phase \in {"on", "leaving"}
  /\ io \in {"locking", "posting"} /\ fin = "no" => rest >= 1
  /\ io = "reading" => fin = "no"

\* The list of subscribers, the snapshot and the iterators agree, and the backlog
\* is there until the first events() call.
Registered ==
  /\ Distinct(subs) /\ Distinct(todo)
  /\ \A s \in Subs :
       /\ iter[s] = "reading" => s \in Range(subs)
       /\ iter[s] = "new" => /\ s \notin Range(subs) /\ s \notin Range(todo)
                             /\ posted[s] = << >>
       /\ s \in closed => iter[s] \in {"over", "quit"}
  /\ backlog # None <=> \A s \in Subs : iter[s] = "new"

\* q rises strictly between lo and hi.
Rising(q, lo, hi) ==
  \A i, j \in 1..Len(q) : q[i] \in lo..hi /\ (i < j => q[i] < q[j])

\* Every item from lo to hi.
Run(lo, hi) == [i \in 1..(hi + 1 - lo) |-> lo - 1 + i]

\* What comes to a reading iterator are published items, each once, in order.
Ordered ==
  \A s \in Subs :
    iter[s] = "reading" =>
      pos[s] \in 1..(Len(log) + 1) /\ Rising(Coming(s), pos[s], Len(log))

\* While no loop is closed they are all the items there are.
Whole == closed = {} => Gapless

\* As long as no loop is closed and every index is a byte no exception ends the
\* pump, and whoever publishes an end does it for a connection that is over.
Ends ==
  /\ \A i \in 1..Len(log) : log[i].conn <= conn
  /\ phase = "connecting" => \A i \in 1..Len(log) : log[i].conn < conn
  /\ closed = {} /\ ~WideIndexes =>
       /\ fin # "raise" /\ io # "crashed"
       /\ io \in {"locking", "posting"} /\ fin = "end" => IsOver(conn)
       /\ \A i \in 1..Len(log) : log[i].end => IsOver(log[i].conn)
  /\ \A s \in Subs : iter[s] = "over" =>
       pos[s] - 1 \in 1..Len(log) /\ log[pos[s] - 1].end

EInv == TypeOK /\ Steady /\ BacklogHolds /\ Registered /\ Ordered /\ Whole /\ Ends

-----------------------------------------------------------------------------
(* Sequences without repetition *)

LEMMA EmptyRange == Range(<< >>) = {}
BY DEF Range

\* A new iterator goes to the end of the list.
LEMMA Appended ==
  ASSUME NEW S, NEW q \in Seq(S), NEW x \in S, Distinct(q), x \notin Range(q)
  PROVE  Distinct(Append(q, x)) /\ Range(Append(q, x)) = Range(q) \cup {x}
<1> DEFINE r == Append(q, x)
<1>1. /\ r \in Seq(S) /\ Len(r) = Len(q) + 1 /\ Len(q) \in Nat
      /\ \A i \in 1..Len(q) : r[i] = q[i]
      /\ r[Len(q) + 1] = x
  OBVIOUS
<1>2. Range(r) = {r[i] : i \in 1..Len(r)} /\ Range(q) = {q[i] : i \in 1..Len(q)}
  BY <1>1, RangeEquality
<1> HIDE DEF r
<1>3. Distinct(r)
  BY <1>1, <1>2 DEF Distinct
<1>4. Range(r) \subseteq Range(q) \cup {x}
  BY <1>1, <1>2
<1>5. Range(q) \cup {x} \subseteq Range(r)
  <2>1. Len(q) + 1 \in 1..Len(r) /\ 1..Len(q) \subseteq 1..Len(r)
    BY <1>1
  <2> QED BY <1>1, <1>2, <2>1
<1> QED BY <1>3, <1>4, <1>5 DEF r

\* The iterator posted to leaves the snapshot.
LEMMA Posted ==
  ASSUME NEW S, NEW q \in Seq(S), q # << >>, Distinct(q)
  PROVE  /\ Head(q) \in S /\ Tail(q) \in Seq(S) /\ Distinct(Tail(q))
         /\ Head(q) \in Range(q) /\ Range(Tail(q)) = Range(q) \ {Head(q)}
         /\ Len(q) = 1 <=> Tail(q) = << >>
<1> DEFINE r == Tail(q)
<1>1. /\ r \in Seq(S) /\ Len(q) \in Nat \ {0} /\ Len(r) = Len(q) - 1
      /\ Head(q) = q[1] /\ q[1] \in S /\ 1 \in 1..Len(q)
      /\ \A i \in 1..Len(r) : r[i] = q[i + 1]
  OBVIOUS
<1>2. Range(r) = {r[i] : i \in 1..Len(r)} /\ Range(q) = {q[i] : i \in 1..Len(q)}
  BY <1>1, RangeEquality, ZenonT(30)
<1>3. Len(q) = 1 <=> r = << >>
  <2>1. r # << >> => Len(r) \in Nat \ {0}
    BY <1>1, EmptySeq
  <2>2. r = << >> => Len(r) = 0
    BY EmptySeq
  <2> HIDE DEF r
  <2> QED BY <1>1, <2>1, <2>2
<1> HIDE DEF r
<1>4. Distinct(r)
  BY <1>1 DEF Distinct
<1>5. ASSUME NEW y \in Range(r) PROVE y \in Range(q) \ {q[1]}
  <2>1. PICK i \in 1..Len(r) : y = r[i]
    BY <1>2
  <2>2. i + 1 \in 1..Len(q) /\ y = q[i + 1] /\ i + 1 # 1
    BY <1>1, <2>1
  <2> QED BY <1>1, <1>2, <2>2 DEF Distinct
<1>6. ASSUME NEW y \in Range(q) \ {q[1]} PROVE y \in Range(r)
  <2>1. PICK i \in 1..Len(q) : y = q[i]
    BY <1>2
  <2>2. i - 1 \in 1..Len(r) /\ r[i - 1] = q[i]
    BY <1>1, <2>1
  <2> QED BY <1>2, <2>1, <2>2
<1>7. Range(r) = Range(q) \ {Head(q)}
  BY <1>1, <1>5, <1>6
<1> QED BY <1>1, <1>2, <1>3, <1>4, <1>7 DEF r

\* An iterator that is over leaves the list, and the others stay in order.
LEMMA Removed ==
  ASSUME subs \in Seq(Subs), Distinct(subs), NEW s \in Range(subs)
  PROVE  /\ Without(s) \in Seq(Subs) /\ Distinct(Without(s))
         /\ Range(Without(s)) = Range(subs) \ {s}
<1> DEFINE k == CHOOSE k \in 1..Len(subs) : subs[k] = s
           r == SubSeq(subs, 1, k - 1) \o SubSeq(subs, k + 1, Len(subs))
<1>1. Range(subs) = {subs[i] : i \in 1..Len(subs)} /\ Len(subs) \in Nat
  BY RangeEquality
<1>2. k \in 1..Len(subs) /\ subs[k] = s
  BY <1>1
<1>3. Without(s) = r
  BY DEF Without
<1> HIDE DEF k
<1>4. /\ SubSeq(subs, 1, k - 1) \in Seq(Subs) /\ SubSeq(subs, k + 1, Len(subs)) \in Seq(Subs)
      /\ Len(SubSeq(subs, 1, k - 1)) = k - 1
      /\ Len(SubSeq(subs, k + 1, Len(subs))) = Len(subs) - k
      /\ \A i \in 1..(k - 1) : SubSeq(subs, 1, k - 1)[i] = subs[i]
      /\ \A i \in 1..(Len(subs) - k) : SubSeq(subs, k + 1, Len(subs))[i] = subs[i + k]
  BY <1>1, <1>2
<1>5. /\ r \in Seq(Subs) /\ Len(r) = Len(subs) - 1
      /\ \A i \in 1..Len(r) : r[i] = IF i < k THEN subs[i] ELSE subs[i + 1]
  <2> DEFINE a == SubSeq(subs, 1, k - 1)
             b == SubSeq(subs, k + 1, Len(subs))
  <2>1. /\ a \o b \in Seq(Subs) /\ Len(a \o b) = Len(a) + Len(b)
        /\ \A i \in 1..(Len(a) + Len(b)) :
             (a \o b)[i] = IF i <= Len(a) THEN a[i] ELSE b[i - Len(a)]
    BY <1>4, ConcatProperties
  <2>2. /\ Len(a) = k - 1 /\ Len(b) = Len(subs) - k
        /\ \A i \in 1..(k - 1) : a[i] = subs[i]
        /\ \A i \in 1..(Len(subs) - k) : b[i] = subs[i + k]
    BY <1>4
  <2>0. k \in Int /\ Len(subs) \in Int
    BY <1>1, <1>2
  <2> HIDE DEF a, b
  <2>3. ASSUME NEW i \in 1..(Len(subs) - 1)
        PROVE  (a \o b)[i] = IF i < k THEN subs[i] ELSE subs[i + 1]
    <3>1. CASE i < k
      BY <1>1, <1>2, <2>0, <2>1, <2>2, <3>1
    <3>2. CASE ~(i < k)
      <4>1. i - (k - 1) \in 1..(Len(subs) - k) /\ (i - (k - 1)) + k = i + 1
        BY <1>1, <1>2, <3>2
      <4>2. (a \o b)[i] = b[i - (k - 1)]
        BY <1>1, <1>2, <2>0, <2>1, <2>2, <3>2
      <4> QED BY <2>2, <3>2, <4>1, <4>2
    <3> QED BY <3>1, <3>2
  <2>4. r = a \o b
    BY DEF a, b
  <2> HIDE DEF r
  <2>5. Len(a) + Len(b) = Len(subs) - 1
    BY <2>0, <2>2
  <2>6. r \in Seq(Subs) /\ Len(r) = Len(subs) - 1
    BY <2>1, <2>4, <2>5
  <2>7. 1..Len(r) = 1..(Len(subs) - 1)
    BY <2>6
  <2>8. \A i \in 1..Len(r) : r[i] = IF i < k THEN subs[i] ELSE subs[i + 1]
    BY <2>3, <2>4, <2>7
  <2> QED BY <2>6, <2>8
<1>6. Range(r) = {r[i] : i \in 1..Len(r)}
  BY <1>5, RangeEquality
<1> HIDE DEF r
<1>7. Distinct(r)
  <2> SUFFICES ASSUME NEW i \in 1..Len(r), NEW j \in 1..Len(r), i # j PROVE r[i] # r[j]
    BY DEF Distinct
  <2> DEFINE At(n) == IF n < k THEN n ELSE n + 1
  <2>1. \A n \in 1..Len(r) : At(n) \in 1..Len(subs) /\ r[n] = subs[At(n)]
    <3> SUFFICES ASSUME NEW n \in 1..Len(r)
                 PROVE  At(n) \in 1..Len(subs) /\ r[n] = subs[At(n)]
      OBVIOUS
    <3>1. CASE n < k
      BY <1>1, <1>2, <1>5, <3>1
    <3>2. CASE ~(n < k)
      BY <1>1, <1>2, <1>5, <3>2
    <3> QED BY <3>1, <3>2
  <2>2. At(i) # At(j)
    BY <1>1, <1>2, <1>5
  <2> HIDE DEF At
  <2> QED BY <2>1, <2>2 DEF Distinct
<1>8. ASSUME NEW y \in Range(r) PROVE y \in Range(subs) \ {s}
  <2>1. PICK i \in 1..Len(r) : y = r[i]
    BY <1>6
  <2>2. PICK j \in 1..Len(subs) : y = subs[j] /\ j # k
    <3>1. CASE i < k
      BY <1>1, <1>2, <1>5, <2>1, <3>1
    <3>2. CASE ~(i < k)
      <4>1. i + 1 \in 1..Len(subs) /\ i + 1 # k /\ y = subs[i + 1]
        BY <1>1, <1>2, <1>5, <2>1, <3>2
      <4> QED BY <4>1
    <3> QED BY <3>1, <3>2
  <2> QED BY <1>1, <1>2, <2>2 DEF Distinct
<1>9. ASSUME NEW y \in Range(subs) \ {s} PROVE y \in Range(r)
  <2>1. PICK j \in 1..Len(subs) : y = subs[j]
    BY <1>1
  <2>2. j # k
    BY <1>2, <2>1
  <2>3. CASE j < k
    BY <1>1, <1>2, <1>5, <1>6, <2>1, <2>3
  <2>4. CASE j > k
    <3>1. j - 1 \in 1..Len(r) /\ r[j - 1] = y
      BY <1>1, <1>2, <1>5, <2>1, <2>4
    <3> QED BY <1>6, <3>1
  <2> QED BY <1>2, <2>2, <2>3, <2>4
<1>10. Range(r) = Range(subs) \ {s}
  BY <1>8, <1>9
<1> QED BY <1>3, <1>5, <1>7, <1>10

-----------------------------------------------------------------------------
(* Types, the pump's phases and the backlog *)

LEMMA InitHolds == Init => EInv
<1> SUFFICES ASSUME Init PROVE EInv
  OBVIOUS
<1>1. TypeOK
  BY EventsAssumption, EmptySeq DEF Init, TypeOK
<1>2. Steady
  BY DEF Init, Steady
<1>3. BacklogHolds
  BY EventsAssumption, EmptySeq DEF Init, BacklogHolds
<1>4. Registered
  <2>1. Distinct(<< >>)
    BY DEF Distinct
  <2> QED BY <2>1, EventsAssumption, EmptyRange, EmptySeq DEF Init, Registered
<1>5. Ordered /\ Whole /\ Ends
  BY DEF Init, Ordered, Whole, Gapless, Ends
<1> QED BY <1>1, <1>2, <1>3, <1>4, <1>5 DEF EInv

LEMMA FrameRead ==
  ASSUME ReadFrame
  PROVE  /\ io = "reading" /\ UNCHANGED <<caller, todo, shared, iters, log, pos, of>>
         /\ \/ UNCHANGED <<io, fin, rest>>
            \/ WideIndexes /\ io' = "locking" /\ fin' = "raise" /\ rest' = 0
            \/ io' = "locking" /\ rest' \in 1..MaxBurst /\ UNCHANGED fin
BY Zenon DEF ReadFrame, Undecodable, Overflow

LEMMA SteadyStep ==
  ASSUME TypeOK, Steady, [Next]_vars
  PROVE  Steady'
<1> USE DEF TypeOK, Steady
<1>1. CASE ConnectBegin
  BY <1>1 DEF ConnectBegin, pump, shared, iters
<1>2. CASE ConnectDone
  BY <1>2 DEF ConnectDone, shared, iters
<1>3. CASE ConnectFails
  BY <1>3 DEF ConnectFails, pump, shared, iters
<1>4. CASE LinkEnds
  BY <1>4 DEF LinkEnds, pump, shared, iters
<1>5. CASE LeaveBegin
  BY <1>5 DEF LeaveBegin, pump, shared, iters
<1>6. CASE CancelPump
  BY <1>6 DEF CancelPump, caller, shared, iters
<1>7. CASE LeaveDone
  BY <1>7 DEF LeaveDone, shared, iters
<1>8. CASE LeaveRaises
  BY <1>8 DEF LeaveRaises, pump, shared, iters
<1>9. CASE ReadFrame
  BY <1>9, FrameRead DEF caller, shared, iters
<1>10. CASE ReadEnd
  BY <1>10 DEF ReadEnd, caller, shared, iters
<1>11. CASE PublishItem
  BY <1>11 DEF PublishItem, caller, iters, Published
<1>12. CASE Post
  <2>1. fin' = fin /\ UNCHANGED caller
    BY <1>12 DEF Post, Published, caller
  <2>2. CASE io' = io /\ rest' = rest
    BY <1>12, <2>1, <2>2 DEF Post, caller
  <2>3. CASE Published
    <3>1. io = "posting" /\ phase \in {"on", "leaving"} /\ UNCHANGED <<phase, conn>> /\ rest \in Nat
      BY <1>12 DEF Post, caller
    <3> QED BY <2>1, <2>3, <3>1 DEF Published
  <2> QED BY <1>12, <2>2, <2>3 DEF Post
<1>13. CASE PostRaises
  BY <1>13 DEF PostRaises, caller, shared, iters
<1>14. ASSUME NEW s \in Subs, Subscribe(s) PROVE Steady'
  BY <1>14 DEF Subscribe, caller, pump
<1>15. ASSUME NEW s \in Subs, PutItem(s) PROVE Steady'
  BY <1>15 DEF PutItem, caller, pump, shared
<1>16. ASSUME NEW s \in Subs, Take(s) PROVE Steady'
  BY <1>16 DEF Take, caller, pump, shared
<1>17. ASSUME NEW s \in Subs, Quit(s) PROVE Steady'
  BY <1>17 DEF Quit, caller, pump, shared
<1>18. ASSUME NEW s \in Subs, Unsubscribe(s) PROVE Steady'
  BY <1>18 DEF Unsubscribe, caller, pump, iters
<1>19. ASSUME NEW s \in Subs, CloseLoop(s) PROVE Steady'
  BY <1>19 DEF CloseLoop, caller, pump, shared
<1>20. CASE UNCHANGED vars
  BY <1>20 DEF vars, caller, pump, shared, iters
<1> QED
  BY <1>1, <1>2, <1>3, <1>4, <1>5, <1>6, <1>7, <1>8, <1>9, <1>10, <1>11, <1>12, <1>13,
     <1>14, <1>15, <1>16, <1>17, <1>18, <1>19, <1>20 DEF Next, Pump, Iterator

\* deque(maxlen): the newest items, at most Kept of them.
LEMMA Remembered ==
  ASSUME TypeOK, BacklogHolds, backlog # None
  PROVE  LET r == Remember(Len(log) + 1)
             n == IF Len(log) + 1 > Kept THEN Kept ELSE Len(log) + 1
         IN r \in Seq(Nat) /\ Len(r) = n /\ \A i \in 1..n : r[i] = Len(log) + 1 - n + i
<1> DEFINE r == Remember(Len(log) + 1)
           n == IF Len(log) > Kept THEN Kept ELSE Len(log)
           m == IF Len(log) + 1 > Kept THEN Kept ELSE Len(log) + 1
<1>0. Len(log) \in Nat /\ Kept \in Nat \ {0} /\ backlog \in Seq(Nat)
  BY EventsAssumption DEF TypeOK
<1>1. /\ n \in Nat /\ Len(backlog) = n
      /\ \A i \in 1..n : backlog[i] = Len(log) - n + i
  <2>1. backlog = [i \in 1..n |-> Len(log) - n + i]
    BY DEF BacklogHolds
  <2>2. n \in Nat
    BY <1>0
  <2> HIDE DEF n
  <2> QED BY <1>0, <2>1, <2>2
<1>2. CASE Len(backlog) < Kept
  <2>1. r = Append(backlog, Len(log) + 1) /\ m = n + 1
    BY <1>0, <1>1, <1>2 DEF Remember
  <2>2. /\ Append(backlog, Len(log) + 1) \in Seq(Nat)
        /\ Len(Append(backlog, Len(log) + 1)) = m
        /\ \A i \in 1..m : Append(backlog, Len(log) + 1)[i] = IF i <= n THEN backlog[i] ELSE Len(log) + 1
    BY <1>0, <1>1, <2>1
  <2>3. m = Len(log) + 1
    BY <1>0, <1>1, <1>2
  <2> HIDE DEF r, m, n
  <2>4. ASSUME NEW i \in 1..m PROVE r[i] = Len(log) + 1 - m + i
    BY <1>0, <1>1, <2>1, <2>2, <2>3
  <2> QED BY <2>1, <2>2, <2>4 DEF r, m
<1>3. CASE ~(Len(backlog) < Kept)
  <2> DEFINE u == Tail(backlog)
  <2>1. backlog # << >> /\ n = Kept /\ m = Kept
    BY <1>0, <1>1, <1>3, EmptySeq
  <2>2. u \in Seq(Nat) /\ Len(u) = Kept - 1 /\ \A i \in 1..(Kept - 1) : u[i] = backlog[i + 1]
    BY <1>0, <1>1, <2>1, HeadTailProperties
  <2>3. r = Append(u, Len(log) + 1)
    BY <1>3 DEF Remember
  <2>4. Len(log) >= Kept
    BY <1>0, <2>1
  <2> HIDE DEF u
  <2>5. /\ Append(u, Len(log) + 1) \in Seq(Nat)
        /\ Len(Append(u, Len(log) + 1)) = Kept
        /\ \A i \in 1..Kept : Append(u, Len(log) + 1)[i] = IF i < Kept THEN u[i] ELSE Len(log) + 1
    BY <1>0, <2>2
  <2> HIDE DEF r, m, n
  <2>6. ASSUME NEW i \in 1..Kept PROVE r[i] = Len(log) + 1 - Kept + i
    <3>1. CASE i < Kept
      <4>1. i \in 1..(Kept - 1) /\ i + 1 \in 1..Kept
        BY <1>0, <3>1
      <4>2. r[i] = backlog[i + 1]
        BY <2>2, <2>3, <2>5, <3>1, <4>1
      <4> QED BY <1>0, <1>1, <2>1, <4>1, <4>2
    <3>2. CASE i = Kept
      BY <1>0, <2>3, <2>5, <3>2
    <3> QED BY <1>0, <3>1, <3>2
  <2> QED BY <2>1, <2>3, <2>5, <2>6 DEF r, m
<1> QED BY <1>2, <1>3

\* What the first iterator takes over.
LEMMA BacklogIs ==
  ASSUME TypeOK, BacklogHolds
  PROVE  /\ Backlog \in Seq(Nat) /\ Len(Backlog) \in 0..Len(log) /\ Len(log) \in Nat
         /\ \A i \in 1..Len(Backlog) : Backlog[i] = Len(log) - Len(Backlog) + i
<1>1. CASE backlog = None
  BY <1>1, EmptySeq DEF TypeOK, Backlog
<1>2. CASE backlog # None
  <2>1. Len(log) \in Nat /\ Kept \in Nat \ {0} /\ backlog \in Seq(Nat) /\ Backlog = backlog
    BY <1>2, EventsAssumption DEF TypeOK, Backlog
  <2> DEFINE n == IF Len(log) > Kept THEN Kept ELSE Len(log)
  <2>2. backlog = [i \in 1..n |-> Len(log) - n + i]
    BY <1>2 DEF BacklogHolds
  <2>3. n \in 0..Len(log)
    BY <2>1
  <2> HIDE DEF n
  <2> QED BY <2>1, <2>2, <2>3
<1> QED BY <1>1, <1>2

LEMMA TypeStep ==
  ASSUME TypeOK, Steady, BacklogHolds, Registered, [Next]_vars
  PROVE  TypeOK'
<1> USE EventsAssumption
<1>1. CASE ConnectBegin
  BY <1>1, SMTT(30) DEF ConnectBegin, pump, shared, iters, TypeOK
<1>2. CASE ConnectDone
  BY <1>2 DEF ConnectDone, shared, iters, Steady, TypeOK
<1>3. CASE ConnectFails
  BY <1>3 DEF ConnectFails, pump, shared, iters, TypeOK
<1>4. CASE LinkEnds
  BY <1>4 DEF LinkEnds, pump, shared, iters, TypeOK
<1>5. CASE LeaveBegin
  BY <1>5 DEF LeaveBegin, pump, shared, iters, TypeOK
<1>6. CASE CancelPump
  BY <1>6 DEF CancelPump, caller, shared, iters, TypeOK
<1>7. CASE LeaveDone
  BY <1>7 DEF LeaveDone, shared, iters, TypeOK
<1>8. CASE LeaveRaises
  BY <1>8 DEF LeaveRaises, pump, shared, iters, TypeOK
<1>9. CASE ReadFrame
  BY <1>9, FrameRead DEF caller, shared, iters, TypeOK
<1>10. CASE ReadEnd
  BY <1>10 DEF ReadEnd, caller, shared, iters, TypeOK
<1>11. CASE PublishItem
  <2>1. conn \in 1..MaxConn /\ Len(log) \in Nat /\ log \in Seq([conn : 1..MaxConn, end : BOOLEAN])
    BY <1>11 DEF PublishItem, Steady, TypeOK
  <2>2. log' \in Seq([conn : 1..MaxConn, end : BOOLEAN]) /\ Len(log') = Len(log) + 1
    BY <1>11, <2>1 DEF PublishItem
  <2>3. CASE subs = << >>
    <3>1. backlog' = IF backlog = None THEN None ELSE Remember(Len(log) + 1)
      BY <1>11, <2>2, <2>3 DEF PublishItem
    <3>2. backlog' \in Seq(Nat) \cup {None} /\ (backlog' # None => Len(backlog') <= Kept)
      <4>1. CASE backlog = None
        BY <3>1, <4>1
      <4>2. CASE backlog # None
        <5>1. Remember(Len(log) + 1) \in Seq(Nat) /\ Len(Remember(Len(log) + 1)) <= Kept
          BY <2>1, <4>2, Remembered
        <5> QED BY <3>1, <4>2, <5>1
      <4> QED BY <4>1, <4>2
    <3> QED BY <1>11, <2>2, <2>3, <3>2 DEF PublishItem, Published, caller, iters, Steady, TypeOK
  <2>4. CASE subs # << >>
    BY <1>11, <2>2, <2>4 DEF PublishItem, caller, iters, TypeOK
  <2> QED BY <2>3, <2>4
<1>12. CASE Post
  <2>1. Head(todo) \in Subs /\ Tail(todo) \in Seq(Subs) /\ (Len(todo) = 1 <=> Tail(todo) = << >>)
    <3>1. todo \in Seq(Subs) /\ todo # << >> /\ Distinct(todo)
      BY <1>12 DEF Post, Registered, TypeOK
    <3> QED BY <3>1, Posted
  <2>2. posted' \in [Subs -> Seq(Nat)]
    <3>1. posted \in [Subs -> Seq(Nat)] /\ Len(log) \in Nat
      BY DEF TypeOK
    <3> QED BY <1>12, <2>1, <3>1 DEF Post
  <2>3. CASE Len(todo) = 1
    <3>1. rest' \in 0..MaxBurst /\ fin' = fin
      <4>1. Published /\ io = "posting" /\ rest \in 0..MaxBurst /\ (fin = "no" => rest >= 1)
        BY <1>12, <2>3 DEF Post, Steady, TypeOK
      <4> QED BY <4>1 DEF Published
    <3>2. io' \in {"reading", "locking", "done", "crashed"}
      BY <1>12, <2>3 DEF Post, Published, Steady, TypeOK
    <3> QED BY <1>12, <2>1, <2>2, <2>3, <3>1, <3>2 DEF Post, shared, caller, TypeOK
  <2>4. CASE Len(todo) # 1
    BY <1>12, <2>1, <2>2, <2>4 DEF Post, shared, caller, TypeOK
  <2> QED BY <2>3, <2>4
<1>13. CASE PostRaises
  BY <1>13 DEF PostRaises, caller, shared, iters, TypeOK
<1>14. ASSUME NEW s \in Subs, Subscribe(s) PROVE TypeOK'
  <2>1. Backlog \in Seq(Nat) /\ Len(Backlog) \in Nat /\ Len(Backlog) <= Len(log) /\ Len(log) \in Nat
    BY BacklogIs
  <2>2. queue' \in [Subs -> Seq(Nat)] /\ pos' \in [Subs -> Nat] /\ of' \in [Subs -> 0..MaxConn]
    <3>1. /\ queue \in [Subs -> Seq(Nat)] /\ pos \in [Subs -> Nat]
          /\ of \in [Subs -> 0..MaxConn] /\ conn \in 0..MaxConn
      BY DEF TypeOK
    <3>2. Len(log) - Len(Backlog) + 1 \in Nat
      BY <2>1
    <3> QED BY <1>14, <2>1, <3>1, <3>2 DEF Subscribe
  <2>3. subs' \in Seq(Subs) /\ iter' \in [Subs -> {"new", "reading", "over", "quit"}] /\ backlog' = None
    BY <1>14 DEF Subscribe, Taken, TypeOK
  <2> QED BY <1>14, <2>2, <2>3 DEF Subscribe, caller, pump, TypeOK
<1>15. ASSUME NEW s \in Subs, PutItem(s) PROVE TypeOK'
  <2>1. /\ posted[s] \in Seq(Nat) /\ posted[s] # << >>
        /\ queue \in [Subs -> Seq(Nat)] /\ posted \in [Subs -> Seq(Nat)]
    BY <1>15 DEF PutItem, TypeOK
  <2>2. queue' \in [Subs -> Seq(Nat)] /\ posted' \in [Subs -> Seq(Nat)]
    BY <1>15, <2>1 DEF PutItem
  <2>3. UNCHANGED <<caller, pump, shared, iter, closed, log, pos, of>>
    BY <1>15 DEF PutItem
  <2>4. UNCHANGED <<phase, conn, link, io, rest, fin, todo, backlog, subs, iter, closed, log, pos, of>>
    BY <2>3 DEF caller, pump, shared
  <2> QED BY <2>2, <2>4 DEF TypeOK
<1>16. ASSUME NEW s \in Subs, Take(s) PROVE TypeOK'
  <2>1. /\ queue[s] \in Seq(Nat) /\ queue[s] # << >>
        /\ queue \in [Subs -> Seq(Nat)] /\ pos \in [Subs -> Nat]
    BY <1>16 DEF Take, TypeOK
  <2>2. queue' \in [Subs -> Seq(Nat)] /\ pos' \in [Subs -> Nat]
    BY <1>16, <2>1 DEF Take
  <2>3. iter' \in [Subs -> {"new", "reading", "over", "quit"}]
    BY <1>16 DEF Take, TypeOK
  <2>4. UNCHANGED <<caller, pump, shared, posted, closed, log, of>>
    BY <1>16 DEF Take
  <2>5. UNCHANGED <<phase, conn, link, io, rest, fin, todo, backlog, subs, posted, closed, log, of>>
    BY <2>4 DEF caller, pump, shared
  <2> QED BY <2>2, <2>3, <2>5 DEF TypeOK
<1>17. ASSUME NEW s \in Subs, Quit(s) PROVE TypeOK'
  BY <1>17 DEF Quit, caller, pump, shared, TypeOK
<1>18. ASSUME NEW s \in Subs, Unsubscribe(s) PROVE TypeOK'
  <2>1. subs' \in Seq(Subs)
    BY <1>18, Removed DEF Unsubscribe, Registered, TypeOK
  <2> QED BY <1>18, <2>1 DEF Unsubscribe, caller, pump, iters, TypeOK
<1>19. ASSUME NEW s \in Subs, CloseLoop(s) PROVE TypeOK'
  BY <1>19 DEF CloseLoop, caller, pump, shared, TypeOK
<1>20. CASE UNCHANGED vars
  BY <1>20 DEF vars, caller, pump, shared, iters, TypeOK
<1> QED
  BY <1>1, <1>2, <1>3, <1>4, <1>5, <1>6, <1>7, <1>8, <1>9, <1>10, <1>11, <1>12, <1>13,
     <1>14, <1>15, <1>16, <1>17, <1>18, <1>19, <1>20 DEF Next, Pump, Iterator

\* If there is a subscriber, some iterator has run.
LEMMA Listed ==
  ASSUME subs \in Seq(Subs), Registered, subs # << >>
  PROVE  \E s \in Subs : iter[s] # "new"
<1>1. subs[1] \in Subs /\ 1 \in 1..Len(subs)
  BY EmptySeq
<1>2. subs[1] \in Range(subs)
  BY <1>1, RangeEquality
<1> QED BY <1>1, <1>2 DEF Registered

LEMMA BacklogStep ==
  ASSUME TypeOK, BacklogHolds, Registered, [Next]_vars
  PROVE  BacklogHolds'
<1>0. ASSUME UNCHANGED <<backlog, log>> PROVE BacklogHolds'
  BY <1>0 DEF BacklogHolds
<1>1. CASE ConnectBegin
  BY <1>1, <1>0 DEF ConnectBegin, pump, shared, iters
<1>2. CASE ConnectDone
  BY <1>2, <1>0 DEF ConnectDone, shared, iters
<1>3. CASE ConnectFails
  BY <1>3, <1>0 DEF ConnectFails, pump, shared, iters
<1>4. CASE LinkEnds
  BY <1>4, <1>0 DEF LinkEnds, pump, shared, iters
<1>5. CASE LeaveBegin
  BY <1>5, <1>0 DEF LeaveBegin, pump, shared, iters
<1>6. CASE CancelPump
  BY <1>6, <1>0 DEF CancelPump, caller, shared, iters
<1>7. CASE LeaveDone
  BY <1>7, <1>0 DEF LeaveDone, shared, iters
<1>8. CASE LeaveRaises
  BY <1>8, <1>0 DEF LeaveRaises, pump, shared, iters
<1>9. CASE ReadFrame
  BY <1>9, <1>0, FrameRead DEF shared
<1>10. CASE ReadEnd
  BY <1>10, <1>0 DEF ReadEnd, caller, shared, iters
<1>11. CASE PublishItem
  <2>1. Len(log) \in Nat /\ log' = Append(log, [conn |-> conn, end |-> fin # "no"])
    BY <1>11 DEF PublishItem, TypeOK
  <2>2. Len(log') = Len(log) + 1
    BY <2>1 DEF TypeOK
  <2>3. CASE subs = << >>
    <3>1. CASE backlog = None
      BY <1>11, <2>3, <3>1 DEF PublishItem, BacklogHolds
    <3>2. CASE backlog # None
      <4> DEFINE r == Remember(Len(log) + 1)
                 n == IF Len(log) + 1 > Kept THEN Kept ELSE Len(log) + 1
      <4>1. backlog' = r
        BY <1>11, <2>2, <2>3, <3>2 DEF PublishItem
      <4>2. r \in Seq(Nat) /\ Len(r) = n /\ \A i \in 1..n : r[i] = Len(log) + 1 - n + i
        BY <3>2, Remembered
      <4> HIDE DEF r, n
      <4>3. n = IF Len(log') > Kept THEN Kept ELSE Len(log')
        BY <2>2 DEF n
      <4>4. backlog' = [i \in 1..n |-> Len(log') - n + i]
        <5>0. n \in Nat /\ Len(log') \in Nat
          BY <2>1, <2>2, EventsAssumption DEF n
        <5>1. \A i \in 1..n : r[i] = Len(log') - n + i
          BY <2>1, <2>2, <4>2, <5>0
        <5> QED BY <4>1, <4>2, <5>0, <5>1
      <4> QED BY <4>3, <4>4 DEF BacklogHolds
    <3> QED BY <3>1, <3>2
  <2>4. CASE subs # << >>
    <3>1. backlog = None
      BY <2>4, Listed DEF Registered, TypeOK
    <3> QED BY <1>11, <2>4, <3>1 DEF PublishItem, BacklogHolds
  <2> QED BY <2>3, <2>4
<1>12. CASE Post
  BY <1>12, <1>0 DEF Post, caller, shared, Published
<1>13. CASE PostRaises
  BY <1>13, <1>0 DEF PostRaises, caller, shared, iters
<1>14. ASSUME NEW s \in Subs, Subscribe(s) PROVE BacklogHolds'
  BY <1>14 DEF Subscribe, Taken, BacklogHolds
<1>15. ASSUME NEW s \in Subs, PutItem(s) PROVE BacklogHolds'
  BY <1>15, <1>0 DEF PutItem, caller, pump, shared
<1>16. ASSUME NEW s \in Subs, Take(s) PROVE BacklogHolds'
  BY <1>16, <1>0 DEF Take, caller, pump, shared
<1>17. ASSUME NEW s \in Subs, Quit(s) PROVE BacklogHolds'
  BY <1>17, <1>0 DEF Quit, caller, pump, shared
<1>18. ASSUME NEW s \in Subs, Unsubscribe(s) PROVE BacklogHolds'
  BY <1>18, <1>0 DEF Unsubscribe, caller, pump, iters
<1>19. ASSUME NEW s \in Subs, CloseLoop(s) PROVE BacklogHolds'
  BY <1>19, <1>0 DEF CloseLoop, caller, pump, shared
<1>20. CASE UNCHANGED vars
  BY <1>20, <1>0 DEF vars, caller, pump, shared, iters
<1> QED
  BY <1>1, <1>2, <1>3, <1>4, <1>5, <1>6, <1>7, <1>8, <1>9, <1>10, <1>11, <1>12, <1>13,
     <1>14, <1>15, <1>16, <1>17, <1>18, <1>19, <1>20 DEF Next, Pump, Iterator

LEMMA RegisteredStep ==
  ASSUME TypeOK, BacklogHolds, Registered, [Next]_vars
  PROVE  Registered'
<1>0. ASSUME UNCHANGED <<subs, todo, iter, posted, closed, backlog>> PROVE Registered'
  BY <1>0 DEF Registered
<1>1. CASE ConnectBegin
  BY <1>1, <1>0 DEF ConnectBegin, pump, shared, iters
<1>2. CASE ConnectDone
  BY <1>2, <1>0 DEF ConnectDone, shared, iters
<1>3. CASE ConnectFails
  BY <1>3, <1>0 DEF ConnectFails, pump, shared, iters
<1>4. CASE LinkEnds
  BY <1>4, <1>0 DEF LinkEnds, pump, shared, iters
<1>5. CASE LeaveBegin
  BY <1>5, <1>0 DEF LeaveBegin, pump, shared, iters
<1>6. CASE CancelPump
  BY <1>6, <1>0 DEF CancelPump, caller, shared, iters
<1>7. CASE LeaveDone
  BY <1>7, <1>0 DEF LeaveDone, shared, iters
<1>8. CASE LeaveRaises
  BY <1>8, <1>0 DEF LeaveRaises, pump, shared, iters
<1>9. CASE ReadFrame
  BY <1>9, <1>0, FrameRead DEF shared, iters
<1>10. CASE ReadEnd
  BY <1>10, <1>0 DEF ReadEnd, caller, shared, iters
<1>11. CASE PublishItem
  <2>1. Len(log) \in Nat /\ log' = Append(log, [conn |-> conn, end |-> fin # "no"])
    BY <1>11 DEF PublishItem, TypeOK
  <2>2. Len(log') = Len(log) + 1
    BY <2>1 DEF TypeOK
  <2>3. CASE subs = << >>
    <3>1. backlog' = IF backlog = None THEN None ELSE Remember(Len(log) + 1)
      BY <1>11, <2>2, <2>3 DEF PublishItem
    <3>2. backlog' = None <=> backlog = None
      BY <3>1, Remembered, EventsAssumption
    <3> QED BY <1>11, <2>3, <3>2 DEF PublishItem, Registered, iters
  <2>4. CASE subs # << >>
    BY <1>11, <2>4 DEF PublishItem, Registered, iters
  <2> QED BY <2>3, <2>4
<1>12. CASE Post
  <2>1. todo \in Seq(Subs) /\ todo # << >> /\ Distinct(todo)
    BY <1>12 DEF Post, Registered, TypeOK
  <2>2. /\ Distinct(Tail(todo)) /\ Range(Tail(todo)) \subseteq Range(todo)
        /\ Head(todo) \in Range(todo) /\ Head(todo) \in Subs
    BY <2>1, Posted
  <2>3. \A s \in Subs : iter[s] = "new" => posted'[s] = posted[s]
    BY <1>12, <2>2 DEF Post, Registered, TypeOK
  <2> QED BY <1>12, <2>2, <2>3 DEF Post, Registered, shared
<1>13. CASE PostRaises
  <2>1. Distinct(<< >>)
    BY DEF Distinct
  <2> QED BY <1>13, <2>1, EmptyRange DEF PostRaises, Registered, shared, iters
<1>14. ASSUME NEW s \in Subs, Subscribe(s) PROVE Registered'
  <2>1. subs \in Seq(Subs) /\ Distinct(subs) /\ s \notin Range(subs) /\ subs' = Append(subs, s)
    BY <1>14 DEF Subscribe, Registered, TypeOK
  <2>2. Distinct(subs') /\ Range(subs') = Range(subs) \cup {s}
    BY <2>1, Appended
  <2>3. iter'[s] = "reading" /\ \A r \in Subs \ {s} : iter'[r] = iter[r]
    BY <1>14 DEF Subscribe, TypeOK
  <2>4. s \notin closed /\ backlog' = None /\ UNCHANGED <<todo, posted, closed>>
    BY <1>14 DEF Subscribe, Taken, Registered, pump
  <2>5. \E r \in Subs : iter'[r] # "new"
    BY <2>3
  <2> QED BY <2>2, <2>3, <2>4, <2>5 DEF Registered
<1>15. ASSUME NEW s \in Subs, PutItem(s) PROVE Registered'
  <2>1. iter[s] # "new" /\ \A r \in Subs \ {s} : posted'[r] = posted[r]
    BY <1>15 DEF PutItem, Registered, TypeOK
  <2> QED BY <1>15, <2>1 DEF PutItem, Registered, pump, shared
<1>16. ASSUME NEW s \in Subs, Take(s) PROVE Registered'
  <2>1. /\ iter[s] = "reading" /\ iter'[s] \in {"reading", "over", "quit"}
        /\ \A r \in Subs \ {s} : iter'[r] = iter[r]
    BY <1>16 DEF Take, TypeOK
  <2>2. s \in Range(subs) /\ s \notin closed /\ UNCHANGED <<subs, todo, posted, closed, backlog>>
    BY <1>16 DEF Take, Registered, pump, shared
  <2>3. backlog = None /\ \E r \in Subs : iter'[r] # "new"
    BY <2>1 DEF Registered
  <2> QED BY <2>1, <2>2, <2>3 DEF Registered
<1>17. ASSUME NEW s \in Subs, Quit(s) PROVE Registered'
  <2>1. /\ iter[s] = "reading" /\ iter'[s] \in {"reading", "over", "quit"}
        /\ \A r \in Subs \ {s} : iter'[r] = iter[r]
    BY <1>17 DEF Quit, TypeOK
  <2>2. s \in Range(subs) /\ s \notin closed /\ UNCHANGED <<subs, todo, posted, closed, backlog>>
    BY <1>17 DEF Quit, Registered, pump, shared
  <2>3. backlog = None /\ \E r \in Subs : iter'[r] # "new"
    BY <2>1 DEF Registered
  <2> QED BY <2>1, <2>2, <2>3 DEF Registered
<1>18. ASSUME NEW s \in Subs, Unsubscribe(s) PROVE Registered'
  <2>1. subs \in Seq(Subs) /\ s \in Range(subs) /\ subs' = Without(s) /\ iter[s] \in {"over", "quit"}
    BY <1>18 DEF Unsubscribe, TypeOK
  <2>2. Distinct(subs') /\ Range(subs') = Range(subs) \ {s}
    BY <2>1, Removed DEF Registered
  <2> QED BY <1>18, <2>1, <2>2 DEF Unsubscribe, Registered, pump, iters
<1>19. ASSUME NEW s \in Subs, CloseLoop(s) PROVE Registered'
  BY <1>19 DEF CloseLoop, Registered, pump, shared
<1>20. CASE UNCHANGED vars
  BY <1>20, <1>0 DEF vars, caller, pump, shared, iters
<1> QED
  BY <1>1, <1>2, <1>3, <1>4, <1>5, <1>6, <1>7, <1>8, <1>9, <1>10, <1>11, <1>12, <1>13,
     <1>14, <1>15, <1>16, <1>17, <1>18, <1>19, <1>20 DEF Next, Pump, Iterator

-----------------------------------------------------------------------------
(* What comes to a reading iterator *)

LEMMA Parted ==
  ASSUME NEW q \in Seq(Nat), q # << >>
  PROVE  q = <<Head(q)>> \o Tail(q) /\ Head(q) \in Nat /\ Tail(q) \in Seq(Nat)
<1>1. 1 \in 1..Len(q) /\ Len(q) \in 1..Len(q) /\ Head(q) = q[1] /\ Head(q) \in Nat
  BY EmptySeq, HeadTailProperties
<1>2. SubSeq(q, 1, Len(q)) = <<q[1]>> \o SubSeq(q, 2, Len(q))
  BY <1>1, SubSeqRecursiveFirst
<1> QED BY <1>1, <1>2, SubSeqFull, TailIsSubSeq, HeadTailProperties

LEMMA Joined ==
  ASSUME NEW h \in Nat, NEW w \in Seq(Nat)
  PROVE  Head(<<h>> \o w) = h /\ Tail(<<h>> \o w) = w /\ <<h>> \o w # << >>
<1> DEFINE c == <<h>> \o w
<1>1. <<h>> \in Seq(Nat) /\ Len(<<h>>) = 1 /\ <<h>>[1] = h /\ Len(w) \in Nat
  OBVIOUS
<1>2. /\ c \in Seq(Nat) /\ Len(c) = 1 + Len(w)
      /\ \A i \in 1..(1 + Len(w)) : c[i] = IF i <= 1 THEN <<h>>[i] ELSE w[i - 1]
  BY <1>1, ConcatProperties
<1> HIDE DEF c
<1>3. c # << >> /\ Head(c) = h
  BY <1>1, <1>2, EmptySeq
<1>4. Tail(c) \in Seq(Nat) /\ Len(Tail(c)) = Len(w)
  BY <1>1, <1>2, <1>3, HeadTailProperties
<1>5. ASSUME NEW i \in 1..Len(w) PROVE Tail(c)[i] = w[i]
  <2>1. Tail(c)[i] = c[i + 1]
    BY <1>2, <1>3, <1>4, HeadTailProperties
  <2>2. i + 1 \in 1..(1 + Len(w)) /\ ~(i + 1 <= 1) /\ (i + 1) - 1 = i
    BY <1>1
  <2> QED BY <1>2, <2>1, <2>2
<1>6. Tail(c) = w
  BY <1>4, <1>5, SeqEqual
<1> QED BY <1>3, <1>6 DEF c

\* Moving an item from the loop's callbacks to the queue changes nothing.
LEMMA Shifted ==
  ASSUME NEW q \in Seq(Nat), NEW p \in Seq(Nat), p # << >>
  PROVE  Append(q, Head(p)) \o Tail(p) = q \o p
<1>1. p = <<Head(p)>> \o Tail(p) /\ Head(p) \in Nat /\ Tail(p) \in Seq(Nat)
  BY Parted
<1>2. Append(q, Head(p)) = q \o <<Head(p)>> /\ <<Head(p)>> \in Seq(Nat)
  BY <1>1, AppendIsConcat
<1>3. (q \o <<Head(p)>>) \o Tail(p) = q \o (<<Head(p)>> \o Tail(p))
  <2> DEFINE h == <<Head(p)>>
             t == Tail(p)
  <2>1. h \in Seq(Nat) /\ t \in Seq(Nat)
    BY <1>1, <1>2
  <2> HIDE DEF h, t
  <2>2. (q \o h) \o t = q \o (h \o t)
    BY <2>1, ConcatAssociative, SMTT(30)
  <2> QED BY <2>2 DEF h, t
<1> QED BY <1>1, <1>2, <1>3, ZenonT(30)

\* Taking an item from the queue takes it from all that comes.
LEMMA TakenFirst ==
  ASSUME NEW q \in Seq(Nat), NEW p \in Seq(Nat), q # << >>
  PROVE  Tail(q) \o p = Tail(q \o p) /\ Head(q \o p) = Head(q) /\ q \o p # << >>
<1>1. q = <<Head(q)>> \o Tail(q) /\ Head(q) \in Nat /\ Tail(q) \in Seq(Nat)
  BY Parted
<1>2. <<Head(q)>> \in Seq(Nat) /\ Tail(q) \o p \in Seq(Nat)
  BY <1>1, ConcatProperties
<1>3. q \o p = <<Head(q)>> \o (Tail(q) \o p)
  BY <1>1, <1>2, ConcatAssociative
<1> QED BY <1>1, <1>2, <1>3, Joined

Due(s) == IF s \in Range(todo) THEN <<Len(log)>> ELSE << >>

LEMMA ComingIs ==
  ASSUME TypeOK, NEW s \in Subs
  PROVE  /\ Coming(s) = (queue[s] \o posted[s]) \o Due(s) /\ Coming(s) \in Seq(Nat)
         /\ queue[s] \in Seq(Nat) /\ posted[s] \in Seq(Nat) /\ queue[s] \o posted[s] \in Seq(Nat)
         /\ Due(s) \in Seq(Nat) /\ Len(log) \in Nat
<1>1. queue[s] \in Seq(Nat) /\ posted[s] \in Seq(Nat) /\ Len(log) \in Nat
  BY DEF TypeOK
<1>2. Due(s) \in Seq(Nat)
  BY <1>1 DEF Due
<1>3. queue[s] \o posted[s] \in Seq(Nat)
  BY <1>1, ConcatProperties
<1>4. (queue[s] \o posted[s]) \o Due(s) \in Seq(Nat)
  BY <1>2, <1>3, ConcatProperties
<1> QED BY <1>1, <1>2, <1>3, <1>4 DEF Coming, Due

\* Posting an item appends it to all that comes.
LEMMA Pushed ==
  ASSUME NEW q \in Seq(Nat), NEW p \in Seq(Nat), NEW n \in Nat
  PROVE  Append(q, n) = q \o <<n>> /\ q \o Append(p, n) = (q \o p) \o <<n>>
<1>1. <<n>> \in Seq(Nat)
  OBVIOUS
<1>2. Append(q, n) = q \o <<n>> /\ Append(p, n) = p \o <<n>>
  BY AppendIsConcat
<1>3. (q \o p) \o <<n>> = q \o (p \o <<n>>)
  BY <1>1, ConcatAssociative
<1> QED BY <1>2, <1>3

\* The five ways in which a step leaves an iterator reading: an item is published,
\* nothing happens to it, the pump dies before it posts the item, it starts, it
\* takes an item.
ComesBy(s) ==
  \/ /\ iter[s] = "reading" /\ pos'[s] = pos[s]
     /\ Len(log') = Len(log) + 1 /\ Coming(s)' = Append(Coming(s), Len(log) + 1)
  \/ /\ iter[s] = "reading" /\ pos'[s] = pos[s]
     /\ Len(log') = Len(log) /\ Coming(s)' = Coming(s)
  \/ /\ iter[s] = "reading" /\ pos'[s] = pos[s] /\ closed # {}
     /\ Len(log') = Len(log) /\ Coming(s)' = queue[s] \o posted[s]
     /\ Coming(s) = Append(queue[s] \o posted[s], Len(log))
  \/ /\ iter[s] = "new" /\ pos'[s] = Len(log) - Len(Backlog) + 1
     /\ Len(log') = Len(log) /\ Coming(s)' = Backlog
  \/ /\ iter[s] = "reading" /\ queue[s] # << >> /\ Coming(s) # << >>
     /\ Head(queue[s]) = Head(Coming(s)) /\ pos'[s] = Head(Coming(s)) + 1
     /\ Len(log') = Len(log) /\ Coming(s)' = Tail(Coming(s))

LEMMA Comes ==
  ASSUME TypeOK, BacklogHolds, Registered, [Next]_vars, NEW s \in Subs, iter'[s] = "reading"
  PROVE  ComesBy(s)
<1> USE DEF ComesBy
<1> DEFINE q == queue[s]
           p == posted[s]
           d == Due(s)
<1>a. /\ Coming(s) = (q \o p) \o d /\ q \in Seq(Nat) /\ p \in Seq(Nat) /\ d \in Seq(Nat)
      /\ q \o p \in Seq(Nat) /\ Len(log) \in Nat /\ Coming(s) \in Seq(Nat)
  BY ComingIs
<1>b. Coming(s)' = (queue'[s] \o posted'[s]) \o Due(s)'
  BY DEF Coming, Due
<1>0. ASSUME UNCHANGED <<iter, queue, posted, todo, log, pos>> PROVE ComesBy(s)
  BY <1>0 DEF Coming
<1>1. CASE ConnectBegin
  BY <1>1, <1>0 DEF ConnectBegin, pump, shared, iters
<1>2. CASE ConnectDone
  BY <1>2, <1>0 DEF ConnectDone, shared, iters
<1>3. CASE ConnectFails
  BY <1>3, <1>0 DEF ConnectFails, pump, shared, iters
<1>4. CASE LinkEnds
  BY <1>4, <1>0 DEF LinkEnds, pump, shared, iters
<1>5. CASE LeaveBegin
  BY <1>5, <1>0 DEF LeaveBegin, pump, shared, iters
<1>6. CASE CancelPump
  BY <1>6, <1>0 DEF CancelPump, caller, shared, iters
<1>7. CASE LeaveDone
  BY <1>7, <1>0 DEF LeaveDone, shared, iters
<1>8. CASE LeaveRaises
  BY <1>8, <1>0 DEF LeaveRaises, pump, shared, iters
<1>9. CASE ReadFrame
  BY <1>9, <1>0, FrameRead DEF iters
<1>10. CASE ReadEnd
  BY <1>10, <1>0 DEF ReadEnd, caller, shared, iters
<1>11. CASE PublishItem
  <2>1. /\ iter[s] = "reading" /\ pos' = pos /\ Len(log') = Len(log) + 1
        /\ queue' = queue /\ posted' = posted
    BY <1>11 DEF PublishItem, iters, TypeOK
  <2>2. todo = << >> /\ Due(s) = << >>
    BY <1>11, EmptyRange DEF PublishItem, TypeOK, Due
  <2>3. s \in Range(subs) /\ subs # << >>
    BY <2>1, EmptyRange DEF Registered
  <2>4. todo' = subs /\ Due(s)' = <<Len(log) + 1>>
    BY <1>11, <2>1, <2>3 DEF PublishItem, Due
  <2>5. Coming(s) = q \o p /\ Coming(s)' = (q \o p) \o <<Len(log) + 1>>
    BY <1>a, <1>b, <2>1, <2>2, <2>4, ConcatEmptySeq
  <2>6. Coming(s)' = Append(Coming(s), Len(log) + 1)
    <3>1. Len(log) + 1 \in Nat
      BY <1>a
    <3>2. Append(q \o p, Len(log) + 1) = (q \o p) \o <<Len(log) + 1>>
      BY <1>a, <3>1, Pushed, Zenon
    <3> QED BY <2>5, <3>2, Zenon
  <2> QED BY <2>1, <2>6
<1>12. CASE Post
  <2>1. todo \in Seq(Subs) /\ todo # << >> /\ Distinct(todo)
    BY <1>12 DEF Post, Registered, TypeOK
  <2>2. /\ Range(todo') = Range(todo) \ {Head(todo)} /\ Head(todo) \in Range(todo)
        /\ Head(todo) \in Subs
    BY <1>12, <2>1, Posted DEF Post
  <2>3. /\ iter[s] = "reading" /\ pos' = pos /\ log' = log /\ queue' = queue
        /\ posted' = [posted EXCEPT ![Head(todo)] = Append(@, Len(log))]
        /\ posted \in [Subs -> Seq(Nat)]
    BY <1>12 DEF Post, shared, TypeOK
  <2>4. CASE s = Head(todo)
    <3>1. d = <<Len(log)>> /\ Due(s)' = << >> /\ posted'[s] = Append(p, Len(log))
      BY <2>2, <2>3, <2>4 DEF Due
    <3>3. q \o posted'[s] = (q \o p) \o <<Len(log)>>
      <4>1. q \o Append(p, Len(log)) = (q \o p) \o <<Len(log)>>
        BY <1>a, Pushed, Zenon
      <4> QED BY <3>1, <4>1
    <3>4. Coming(s)' = Coming(s) \o << >>
      BY <1>a, <1>b, <2>3, <3>1, <3>3
    <3> QED BY <1>a, <2>3, <3>4, ConcatEmptySeq
  <2>5. CASE s # Head(todo)
    <3>1. Due(s)' = d /\ posted'[s] = p
      BY <2>2, <2>3, <2>5 DEF Due
    <3> QED BY <1>a, <1>b, <2>3, <3>1
  <2> QED BY <2>4, <2>5
<1>13. CASE PostRaises
  <2>1. /\ closed # {} /\ iter[s] = "reading" /\ pos' = pos /\ log' = log
        /\ queue' = queue /\ posted' = posted /\ todo' = << >>
    BY <1>13 DEF PostRaises, iters
  <2>2. Due(s)' = << >>
    BY <2>1, EmptyRange DEF Due
  <2>3. Coming(s)' = q \o p
    BY <1>a, <1>b, <2>1, <2>2, ConcatEmptySeq
  <2>4. CASE s \in Range(todo)
    <3>1. Coming(s) = Append(q \o p, Len(log))
      BY <1>a, <2>4, AppendIsConcat DEF Due
    <3> QED BY <2>1, <2>3, <3>1
  <2>5. CASE s \notin Range(todo)
    <3>1. Coming(s) = q \o p
      BY <1>a, <2>5, ConcatEmptySeq DEF Due
    <3> QED BY <2>1, <2>3, <3>1
  <2> QED BY <2>4, <2>5
<1>14. ASSUME NEW r \in Subs, Subscribe(r) PROVE ComesBy(s)
  <2>1. CASE r # s
    <3>1. /\ iter'[s] = iter[s] /\ queue'[s] = q /\ pos'[s] = pos[s]
          /\ posted' = posted /\ todo' = todo /\ log' = log
      BY <1>14, <2>1 DEF Subscribe, pump, TypeOK
    <3> QED BY <3>1 DEF Coming
  <2>2. CASE r = s
    <3>1. /\ iter[s] = "new" /\ queue'[s] = Backlog /\ pos'[s] = Len(log) - Len(Backlog) + 1
          /\ posted' = posted /\ todo' = todo /\ log' = log
      BY <1>14, <2>2 DEF Subscribe, pump, TypeOK
    <3>2. p = << >> /\ Due(s)' = << >>
      BY <3>1 DEF Registered, Due
    <3>3. Coming(s)' = Backlog
      BY <1>b, <3>1, <3>2, BacklogIs, ConcatEmptySeq
    <3> QED BY <3>1, <3>3
  <2> QED BY <2>1, <2>2
<1>15. ASSUME NEW r \in Subs, PutItem(r) PROVE ComesBy(s)
  <2>0. iter' = iter /\ pos' = pos /\ todo' = todo /\ log' = log
    BY <1>15 DEF PutItem, pump
  <2>1. CASE r # s
    <3>1. queue'[s] = q /\ posted'[s] = p
      BY <1>15, <2>1 DEF PutItem, TypeOK
    <3> QED BY <2>0, <3>1 DEF Coming
  <2>2. CASE r = s
    <3>1. p # << >> /\ queue'[s] = Append(q, Head(p)) /\ posted'[s] = Tail(p)
      BY <1>15, <2>2 DEF PutItem, TypeOK
    <3>2. queue'[s] \o posted'[s] = q \o p
      BY <1>a, <3>1, Shifted, ZenonT(30)
    <3> QED BY <2>0, <3>2 DEF Coming
  <2> QED BY <2>1, <2>2
<1>16. ASSUME NEW r \in Subs, Take(r) PROVE ComesBy(s)
  <2>0. posted' = posted /\ todo' = todo /\ log' = log
    BY <1>16 DEF Take, pump
  <2>1. CASE r # s
    <3>1. iter'[s] = iter[s] /\ queue'[s] = q /\ pos'[s] = pos[s]
      BY <1>16, <2>1 DEF Take, TypeOK
    <3> QED BY <2>0, <3>1 DEF Coming
  <2>2. CASE r = s
    <3>1. iter[s] = "reading" /\ q # << >> /\ queue'[s] = Tail(q) /\ pos'[s] = Head(q) + 1
      BY <1>16, <2>2 DEF Take, TypeOK
    <3>2. Tail(q) \o p = Tail(q \o p) /\ Head(q \o p) = Head(q) /\ q \o p # << >>
      BY <1>a, <3>1, TakenFirst
    <3>3. /\ Tail(q \o p) \o d = Tail((q \o p) \o d) /\ Head((q \o p) \o d) = Head(q \o p)
          /\ (q \o p) \o d # << >>
      BY <1>a, <3>2, TakenFirst
    <3>4. Coming(s)' = Tail(Coming(s)) /\ Head(Coming(s)) = Head(q) /\ Coming(s) # << >>
      BY <1>a, <2>0, <3>1, <3>2, <3>3 DEF Coming, Due
    <3> QED BY <2>0, <3>1, <3>4
  <2> QED BY <2>1, <2>2
<1>17. ASSUME NEW r \in Subs, Quit(r) PROVE ComesBy(s)
  <2>1. iter'[s] = iter[s] /\ UNCHANGED <<queue, posted, todo, log, pos>>
    BY <1>17 DEF Quit, TypeOK, pump
  <2> QED BY <2>1 DEF Coming
<1>18. ASSUME NEW r \in Subs, Unsubscribe(r) PROVE ComesBy(s)
  BY <1>18, <1>0 DEF Unsubscribe, caller, pump, iters
<1>19. ASSUME NEW r \in Subs, CloseLoop(r) PROVE ComesBy(s)
  BY <1>19, <1>0 DEF CloseLoop, pump, iters
<1>20. CASE UNCHANGED vars
  BY <1>20, <1>0 DEF vars, caller, pump, shared, iters
<1> QED
  BY <1>1, <1>2, <1>3, <1>4, <1>5, <1>6, <1>7, <1>8, <1>9, <1>10, <1>11, <1>12, <1>13,
     <1>14, <1>15, <1>16, <1>17, <1>18, <1>19, <1>20 DEF Next, Pump, Iterator

LEMMA RisingAppended ==
  ASSUME NEW q \in Seq(Nat), NEW lo \in Nat, NEW hi \in Nat, lo <= hi + 1, Rising(q, lo, hi)
  PROVE  Rising(Append(q, hi + 1), lo, hi + 1)
<1> DEFINE r == Append(q, hi + 1)
<1>1. /\ Len(q) \in Nat /\ Len(r) = Len(q) + 1 /\ r[Len(q) + 1] = hi + 1
      /\ \A i \in 1..Len(q) : r[i] = q[i]
  OBVIOUS
<1> HIDE DEF r
<1>2. ASSUME NEW i \in 1..Len(r), NEW j \in 1..Len(r)
      PROVE  r[i] \in lo..(hi + 1) /\ (i < j => r[i] < r[j])
  <2>1. CASE i \in 1..Len(q) /\ j \in 1..Len(q)
    BY <1>1, <2>1 DEF Rising
  <2>2. CASE i \in 1..Len(q) /\ j = Len(q) + 1
    <3>1. r[i] \in lo..hi
      BY <1>1, <2>2 DEF Rising
    <3> QED BY <1>1, <2>2, <3>1
  <2>3. CASE i = Len(q) + 1
    BY <1>1, <2>3
  <2> QED BY <1>1, <2>1, <2>2, <2>3
<1> QED BY <1>2 DEF Rising, r

LEMMA RisingStart ==
  ASSUME NEW q \in Seq(Nat), NEW n \in Nat, NEW lo, NEW hi, Rising(Append(q, n), lo, hi)
  PROVE  Rising(q, lo, hi)
<1>1. /\ Len(q) \in Nat /\ Len(Append(q, n)) = Len(q) + 1
      /\ \A i \in 1..Len(q) : Append(q, n)[i] = q[i]
  OBVIOUS
<1>2. 1..Len(q) \subseteq 1..Len(Append(q, n))
  BY <1>1
<1> QED BY <1>1, <1>2 DEF Rising

LEMMA RisingTail ==
  ASSUME NEW q \in Seq(Nat), q # << >>, NEW lo \in Nat, NEW hi \in Nat, Rising(q, lo, hi)
  PROVE  Head(q) \in lo..hi /\ Tail(q) \in Seq(Nat) /\ Rising(Tail(q), Head(q) + 1, hi)
<1> DEFINE r == Tail(q)
<1>1. /\ Len(q) \in Nat \ {0} /\ Head(q) = q[1] /\ r \in Seq(Nat) /\ Len(r) = Len(q) - 1
      /\ \A i \in 1..Len(r) : r[i] = q[i + 1]
  BY EmptySeq, HeadTailProperties
<1> HIDE DEF r
<1>2. q[1] \in lo..hi
  BY <1>1 DEF Rising
<1>3. ASSUME NEW i \in 1..Len(r), NEW j \in 1..Len(r)
      PROVE  r[i] \in (q[1] + 1)..hi /\ (i < j => r[i] < r[j])
  <2>0. 1 \in 1..Len(q) /\ \A n \in 1..Len(r) : n + 1 \in 1..Len(q)
    BY <1>1
  <2>1. 1 \in 1..Len(q) /\ i + 1 \in 1..Len(q) /\ j + 1 \in 1..Len(q) /\ r[i] = q[i + 1] /\ r[j] = q[j + 1]
    BY <1>1, <2>0
  <2>2. q[i + 1] \in lo..hi /\ q[1] < q[i + 1] /\ (i + 1 < j + 1 => q[i + 1] < q[j + 1])
    BY <2>1, SMTT(30) DEF Rising
  <2> QED BY <1>2, <2>1, <2>2, SMTT(30)
<1> QED BY <1>1, <1>2, <1>3 DEF Rising, r

LEMMA RunIs ==
  ASSUME NEW lo \in Nat \ {0}, NEW hi \in Nat, lo <= hi + 1
  PROVE  /\ Run(lo, hi) \in Seq(Nat) /\ Len(Run(lo, hi)) = hi + 1 - lo
         /\ \A i \in 1..(hi + 1 - lo) : Run(lo, hi)[i] = lo - 1 + i
<1>1. hi + 1 - lo \in Nat /\ \A i \in 1..(hi + 1 - lo) : lo - 1 + i \in Nat
  OBVIOUS
<1> QED BY <1>1 DEF Run

LEMMA RunAppended ==
  ASSUME NEW lo \in Nat \ {0}, NEW hi \in Nat, lo <= hi + 1
  PROVE  Append(Run(lo, hi), hi + 1) = Run(lo, hi + 1)
<1> DEFINE q == Run(lo, hi)
           r == Append(q, hi + 1)
           z == Run(lo, hi + 1)
           n == hi + 1 - lo
<1>1. n \in Nat /\ q \in Seq(Nat) /\ Len(q) = n /\ \A i \in 1..n : q[i] = lo - 1 + i
  BY RunIs
<1>2. z \in Seq(Nat) /\ Len(z) = n + 1 /\ \A i \in 1..(n + 1) : z[i] = lo - 1 + i
  BY RunIs
<1> HIDE DEF q, z
<1>3. r \in Seq(Nat) /\ Len(r) = n + 1 /\ r[n + 1] = hi + 1 /\ \A i \in 1..n : r[i] = q[i]
  BY <1>1, AppendProperties
<1> HIDE DEF r
<1>4. ASSUME NEW i \in 1..(n + 1) PROVE r[i] = z[i]
  <2>1. CASE i \in 1..n
    BY <1>1, <1>2, <1>3, <2>1
  <2>2. CASE i = n + 1
    BY <1>1, <1>2, <1>3, <2>2
  <2> QED BY <1>1, <2>1, <2>2
<1>5. r = z
  BY <1>2, <1>3, <1>4, SeqEqual
<1> QED BY <1>5 DEF r, q, z

LEMMA RunTail ==
  ASSUME NEW lo \in Nat \ {0}, NEW hi \in Nat, lo <= hi + 1, Run(lo, hi) # << >>
  PROVE  Head(Run(lo, hi)) = lo /\ lo <= hi /\ Tail(Run(lo, hi)) = Run(lo + 1, hi)
<1> DEFINE q == Run(lo, hi)
           r == Tail(q)
           z == Run(lo + 1, hi)
<1>1. /\ q \in Seq(Nat) /\ Len(q) = hi + 1 - lo /\ Len(q) \in Nat \ {0}
      /\ \A i \in 1..(hi + 1 - lo) : q[i] = lo - 1 + i
  BY RunIs, EmptySeq
<1>2. lo <= hi /\ lo + 1 \in Nat \ {0} /\ lo + 1 <= hi + 1
  BY <1>1
<1>3. z \in Seq(Nat) /\ Len(z) = hi - lo /\ \A i \in 1..(hi - lo) : z[i] = lo + i
  <2>1. hi + 1 - (lo + 1) = hi - lo /\ \A i \in 1..(hi - lo) : (lo + 1) - 1 + i = lo + i
    BY <1>2
  <2>2. /\ z \in Seq(Nat) /\ Len(z) = hi + 1 - (lo + 1)
        /\ \A i \in 1..(hi + 1 - (lo + 1)) : z[i] = (lo + 1) - 1 + i
    BY <1>2, RunIs
  <2> HIDE DEF z
  <2> QED BY <2>1, <2>2
<1> HIDE DEF q, z
<1>4. Head(q) = q[1] /\ q # << >>
  BY <1>1, EmptySeq
<1>5. r \in Seq(Nat) /\ Len(r) = hi - lo /\ \A i \in 1..Len(r) : r[i] = q[i + 1]
  BY <1>1, <1>2, <1>4, HeadTailProperties
<1> HIDE DEF r
<1>6. ASSUME NEW i \in 1..(hi - lo) PROVE r[i] = z[i]
  <2>1. i + 1 \in 1..(hi + 1 - lo) /\ lo - 1 + (i + 1) = lo + i
    BY <1>2
  <2> QED BY <1>1, <1>3, <1>5, <2>1
<1>7. r = z
  BY <1>3, <1>5, <1>6, SeqEqual
<1>8. q[1] = lo
  BY <1>1, <1>2
<1> QED BY <1>2, <1>4, <1>7, <1>8 DEF q, r, z

LEMMA OrderedStep ==
  ASSUME TypeOK, BacklogHolds, Registered, Ordered, [Next]_vars
  PROVE  Ordered'
<1> SUFFICES ASSUME NEW s \in Subs, iter'[s] = "reading"
             PROVE  pos'[s] \in 1..(Len(log') + 1) /\ Rising(Coming(s)', pos'[s], Len(log'))
  BY DEF Ordered
<1> DEFINE c == Coming(s)
           w == queue[s] \o posted[s]
<1>1. c \in Seq(Nat) /\ w \in Seq(Nat) /\ Len(log) \in Nat
  BY ComingIs
<1>2. iter[s] = "reading" => pos[s] \in 1..(Len(log) + 1) /\ Rising(c, pos[s], Len(log))
  BY DEF Ordered
<1> HIDE DEF c, w
<1>3. CASE /\ iter[s] = "reading" /\ pos'[s] = pos[s]
           /\ Len(log') = Len(log) + 1 /\ Coming(s)' = Append(c, Len(log) + 1)
  BY <1>1, <1>2, <1>3, RisingAppended
<1>4. CASE /\ iter[s] = "reading" /\ pos'[s] = pos[s]
           /\ Len(log') = Len(log) /\ Coming(s)' = c
  BY <1>2, <1>4
<1>5. CASE /\ iter[s] = "reading" /\ pos'[s] = pos[s]
           /\ Len(log') = Len(log) /\ Coming(s)' = w /\ c = Append(w, Len(log))
  BY <1>1, <1>2, <1>5, RisingStart
<1>6. CASE /\ iter[s] = "new" /\ pos'[s] = Len(log) - Len(Backlog) + 1
           /\ Len(log') = Len(log) /\ Coming(s)' = Backlog
  <2> DEFINE n == Len(Backlog)
  <2>1. /\ n \in 0..Len(log)
        /\ \A i \in 1..n : Backlog[i] = Len(log) - n + i
    BY BacklogIs
  <2>2. Rising(Backlog, Len(log) - n + 1, Len(log))
    <3>1. ASSUME NEW i \in 1..n, NEW j \in 1..n
          PROVE  Backlog[i] \in (Len(log) - n + 1)..Len(log) /\ (i < j => Backlog[i] < Backlog[j])
      BY <1>1, <2>1
    <3> QED BY <3>1 DEF Rising
  <2>3. Len(log) - n + 1 \in 1..(Len(log) + 1)
    BY <1>1, <2>1
  <2> QED BY <1>6, <2>2, <2>3
<1>7. CASE /\ iter[s] = "reading" /\ c # << >> /\ pos'[s] = Head(c) + 1
           /\ Len(log') = Len(log) /\ Coming(s)' = Tail(c)
  <2>1. pos[s] \in Nat /\ Rising(c, pos[s], Len(log)) /\ pos[s] >= 1
    BY <1>1, <1>2, <1>7
  <2>2. Head(c) \in pos[s]..Len(log) /\ Rising(Tail(c), Head(c) + 1, Len(log))
    BY <1>1, <1>7, <2>1, RisingTail
  <2>3. Head(c) + 1 \in 1..(Len(log) + 1)
    BY <1>1, <2>1, <2>2
  <2> QED BY <1>7, <2>2, <2>3
<1> QED BY <1>3, <1>4, <1>5, <1>6, <1>7, Comes DEF ComesBy, c, w

\* A closed loop stays closed, and only CloseLoop closes one.
LEMMA ClosedGrows ==
  ASSUME [Next]_vars
  PROVE  closed \subseteq closed' /\ (~LoopsClose => closed' = closed)
BY FrameRead DEF Next, Pump, Iterator, ConnectBegin, ConnectDone, ConnectFails, LinkEnds, LeaveBegin,
   CancelPump, LeaveDone, LeaveRaises, ReadEnd, PublishItem, Post, PostRaises, Subscribe,
   PutItem, Take, Quit, Unsubscribe, CloseLoop, vars, iters

LEMMA WholeStep ==
  ASSUME TypeOK, BacklogHolds, Registered, Ordered, Whole, [Next]_vars
  PROVE  Whole'
<1>0. closed \subseteq closed'
  BY ClosedGrows
<1> SUFFICES ASSUME closed = {}, NEW s \in Subs, iter'[s] = "reading"
             PROVE  Coming(s)' = Run(pos'[s], Len(log'))
  BY <1>0 DEF Whole, Gapless, Run
<1> DEFINE c == Coming(s)
<1>1. c \in Seq(Nat) /\ Len(log) \in Nat
  BY ComingIs
<1>2. iter[s] = "reading" => /\ pos[s] \in Nat \ {0} /\ pos[s] <= Len(log) + 1
                             /\ c = Run(pos[s], Len(log))
  BY <1>1 DEF Ordered, Whole, Gapless, Run
<1> HIDE DEF c
<1>3. CASE /\ iter[s] = "reading" /\ pos'[s] = pos[s]
           /\ Len(log') = Len(log) + 1 /\ Coming(s)' = Append(c, Len(log) + 1)
  BY <1>1, <1>2, <1>3, RunAppended
<1>4. CASE /\ iter[s] = "reading" /\ pos'[s] = pos[s]
           /\ Len(log') = Len(log) /\ Coming(s)' = c
  BY <1>2, <1>4
<1>5. CASE /\ iter[s] = "new" /\ pos'[s] = Len(log) - Len(Backlog) + 1
           /\ Len(log') = Len(log) /\ Coming(s)' = Backlog
  <2> DEFINE n == Len(Backlog)
             lo == Len(log) - n + 1
  <2>1. /\ n \in 0..Len(log) /\ Backlog \in Seq(Nat)
        /\ \A i \in 1..n : Backlog[i] = Len(log) - n + i
    BY BacklogIs
  <2>2. /\ lo \in Nat \ {0} /\ lo <= Len(log) + 1 /\ Len(log) + 1 - lo = n
        /\ \A i \in 1..n : lo - 1 + i = Len(log) - n + i
    BY <1>1, <2>1
  <2>3. /\ Run(lo, Len(log)) \in Seq(Nat) /\ Len(Run(lo, Len(log))) = n
        /\ \A i \in 1..n : Run(lo, Len(log))[i] = Len(log) - n + i
    BY <1>1, <2>2, RunIs, ZenonT(30)
  <2>4. Backlog = Run(lo, Len(log))
    BY <2>1, <2>3, SeqEqual
  <2> QED BY <1>5, <2>4
<1>6. CASE /\ iter[s] = "reading" /\ c # << >> /\ pos'[s] = Head(c) + 1
           /\ Len(log') = Len(log) /\ Coming(s)' = Tail(c)
  <2>1. Head(c) = pos[s] /\ Tail(c) = Run(pos[s] + 1, Len(log))
    BY <1>1, <1>2, <1>6, RunTail
  <2> QED BY <1>6, <2>1
<1> QED BY <1>3, <1>4, <1>5, <1>6, Comes DEF ComesBy, c

\* The head of a queue is the item its reader expects.
LEMMA NextItem ==
  ASSUME TypeOK, Ordered, Whole, closed = {}, NEW s \in Subs, Take(s)
  PROVE  Head(queue[s]) = pos[s]
<1>1. /\ queue[s] \in Seq(Nat) /\ queue[s] # << >> /\ posted[s] \in Seq(Nat)
      /\ Due(s) \in Seq(Nat) /\ Coming(s) = (queue[s] \o posted[s]) \o Due(s)
      /\ queue[s] \o posted[s] \in Seq(Nat) /\ Len(log) \in Nat
  BY ComingIs DEF Take
<1>2. Head(queue[s] \o posted[s]) = Head(queue[s]) /\ queue[s] \o posted[s] # << >>
  BY <1>1, TakenFirst
<1>3. Head(Coming(s)) = Head(queue[s]) /\ Coming(s) # << >>
  BY <1>1, <1>2, TakenFirst
<1>4. pos[s] \in 1..(Len(log) + 1) /\ Coming(s) = Run(pos[s], Len(log))
  BY DEF Take, Ordered, Whole, Gapless, Run
<1>5. pos[s] \in Nat \ {0} /\ pos[s] <= Len(log) + 1
  BY <1>1, <1>4
<1> QED BY <1>1, <1>3, <1>4, <1>5, RunTail

-----------------------------------------------------------------------------
(* The ends of the connections *)

\* The log only grows.
LEMMA Grown ==
  ASSUME TypeOK, Steady, PublishItem
  PROVE  /\ Len(log') = Len(log) + 1 /\ Len(log) \in Nat
         /\ \A i \in 1..Len(log) : log'[i] = log[i]
         /\ log'[Len(log) + 1].conn = conn /\ log'[Len(log) + 1].end = (fin # "no")
<1> DEFINE R == [conn : 1..MaxConn, end : BOOLEAN]
           e == [conn |-> conn, end |-> fin # "no"]
<1>1. log \in Seq(R) /\ e \in R /\ log' = Append(log, e)
  BY DEF PublishItem, Steady, TypeOK
<1>2. e.conn = conn /\ e.end = (fin # "no")
  OBVIOUS
<1> HIDE DEF R, e
<1>3. /\ Len(log') = Len(log) + 1 /\ Len(log) \in Nat /\ log'[Len(log) + 1] = e
      /\ \A i \in 1..Len(log) : log'[i] = log[i]
  BY <1>1, AppendProperties
<1> QED BY <1>2, <1>3

LEMMA TakenItem ==
  ASSUME TypeOK, Ordered, NEW s \in Subs, Take(s)
  PROVE  Head(queue[s]) \in 1..Len(log)
<1> DEFINE c == Coming(s)
<1>1. /\ queue[s] \in Seq(Nat) /\ queue[s] # << >> /\ posted[s] \in Seq(Nat)
      /\ Due(s) \in Seq(Nat) /\ c = (queue[s] \o posted[s]) \o Due(s) /\ c \in Seq(Nat)
      /\ queue[s] \o posted[s] \in Seq(Nat) /\ Len(log) \in Nat
  BY ComingIs DEF Take
<1>2. Head(queue[s] \o posted[s]) = Head(queue[s]) /\ queue[s] \o posted[s] # << >>
  BY <1>1, TakenFirst
<1>3. Head(c) = Head(queue[s]) /\ c # << >>
  BY <1>1, <1>2, TakenFirst, ZenonT(30)
<1>4. pos[s] \in 1..(Len(log) + 1) /\ Rising(c, pos[s], Len(log))
  BY DEF Take, Ordered
<1> HIDE DEF c
<1>5. pos[s] \in Nat /\ pos[s] >= 1
  BY <1>1, <1>4
<1>6. Head(c) \in pos[s]..Len(log)
  BY <1>1, <1>3, <1>4, <1>5, RisingTail
<1>7. Head(c) \in 1..Len(log)
  <2>1. Len(log) \in Nat
    BY <1>1
  <2>2. pos[s]..Len(log) \subseteq 1..Len(log)
    BY <1>5, <2>1
  <2> QED BY <1>6, <2>2
<1> QED BY <1>3, <1>7

LEMMA EndsStep ==
  ASSUME TypeOK, Steady, Ordered, Ends, [Next]_vars
  PROVE  Ends'
<1>0. conn \in Nat /\ Len(log) \in Nat /\ \A i \in 1..Len(log) : log[i].conn \in Nat
  <2>1. \A i \in 1..Len(log) : log[i] \in [conn : 1..MaxConn, end : BOOLEAN]
    <3> DEFINE R == [conn : 1..MaxConn, end : BOOLEAN]
    <3>1. log \in Seq(R)
      BY DEF TypeOK
    <3> HIDE DEF R
    <3>2. \A i \in 1..Len(log) : log[i] \in R
      BY <3>1, ElementOfSeq
    <3> QED BY <3>2 DEF R
  <2>2. conn \in Nat /\ Len(log) \in Nat
    BY DEF TypeOK
  <2> QED BY <2>1, <2>2
<1> USE DEF Ends, IsOver
<1>1. CASE ConnectBegin
  <2>1. \A i \in 1..Len(log) : log[i].conn < conn'
    BY <1>1, <1>0 DEF ConnectBegin
  <2>2. /\ conn' = conn + 1 /\ io = "none" /\ UNCHANGED <<io, fin, closed, log, iter, pos>>
    BY <1>1 DEF ConnectBegin, Steady, TypeOK, pump, iters
  <2>3. \A i \in 1..Len(log) : log[i].conn <= conn'
    BY <1>0, <2>2
  <2> QED BY <2>1, <2>2, <2>3
<1>2. CASE ConnectDone
  BY <1>2, <1>0 DEF ConnectDone, shared, iters
<1>3. CASE ConnectFails
  BY <1>3, <1>0 DEF ConnectFails, pump, shared, iters
<1>4. CASE LinkEnds
  BY <1>4, <1>0 DEF LinkEnds, pump, shared, iters
<1>5. CASE LeaveBegin
  BY <1>5, <1>0 DEF LeaveBegin, pump, shared, iters
<1>6. CASE CancelPump
  BY <1>6, <1>0 DEF CancelPump, caller, shared, iters
<1>7. CASE LeaveDone
  BY <1>7, <1>0 DEF LeaveDone, iters, Steady
<1>8. CASE LeaveRaises
  BY <1>8, <1>0 DEF LeaveRaises, pump, shared, iters
<1>9. CASE ReadFrame
  BY <1>9, <1>0, FrameRead DEF caller, iters, Steady
<1>10. CASE ReadEnd
  BY <1>10, <1>0 DEF ReadEnd, caller, shared, iters
<1>11. CASE PublishItem
  <2>1. /\ Len(log') = Len(log) + 1
        /\ \A i \in 1..Len(log) : log'[i] = log[i]
        /\ log'[Len(log) + 1].conn = conn /\ log'[Len(log) + 1].end = (fin # "no")
    BY <1>11, Grown
  <2>2. /\ io = "locking" /\ fin' = fin /\ UNCHANGED <<phase, conn, link, iter, closed, pos>>
        /\ io' \in {"reading", "locking", "posting", "done", "crashed"}
        /\ io' = "crashed" => fin = "raise"
    BY <1>11 DEF PublishItem, Published, caller, iters
  <2>3. phase \in {"on", "leaving"} /\ fin \in {"no", "end", "raise"}
    BY <2>2 DEF Steady, TypeOK
  <2>4. \A i \in 1..Len(log') : log'[i].conn <= conn
    BY <1>0, <2>1
  <2>5. ASSUME closed = {}, ~WideIndexes
        PROVE  /\ fin # "raise" /\ (fin = "end" => IsOver(conn))
               /\ \A i \in 1..Len(log') : log'[i].end => IsOver(log'[i].conn)
    <3>1. fin # "raise" /\ (fin = "end" => IsOver(conn))
      BY <2>2, <2>5
    <3>2. ASSUME NEW i \in 1..Len(log'), log'[i].end PROVE IsOver(log'[i].conn)
      <4>1. CASE i = Len(log) + 1
        BY <2>1, <2>3, <3>1, <3>2, <4>1
      <4>2. CASE i \in 1..Len(log)
        BY <2>1, <2>5, <3>2, <4>2
      <4> QED BY <1>0, <2>1, <4>1, <4>2
    <3> QED BY <3>1, <3>2
  <2>6. ASSUME NEW s \in Subs, iter[s] = "over"
        PROVE  pos[s] - 1 \in 1..Len(log') /\ log'[pos[s] - 1].end
    BY <1>0, <2>1, <2>6
  <2> QED BY <2>2, <2>3, <2>4, <2>5, <2>6
<1>12. CASE Post
  <2>1. /\ io = "posting" /\ fin' = fin /\ UNCHANGED <<phase, conn, link, iter, closed, pos, log>>
        /\ io' \in {"reading", "locking", "posting", "done", "crashed"}
        /\ io' = "crashed" => fin = "raise"
    BY <1>12 DEF Post, Published, caller, shared
  <2> QED BY <2>1
<1>13. CASE PostRaises
  BY <1>13, <1>0 DEF PostRaises, caller, shared, iters
<1>14. ASSUME NEW s \in Subs, Subscribe(s) PROVE Ends'
  <2>1. /\ UNCHANGED <<phase, conn, link, io, fin, closed, log>> /\ iter'[s] = "reading"
        /\ \A r \in Subs \ {s} : iter'[r] = iter[r] /\ pos'[r] = pos[r]
    BY <1>14 DEF Subscribe, TypeOK, caller, pump
  <2> QED BY <2>1
<1>15. ASSUME NEW s \in Subs, PutItem(s) PROVE Ends'
  BY <1>15, <1>0 DEF PutItem, caller, pump, shared
<1>16. ASSUME NEW s \in Subs, Take(s) PROVE Ends'
  <2>1. /\ UNCHANGED <<phase, conn, link, io, fin, closed, log>>
        /\ \A r \in Subs \ {s} : iter'[r] = iter[r] /\ pos'[r] = pos[r]
        /\ pos'[s] = Head(queue[s]) + 1
        /\ iter'[s] = IF log[Head(queue[s])].end THEN "over" ELSE "reading"
    BY <1>16 DEF Take, TypeOK, caller, pump
  <2>2. Head(queue[s]) \in 1..Len(log)
    BY <1>16, TakenItem
  <2>3. (Head(queue[s]) + 1) - 1 = Head(queue[s])
    BY <1>0, <2>2
  <2>4. ASSUME NEW r \in Subs, iter'[r] = "over"
        PROVE  pos'[r] - 1 \in 1..Len(log) /\ log[pos'[r] - 1].end
    <3>1. CASE r = s
      BY <2>1, <2>2, <2>3, <2>4, <3>1
    <3>2. CASE r # s
      BY <2>1, <2>4, <3>2
    <3> QED BY <3>1, <3>2
  <2> QED BY <2>1, <2>4
<1>17. ASSUME NEW s \in Subs, Quit(s) PROVE Ends'
  <2>1. /\ UNCHANGED <<phase, conn, link, io, fin, closed, log, pos>> /\ iter'[s] = "quit"
        /\ \A r \in Subs \ {s} : iter'[r] = iter[r]
    BY <1>17 DEF Quit, TypeOK, caller, pump
  <2> QED BY <2>1
<1>18. ASSUME NEW s \in Subs, Unsubscribe(s) PROVE Ends'
  BY <1>18, <1>0 DEF Unsubscribe, caller, pump, iters
<1>19. ASSUME NEW s \in Subs, CloseLoop(s) PROVE Ends'
  BY <1>19, <1>0 DEF CloseLoop, caller, pump, shared
<1>20. CASE UNCHANGED vars
  BY <1>20, <1>0 DEF vars, caller, pump, shared, iters
<1> QED
  BY <1>1, <1>2, <1>3, <1>4, <1>5, <1>6, <1>7, <1>8, <1>9, <1>10, <1>11, <1>12, <1>13,
     <1>14, <1>15, <1>16, <1>17, <1>18, <1>19, <1>20 DEF Next, Pump, Iterator

-----------------------------------------------------------------------------
(* Theorems *)

LEMMA EventsInv == Spec => []EInv
<1>1. EInv /\ [Next]_vars => EInv'
  BY TypeStep, SteadyStep, BacklogStep, RegisteredStep, OrderedStep, WholeStep, EndsStep DEF EInv
<1> QED BY <1>1, InitHolds, PTL DEF Spec

\* Every variable keeps its type: the backlog its bound, and the pump is at a post
\* exactly when someone has still to be posted to (huddle.py:484-525).
THEOREM EventsType == Spec => []TypeOK
<1>1. EInv => TypeOK
  BY DEF EInv
<1> QED BY <1>1, EventsInv, PTL

\* Until the first events() call the backlog is the newest items, as many as its
\* maxlen allows, in order (huddle.py:167-171, 515-521).
THEOREM BacklogCorrect == Spec => []BacklogHolds
<1>1. EInv => BacklogHolds
  BY DEF EInv
<1> QED BY <1>1, EventsInv, PTL

\* No iterator is given an item twice or out of order, not even when the pump dies
\* half-way through posting one (huddle.py:484-499, 515-525).
THEOREM InOrderCorrect == Spec => []InOrder
<1>1. EInv => InOrder
  <2> SUFFICES ASSUME EInv, NEW s \in Subs, iter[s] = "reading",
                      NEW i \in 1..Len(Coming(s)), NEW j \in 1..Len(Coming(s))
               PROVE  pos[s] <= Coming(s)[i] /\ (i < j => Coming(s)[i] < Coming(s)[j])
    BY DEF InOrder
  <2>1. Rising(Coming(s), pos[s], Len(log)) /\ pos[s] \in Nat /\ Len(log) \in Nat
    BY DEF EInv, Ordered, TypeOK
  <2>2. Coming(s)[i] \in pos[s]..Len(log) /\ (i < j => Coming(s)[i] < Coming(s)[j])
    BY <2>1 DEF Rising
  <2> QED BY <2>1, <2>2
<1> QED BY <1>1, EventsInv, PTL

\* As long as the loops of the iterators stay open none of them misses an item
\* (huddle.py:484-499, 515-525).
THEOREM GaplessCorrect == ~LoopsClose => (Spec => []Gapless)
<1> SUFFICES ASSUME ~LoopsClose PROVE Spec => []Gapless
  OBVIOUS
<1>1. Init => closed = {}
  BY DEF Init
<1>2. closed = {} /\ [Next]_vars => (closed = {})'
  BY ClosedGrows
<1>3. EInv /\ closed = {} => Gapless
  BY DEF EInv, Whole
<1> QED BY <1>1, <1>2, <1>3, EventsInv, PTL DEF Spec

\* Until a loop is closed, and with indexes that are bytes, an iterator that stopped
\* by itself met the end of a connection that is over or is being left
\* (huddle.py:476-478).
THEOREM EndsCorrect == ~WideIndexes => (Spec => []EndsTruthful)
<1> SUFFICES ASSUME ~WideIndexes PROVE Spec => []EndsTruthful
  OBVIOUS
<1>1. EInv => EndsTruthful
  BY DEF EInv, Ends, EndsTruthful
<1> QED BY <1>1, EventsInv, PTL

-----------------------------------------------------------------------------
(* The refinement of EventStream *)

\* The stream's ends in terms of the log.
EndsOf == [i \in 1..Len(log) |-> log[i].end]

LEMMA EndsOfLog ==
  ASSUME TypeOK
  PROVE  EndsOf \in Seq(BOOLEAN) /\ Len(EndsOf) = Len(log) /\ Len(log) \in Nat
         /\ \A i \in 1..Len(log) : EndsOf[i] = log[i].end
<1> DEFINE R == [conn : 1..MaxConn, end : BOOLEAN]
<1>1. log \in Seq(R)
  BY DEF TypeOK
<1> HIDE DEF R
<1>2. Len(log) \in Nat /\ \A i \in 1..Len(log) : log[i] \in R
  BY <1>1, ElementOfSeq
<1>3. \A i \in 1..Len(log) : log[i].end \in BOOLEAN
  BY <1>2 DEF R
<1> QED BY <1>2, <1>3 DEF EndsOf

LEMMA StreamInit == Init => Stream!Init
<1> SUFFICES ASSUME Init PROVE Stream!Init
  OBVIOUS
<1>1. EndsOf = << >>
  BY DEF Init, EndsOf
<1> QED BY <1>1 DEF Init, Stream!Init, EndsOf

LEMMA StreamStep ==
  ASSUME EInv, closed = {}, [Next]_vars
  PROVE  [Stream!Next]_Stream!vars
<1> USE DEF EInv
<1>0. ASSUME UNCHANGED <<log, iter, pos>> PROVE [Stream!Next]_Stream!vars
  BY <1>0 DEF Stream!vars
<1>a. /\ EndsOf \in Seq(BOOLEAN) /\ Len(EndsOf) = Len(log) /\ Len(log) \in Nat
      /\ \A i \in 1..Len(log) : EndsOf[i] = log[i].end
  BY EndsOfLog
<1>1. CASE ConnectBegin
  BY <1>1, <1>0 DEF ConnectBegin, pump, shared, iters
<1>2. CASE ConnectDone
  BY <1>2, <1>0 DEF ConnectDone, shared, iters
<1>3. CASE ConnectFails
  BY <1>3, <1>0 DEF ConnectFails, pump, shared, iters
<1>4. CASE LinkEnds
  BY <1>4, <1>0 DEF LinkEnds, pump, shared, iters
<1>5. CASE LeaveBegin
  BY <1>5, <1>0 DEF LeaveBegin, pump, shared, iters
<1>6. CASE CancelPump
  BY <1>6, <1>0 DEF CancelPump, caller, shared, iters
<1>7. CASE LeaveDone
  BY <1>7, <1>0 DEF LeaveDone, shared, iters
<1>8. CASE LeaveRaises
  BY <1>8, <1>0 DEF LeaveRaises, pump, shared, iters
<1>9. CASE ReadFrame
  BY <1>9, <1>0, FrameRead DEF iters
<1>10. CASE ReadEnd
  BY <1>10, <1>0 DEF ReadEnd, caller, shared, iters
<1>11. CASE PublishItem
  <2> DEFINE e == (fin # "no")
             z == Append(EndsOf, e)
  <2>1. /\ Len(log') = Len(log) + 1 /\ \A i \in 1..Len(log) : log'[i] = log[i]
        /\ log'[Len(log) + 1].end = e
    BY <1>11, Grown
  <2>2. e \in BOOLEAN
    OBVIOUS
  <2> HIDE DEF e
  <2>3. /\ z \in Seq(BOOLEAN) /\ Len(z) = Len(log) + 1 /\ z[Len(log) + 1] = e
        /\ \A i \in 1..Len(log) : z[i] = EndsOf[i]
    BY <1>a, <2>2, AppendProperties
  <2> HIDE DEF z
  <2>4. \A i \in 1..(Len(log) + 1) : log'[i].end = z[i]
    <3> SUFFICES ASSUME NEW i \in 1..(Len(log) + 1) PROVE log'[i].end = z[i]
      OBVIOUS
    <3>1. CASE i \in 1..Len(log)
      BY <1>a, <2>1, <2>3, <3>1
    <3>2. CASE i = Len(log) + 1
      BY <2>1, <2>3, <3>2
    <3> QED BY <1>a, <3>1, <3>2
  <2>5. z = [i \in 1..Len(log') |-> log'[i].end]
    <3>1. z = [i \in 1..(Len(log) + 1) |-> z[i]]
      BY <2>3
    <3> QED BY <2>1, <2>4, <3>1
  <2>6. iter' = iter /\ pos' = pos
    BY <1>11 DEF PublishItem, iters
  <2>7. Stream!Publish
    BY <2>2, <2>5, <2>6 DEF Stream!Publish, z, EndsOf
  <2> QED BY <2>7 DEF Stream!Next
<1>12. CASE Post
  BY <1>12, <1>0 DEF Post
<1>13. CASE PostRaises
  BY <1>13, <1>0 DEF PostRaises, caller, shared, iters
<1>14. ASSUME NEW s \in Subs, Subscribe(s) PROVE [Stream!Next]_Stream!vars
  <2>1. /\ iter[s] = "new" /\ iter' = [iter EXCEPT ![s] = "reading"] /\ log' = log
        /\ pos' = [pos EXCEPT ![s] = Len(log) - Len(Backlog) + 1]
    BY <1>14 DEF Subscribe
  <2>2. CASE \A r \in Subs : iter[r] = "new"
    <3> DEFINE n == IF Len(log) > Kept THEN Kept ELSE Len(log)
    <3>1. backlog = [i \in 1..n |-> Len(log) - n + i] /\ Backlog = backlog
      BY <2>2 DEF Registered, BacklogHolds, Backlog
    <3>2. Kept \in Nat /\ n \in Nat /\ n = IF Len(log) > Kept THEN Kept ELSE Len(log)
      BY <1>a, EventsAssumption
    <3> HIDE DEF n
    <3>3. Len(Backlog) = n
      BY <3>1, <3>2
    <3>4. Len(log) - n + 1 = IF Len(log) > Kept THEN Len(log) - Kept + 1 ELSE 1
      BY <1>a, <3>2
    <3>5. Stream!OldestKept = Len(log) - Len(Backlog) + 1
      BY <1>a, <3>3, <3>4 DEF Stream!OldestKept, EndsOf
    <3>6. Stream!Join(s)
      BY <2>1, <2>2, <3>5 DEF Stream!Join
    <3> QED BY <3>6 DEF Stream!Next
  <2>3. CASE ~ \A r \in Subs : iter[r] = "new"
    <3>1. Backlog = << >> /\ Len(Backlog) = 0
      BY <2>3, EmptySeq DEF Registered, Backlog
    <3>2. Len(log) - Len(Backlog) + 1 = Len(EndsOf) + 1
      BY <1>a, <3>1
    <3>3. Stream!Join(s)
      BY <2>1, <2>3, <3>2 DEF Stream!Join, EndsOf
    <3> QED BY <3>3 DEF Stream!Next
  <2> QED BY <2>2, <2>3
<1>15. ASSUME NEW s \in Subs, PutItem(s) PROVE [Stream!Next]_Stream!vars
  BY <1>15, <1>0 DEF PutItem, caller, pump, shared
<1>16. ASSUME NEW s \in Subs, Take(s) PROVE [Stream!Next]_Stream!vars
  <2>1. /\ iter[s] = "reading" /\ log' = log /\ pos' = [pos EXCEPT ![s] = Head(queue[s]) + 1]
        /\ iter' = [iter EXCEPT ![s] = IF log[Head(queue[s])].end THEN "over" ELSE @]
    BY <1>16 DEF Take
  <2>2. Head(queue[s]) = pos[s]
    BY <1>16, NextItem
  <2>3. Head(queue[s]) \in 1..Len(log)
    BY <1>16, TakenItem
  <2>4. pos[s] <= Len(EndsOf) /\ EndsOf[pos[s]] = log[Head(queue[s])].end
    BY <1>a, <2>2, <2>3
  <2>5. Stream!Read(s)
    BY <2>1, <2>2, <2>4 DEF Stream!Read, EndsOf
  <2> QED BY <2>5 DEF Stream!Next
<1>17. ASSUME NEW s \in Subs, Quit(s) PROVE [Stream!Next]_Stream!vars
  <2>1. Stream!Quit(s)
    BY <1>17 DEF Quit, Stream!Quit
  <2> QED BY <2>1 DEF Stream!Next
<1>18. ASSUME NEW s \in Subs, Unsubscribe(s) PROVE [Stream!Next]_Stream!vars
  BY <1>18, <1>0 DEF Unsubscribe, caller, pump, iters
<1>19. ASSUME NEW s \in Subs, CloseLoop(s) PROVE [Stream!Next]_Stream!vars
  BY <1>19, <1>0 DEF CloseLoop, caller, pump, shared
<1>20. CASE UNCHANGED vars
  BY <1>20, <1>0 DEF vars, caller, pump, shared, iters
<1> QED
  BY <1>1, <1>2, <1>3, <1>4, <1>5, <1>6, <1>7, <1>8, <1>9, <1>10, <1>11, <1>12, <1>13,
     <1>14, <1>15, <1>16, <1>17, <1>18, <1>19, <1>20 DEF Next, Pump, Iterator

\* As long as the loops of the iterators stay open, every behaviour of the threads
\* is one of EventStream: publishing an item publishes it in the stream, the first
\* step of events() joins it, and a reader reads on whatever happens between the
\* pump, the loops and the queues (huddle.py:467-525).
THEOREM RefinesStream == ~LoopsClose => (Spec => Stream!Spec)
<1> SUFFICES ASSUME ~LoopsClose PROVE Spec => Stream!Spec
  OBVIOUS
<1>1. Init => closed = {}
  BY DEF Init
<1>2. closed = {} /\ [Next]_vars => (closed = {})'
  BY ClosedGrows
<1>3. EInv /\ closed = {} /\ [Next]_vars => [Stream!Next]_Stream!vars
  BY StreamStep
<1> QED BY <1>1, <1>2, <1>3, StreamInit, EventsInv, PTL DEF Spec, Stream!Spec

=============================================================================
