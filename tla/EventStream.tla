---------------------------- MODULE EventStream ----------------------------
(***************************************************************************)
(* What HuddleClient.events() promises its readers, whatever the threads   *)
(* in between do: there is one stream of items, some of which mark the end *)
(* of a connection.  A reader reads it from the item it joins at, every    *)
(* item once and in order, and stops at the first end it meets.  The first *)
(* reader also gets what came before it, up to a bound; the others join at *)
(* the present.                                                            *)
(***************************************************************************)
EXTENDS Naturals, Sequences

CONSTANTS Readers, Kept

VARIABLES
  ends,   \* for each item published so far, does it mark an end?
  state,  \* "new", "reading", "over" (met an end), "quit" (left by itself)
  pos     \* the item each reader reads next

vars == <<ends, state, pos>>

Init ==
  /\ ends = << >>
  /\ state = [r \in Readers |-> "new"]
  /\ pos = [r \in Readers |-> 1]

Publish ==
  /\ \E e \in BOOLEAN : ends' = Append(ends, e)
  /\ UNCHANGED <<state, pos>>

OldestKept == IF Len(ends) > Kept THEN Len(ends) - Kept + 1 ELSE 1

Join(r) ==
  /\ state[r] = "new"
  /\ state' = [state EXCEPT ![r] = "reading"]
  /\ pos' = [pos EXCEPT ![r] =
               IF \A q \in Readers : state[q] = "new" THEN OldestKept
                                                      ELSE Len(ends) + 1]
  /\ UNCHANGED ends

Read(r) ==
  /\ state[r] = "reading" /\ pos[r] <= Len(ends)
  /\ pos' = [pos EXCEPT ![r] = @ + 1]
  /\ state' = [state EXCEPT ![r] = IF ends[pos[r]] THEN "over" ELSE @]
  /\ UNCHANGED ends

Quit(r) ==
  /\ state[r] = "reading"
  /\ state' = [state EXCEPT ![r] = "quit"]
  /\ UNCHANGED <<ends, pos>>

Next == Publish \/ \E r \in Readers : Join(r) \/ Read(r) \/ Quit(r)

Spec == Init /\ [][Next]_vars

\* A published item reaches every reader that stays.
FairSpec == Spec /\ \A r \in Readers : WF_vars(Read(r))
=============================================================================
