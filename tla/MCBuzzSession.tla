--------------------------- MODULE MCBuzzSession ---------------------------
(* Small instances of BuzzSession for TLC. *)
EXTENDS BuzzSession

CONSTANTS s1, s2, p1, p2, e1, e2, i1, i2

MCEvOf == [p \in Pubs |-> IF p = p1 THEN e1 ELSE e2]
MCIdOf == [s \in Subs |-> IF s = s1 THEN i1 ELSE i2]
\* subscribe() called twice with the default sub_id.
MCSameId == [s \in Subs |-> i1]

\* A run subscribes or publishes: the two share no state but the connection.
OneKindOfCall ==
  (\A s \in Subs : iter[s] = "idle") \/ (\A p \in Pubs : pub[p] = "idle")
=============================================================================
