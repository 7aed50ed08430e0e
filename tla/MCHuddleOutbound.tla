-------------------------- MODULE MCHuddleOutbound --------------------------
(* Small instances of HuddleOutbound for TLC. *)
EXTENDS HuddleOutbound

\* Unpaced, Opus may fail at a second frame, so that a first one is lost.  With
\* silence, failures leave a whole frame at most, enough for two to come out.
MCMaxSpare ==
  [m \in Modes |-> CASE m = "relay" -> 2 [] m = "silence" -> 1 [] OTHER -> 0]
MCNoSpare == [m \in Modes |-> 0]
=============================================================================
