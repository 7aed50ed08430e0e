--------------------------- MODULE MCHuddleEvents ---------------------------
(* Small instances of HuddleEvents for TLC. *)
EXTENDS HuddleEvents

CONSTANTS s1, s2
=============================================================================
