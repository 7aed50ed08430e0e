-------------------------- MODULE MCBridgeOperations --------------------------
(* Instances of BridgeOperations for TLC: tags and profiles of two agents. *)
EXTENDS BridgeOperations

CONSTANTS a1, a2, other

MCTag(by, to, conds) == [by |-> by, to |-> to, conds |-> conds]
MCClause(op, value)  == [op |-> op, value |-> value]

MCPlain    == MCTag(Owner, a1, << >>)
MCBounded  == MCTag(Owner, a2, <<MCClause("kind", 0), MCClause("before", 2)>>)
MCForeign  == MCTag(other, a1, << >>)
MCOdd      == MCTag(Owner, a2, <<MCClause("junk", 0)>>)
MCIssued   == {MCPlain, MCBounded, MCForeign}

MCEvent(tags, at) == [tags |-> tags, at |-> at]
MCProfiles ==
  {MCEvent(<<MCPlain>>, 1), MCEvent(<<MCBounded>>, 1), MCEvent(<<MCBounded>>, 2),
   MCEvent(<<MCForeign>>, 1), MCEvent(<<MCOdd>>, 1), MCEvent(<<MCPlain, MCPlain>>, 1),
   MCEvent(<< >>, 2)}
=============================================================================
