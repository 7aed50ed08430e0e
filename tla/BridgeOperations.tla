--------------------------- MODULE BridgeOperations ---------------------------
(***************************************************************************)
(* The operations of BuzzClient that take several requests                  *)
(* (python/buzzkit/client.py), and the verdict on an agent's profile        *)
(* (python/buzzkit/agents.py):                                              *)
(*   resolve_agent  asks for the owner's records, then for the profiles;    *)
(*   start_huddle   publishes the channel, then its announcement;           *)
(*   claim_invite   asks for the policy, accepts it, then claims.           *)
(* Between two requests the owner, the agents and the operator of the relay *)
(* go on, and a request may fail although the relay did what it asked.      *)
(*                                                                         *)
(* A run makes calls of one of the three, the others would not meet it.     *)
(* Signatures, JSON and HTTP are abstracted: a tag is genuine if the owner   *)
(* issued it, a profile is whose it says it is.                             *)
(***************************************************************************)
EXTENDS Naturals, Sequences, FiniteSets

CONSTANTS
  Owner,      \* the owner that resolve_agent asks for
  Agents,     \* pubkeys that carry the name asked for
  Profiles,   \* kind-0 events: records of tags, a sequence of auth tags, and at
  Issued,     \* auth tags that were really signed: records of by, to and conds
  Limit,      \* the relay's or the query's limit, 1000
  MaxOthers,  \* bound: records of the owner under other names
  Versions,   \* versions of the join policy
  None,
  MaxCalls    \* bound: calls in a run

ASSUME BridgeAssumption ==
  /\ None \notin Profiles \cup Versions \cup {Owner}
  /\ IsFiniteSet(Agents) /\ Limit \in Nat /\ MaxOthers \in Nat /\ MaxCalls \in Nat

IsASequence(s) == s \in Seq({s[i] : i \in DOMAIN s})

ASSUME ProfileAssumption ==
  /\ \A p \in Profiles : IsASequence(p.tags) /\ p.at \in Nat
  /\ \A t \in Issued : /\ IsASequence(t.conds)
                        /\ \A i \in DOMAIN t.conds : t.conds[i].value \in Nat

VARIABLES
  job,       \* the operation of this run
  pc,        \* "idle", or the request whose answer the call awaits
  calls,     \* calls so far
  (* Agents and their owner, at the relay. *)
  named,     \* agents with a record of the owner under the name
  others,    \* how many records it has under other names
  profile,   \* each agent's kind-0 event, or None
  (* resolve_agent *)
  pubkeys,   \* what the records gave
  verdict,   \* the last answer: a verification for each agent in it
  answered,  \* did the last call return?
  was,       \* history of the call: agents that were named, that were owned,
             \* and that were both all the time; and whether the answers were
             \* whole: the records fitted in Limit all the time, and each answer
             \* came as a list
  (* start_huddle: call n makes huddle n *)
  created, announced,  \* at the relay
  sent,      \* published, but not handled by the relay yet
  started,   \* returned by a call
  (* claim_invite *)
  policy,    \* the policy's version at the relay, or None
  version,   \* the version the call was shown, or None
  receipt,   \* the version its receipt is for, or None
  shown,     \* history: the versions any call was shown
  agreed,    \* the versions the relay has an agreement to
  member, claimed

agents  == <<named, others, profile>>
resolve == <<pubkeys, verdict, answered, was>>
huddles == <<created, announced, sent, started>>
invites == <<policy, version, receipt, shown, agreed, member, claimed>>
vars    == <<job, pc, calls, agents, resolve, huddles, invites>>

-----------------------------------------------------------------------------
(* The verdict *)

Holds_early(c, p) ==
  CASE c.op = "kind"   -> c.value = 0
    [] c.op = "before" -> p.at + 1 < c.value
    [] c.op = "after"  -> p.at > c.value
    [] OTHER           -> c.op = "empty"
Holds(c, p) ==
  CASE c.op = "kind"   -> c.value = 0
    [] c.op = "before" -> p.at < c.value
    [] c.op = "after"  -> p.at > c.value
    [] OTHER           -> c.op = "empty"

ConditionsApply_first(conds, p) == conds = << >> \/ Holds(conds[1], p)
ConditionsApply(conds, p) == \A i \in 1..Len(conds) : Holds(conds[i], p)

\* verify_auth_tag, external: the owner that signed this tag for this agent.
Attester(tag, a) == IF tag \in Issued /\ tag.to = a THEN tag.by ELSE None

\* In this order.  The pubkey is that of an agent: what is none has no profile.
VerifyAgentProfile(p, a) ==
  IF p = None THEN "missing_profile"
  ELSE IF Len(p.tags) = 0 THEN "missing_auth"
  ELSE IF Len(p.tags) > 1 THEN "multiple_auth_tags"
  ELSE LET owner == Attester(p.tags[1], a) IN
       IF owner = None THEN "invalid_auth"
       ELSE IF owner # Owner THEN "owner_mismatch"
       ELSE IF ~ConditionsApply(p.tags[1].conds, p) THEN "condition_mismatch"
       ELSE "verified"

Meets(c, p) ==
  \/ c.op = "empty"
  \/ c.op = "kind" /\ c.value = 0
  \/ c.op = "before" /\ p.at < c.value
  \/ c.op = "after" /\ c.value < p.at

\* What it is meant to find out, in the words of the documentation.
Owned(a, p) ==
  /\ p # None
  /\ \E t \in Issued : /\ p.tags = <<t>> /\ t.by = Owner /\ t.to = a
                       /\ \A i \in DOMAIN t.conds : Meets(t.conds[i], p)

-----------------------------------------------------------------------------
Init ==
  /\ job \in {"resolve", "huddle", "invite"} /\ pc = "idle" /\ calls = 0
  /\ named = {} /\ others = 0 /\ profile = [a \in Agents |-> None]
  /\ pubkeys = {} /\ verdict = << >> /\ answered = FALSE
  /\ was = [named |-> {}, owned |-> {}, both |-> {}, whole |-> TRUE]
  /\ created = {} /\ announced = {} /\ sent = << >> /\ started = {}
  /\ policy = None /\ version = None /\ receipt = None /\ shown = {} /\ agreed = {}
  /\ member = FALSE /\ claimed = FALSE

Begin(j, request) ==
  /\ job = j /\ pc = "idle" /\ calls < MaxCalls
  /\ calls' = calls + 1 /\ pc' = request /\ UNCHANGED job

Go(j, from, to) == job = j /\ pc = from /\ pc' = to /\ UNCHANGED <<job, calls>>

-----------------------------------------------------------------------------
(* resolve_agent *)

Now(n, o, p) == [named |-> n, owned |-> {a \in Agents : Owned(a, p[a])}, both |-> {},
                 whole |-> Cardinality(n) + o <= Limit]

Resolve ==
  /\ Begin("resolve", "records")
  /\ was' = [Now(named, others, profile) EXCEPT !.both = @ \cup
               {a \in named : Owned(a, profile[a])}]
  /\ verdict' = << >> /\ pubkeys' = {} /\ answered' = FALSE
  /\ UNCHANGED <<agents, huddles, invites>>

\* query() makes [] of an answer that is no list, such as an error that comes as
\* JSON with status 200: it reads as no events.
NotAList == was' = [was EXCEPT !.whole = FALSE]

\* The relay gives as many records as the limit allows, of any name.
RecordsListed ==
  \E some \in SUBSET named, k \in 0..others :
    /\ IF Cardinality(named) + others <= Limit
       THEN some = named ELSE Cardinality(some) + k = Limit
    /\ pubkeys' = some
    /\ Go("resolve", "records", IF some = {} THEN "idle" ELSE "profiles")
    /\ answered' = (some = {})
    /\ UNCHANGED <<agents, verdict, was, huddles, invites>>

Records ==
  \/ RecordsListed
  \/ /\ Go("resolve", "records", "idle") /\ NotAList
     /\ pubkeys' = {} /\ answered' = TRUE
     /\ UNCHANGED <<agents, verdict, huddles, invites>>

\* The verdicts on the agents found, given everyone's profile.
Verdicts(of) == [a \in pubkeys |-> VerifyAgentProfile(of[a], a)]

ProfilesCome ==
  /\ Go("resolve", "profiles", "idle") /\ answered' = TRUE
  /\ \/ verdict' = Verdicts(profile) /\ UNCHANGED was
     \/ verdict' = Verdicts([a \in Agents |-> None]) /\ NotAList
  /\ UNCHANGED <<agents, pubkeys, huddles, invites>>

ResolveFails ==
  /\ \E r \in {"records", "profiles"} : Go("resolve", r, "idle")
  /\ UNCHANGED <<agents, resolve, huddles, invites>>

\* The owner and the agents publish and delete what they like.
AgentsChange ==
  /\ job = "resolve"
  /\ \/ \E a \in Agents : named' \in {named \cup {a}, named \ {a}}
        /\ UNCHANGED <<others, profile>>
     \/ others' \in 0..MaxOthers /\ UNCHANGED <<named, profile>>
     \/ \E a \in Agents, p \in Profiles \cup {None} : profile' = [profile EXCEPT ![a] = p]
        /\ UNCHANGED <<named, others>>
  /\ LET is == Now(named', others', profile') IN
       was' = IF pc = "idle" THEN was
              ELSE [named  |-> was.named \cup is.named,
                    owned  |-> was.owned \cup is.owned,
                    both   |-> was.both \cap is.named \cap is.owned,
                    whole  |-> was.whole /\ is.whole]
  /\ UNCHANGED <<job, pc, calls, pubkeys, verdict, answered, huddles, invites>>

-----------------------------------------------------------------------------
(* start_huddle: both events go over the WebSocket, in order *)

StartHuddle ==
  /\ Begin("huddle", "channel")
  /\ sent' = Append(sent, [kind |-> "channel", of |-> calls'])
  /\ UNCHANGED <<agents, resolve, created, announced, started, invites>>

RelayHandles(ok) ==
  /\ job = "huddle" /\ sent # << >>
  /\ LET ev == Head(sent)
         add(kind, S) == IF ok /\ ev.kind = kind THEN S \cup {ev.of} ELSE S
     IN created' = add("channel", created) /\ announced' = add("announcement", announced)
  /\ UNCHANGED <<job, calls, agents, resolve, invites>>

\* The call goes on to the announcement if the relay took the channel.
GoOn_always(ok) == TRUE
GoOn(ok) == ok

\* The OK comes while the call waits for it.
Answered(ok) ==
  /\ RelayHandles(ok) /\ [kind |-> pc, of |-> calls] = Head(sent)
  /\ \/ /\ pc = "channel" /\ GoOn(ok)
        /\ pc' = "announcement" /\ UNCHANGED started
        /\ sent' = Append(Tail(sent), [kind |-> "announcement", of |-> calls])
     \/ /\ pc = "announcement" /\ ok
        /\ pc' = "idle" /\ started' = started \cup {calls} /\ sent' = Tail(sent)
     \/ /\ ~ok /\ (pc = "channel" => ~GoOn(ok))
        /\ pc' = "idle" /\ UNCHANGED started /\ sent' = Tail(sent)

\* The OK is lost, or the call has given up.
Unanswered(ok) ==
  /\ RelayHandles(ok) /\ sent' = Tail(sent) /\ UNCHANGED <<pc, started>>

\* publish() times out or cannot send; what it sent may still be on its way.
PublishFails ==
  /\ \E kind \in {"channel", "announcement"} : Go("huddle", kind, "idle")
  /\ \/ UNCHANGED sent
     \/ sent' = << >>
  /\ UNCHANGED <<agents, resolve, created, announced, started, invites>>

-----------------------------------------------------------------------------
(* claim_invite *)

ClaimInvite ==
  /\ Begin("invite", "policy")
  /\ version' = None /\ receipt' = None /\ claimed' = FALSE
  /\ UNCHANGED <<agents, resolve, huddles, policy, shown, agreed, member>>

\* The status is not checked: an error that comes as JSON reads as no policy.
PolicyShown ==
  /\ \E v \in {policy, None} :
       /\ version' = v /\ shown' = shown \cup ({v} \ {None})
       /\ Go("invite", "policy", IF v = None THEN "claim" ELSE "accept")
  /\ UNCHANGED <<agents, resolve, huddles, policy, receipt, agreed, member, claimed>>

\* The relay takes the agreement to the policy in force only.
Agreed == version = policy /\ agreed' = agreed \cup {version}

PolicyAccepted ==
  /\ Go("invite", "accept", "claim") /\ Agreed /\ receipt' = version
  /\ UNCHANGED <<agents, resolve, huddles, policy, version, shown, member, claimed>>

\* Whom the relay admits is its own affair.
InviteClaimed ==
  /\ Go("invite", "claim", "idle") /\ member' = TRUE /\ claimed' = TRUE
  /\ UNCHANGED <<agents, resolve, huddles, policy, version, shown, receipt, agreed>>

\* A request is refused or its answer lost, in which case the relay may have done
\* what it asked.
InviteFails ==
  /\ \E request \in {"policy", "accept", "claim"} : Go("invite", request, "idle")
  /\ \/ UNCHANGED <<agreed, member>>
     \/ pc = "accept" /\ Agreed /\ UNCHANGED member
     \/ pc = "claim" /\ member' = TRUE /\ UNCHANGED agreed
  /\ UNCHANGED <<agents, resolve, huddles, policy, version, shown, receipt, claimed>>

PolicyChanges ==
  /\ job = "invite" /\ policy' \in Versions \cup {None}
  /\ UNCHANGED <<job, pc, calls, agents, resolve, huddles, version, shown, receipt,
                 agreed, member, claimed>>

-----------------------------------------------------------------------------
Next ==
  \/ Resolve \/ Records \/ ProfilesCome \/ ResolveFails \/ AgentsChange
  \/ StartHuddle \/ PublishFails
  \/ \E ok \in BOOLEAN : Answered(ok) \/ Unanswered(ok)
  \/ ClaimInvite \/ PolicyShown \/ PolicyAccepted \/ InviteClaimed \/ InviteFails
  \/ PolicyChanges

Spec == Init /\ [][Next]_vars

-----------------------------------------------------------------------------
(* Properties *)

TypeOK ==
  /\ job \in {"resolve", "huddle", "invite"} /\ calls \in 0..MaxCalls
  /\ pc \in {"idle", "records", "profiles", "channel", "announcement", "policy",
             "accept", "claim"}
  /\ named \subseteq Agents /\ others \in 0..MaxOthers
  /\ profile \in [Agents -> Profiles \cup {None}]
  /\ pubkeys \subseteq Agents /\ DOMAIN verdict \subseteq Agents
  /\ created \cup announced \cup started \subseteq 1..calls
  /\ {policy, version, receipt} \subseteq Versions \cup {None}
  /\ shown \cup agreed \subseteq Versions /\ {member, claimed} \subseteq BOOLEAN

\* Whom resolve_agent reports as verified had, while it ran, a record of the owner
\* and a profile with one auth tag, which the owner signed for that agent and
\* whose conditions the profile meets: "exactly one valid NIP-OA auth tag from
\* that owner" (client.py:293-295).
ResolveTruthful ==
  \A a \in DOMAIN verdict :
    verdict[a] = "verified" => a \in was.named \cap was.owned

\* Whom the owner had recorded and attested all the time it ran is in its answer
\* and verified, whatever happened to other agents between the two queries, if
\* the records never exceeded the limit and each answer came as a list
\* (client.py:303-319).
ResolveComplete ==
  job = "resolve" /\ pc = "idle" /\ answered /\ was.whole =>
    \A a \in was.both : a \in DOMAIN verdict /\ verdict[a] = "verified"

\* What the operations report is so, though any request may fail half-way or be
\* carried out after its caller gave up: a huddle is announced in a channel that
\* exists, and both when start_huddle() returned it (client.py:218-221); an
\* invite claimed is membership, under the policy that the call was shown, and
\* nothing is agreed to unseen (client.py:374).
ReportsHold ==
  /\ announced \subseteq created /\ started \subseteq announced
  /\ claimed => member /\ version \in agreed \cup {None}
  /\ agreed \subseteq shown
=============================================================================
