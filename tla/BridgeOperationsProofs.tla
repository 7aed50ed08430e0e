------------------------ MODULE BridgeOperationsProofs ------------------------
(***************************************************************************)
(* Proofs about BridgeOperations, for every set of agents, profiles, tags   *)
(* and policy versions, every limit and every number of calls.              *)
(***************************************************************************)
EXTENDS BridgeOperations, TLAPS

-----------------------------------------------------------------------------
(* The verdict *)

\* The two ways to read a condition agree.
LEMMA HoldsIsMeets ==
  ASSUME NEW c, NEW p, c.value \in Nat, p.at \in Nat
  PROVE  Holds(c, p) <=> Meets(c, p)
BY DEF Holds, Meets

LEMMA ConditionsAreMet ==
  ASSUME NEW p \in Profiles, NEW t \in Issued
  PROVE  ConditionsApply(t.conds, p) <=> \A i \in DOMAIN t.conds : Meets(t.conds[i], p)
<1>1. DOMAIN t.conds = 1..Len(t.conds)
  BY ProfileAssumption DEF IsASequence
<1>2. \A i \in DOMAIN t.conds : Holds(t.conds[i], p) <=> Meets(t.conds[i], p)
  BY ProfileAssumption, HoldsIsMeets
<1> QED BY <1>1, <1>2 DEF ConditionsApply

\* The sequence of verdicts finds out what it is meant to: an agent is verified
\* if and only if the owner attested its profile (agents.py, client.py:293-295).
LEMMA VerifiedIsOwned ==
  ASSUME NEW a, NEW p \in Profiles \cup {None}
  PROVE  VerifyAgentProfile(p, a) = "verified" <=> Owned(a, p)
<1>1. CASE p = None
  BY <1>1 DEF VerifyAgentProfile, Owned
<1>2. CASE p # None
  <2> DEFINE t == p.tags[1]
  <2>1. p \in Profiles /\ p.tags \in Seq({p.tags[i] : i \in DOMAIN p.tags})
    BY <1>2, ProfileAssumption DEF IsASequence
  <2>2. Len(p.tags) = 1 <=> p.tags = <<t>>
    <3>1. ASSUME Len(p.tags) = 1 PROVE p.tags = <<t>>
      <4>1. DOMAIN p.tags = 1..1 /\ p.tags = [i \in DOMAIN p.tags |-> p.tags[i]]
        BY <2>1, <3>1
      <4> QED BY <4>1
    <3>2. ASSUME p.tags = <<t>> PROVE Len(p.tags) = 1
      <4> HIDE DEF t
      <4> QED BY <3>2
    <3> QED BY <3>1, <3>2
  <2>3. Len(p.tags) \in Nat
    BY <2>1
  <2>4. Attester(t, a) = Owner <=> t \in Issued /\ t.by = Owner /\ t.to = a
    BY BridgeAssumption DEF Attester
  <2>5. VerifyAgentProfile(p, a) = "verified" <=>
          Len(p.tags) = 1 /\ Attester(t, a) = Owner /\ ConditionsApply(t.conds, p)
    <3>1. Owner # None
      BY BridgeAssumption
    <3>2. CASE Len(p.tags) # 1
      <4>1. VerifyAgentProfile(p, a) \in {"missing_auth", "multiple_auth_tags"}
        <5>1. \A n \in Nat : n # 1 => n = 0 \/ (n > 1 /\ n # 0)
          OBVIOUS
        <5> QED BY <1>2, <2>3, <3>2, <5>1 DEF VerifyAgentProfile
      <4>2. VerifyAgentProfile(p, a) # "verified"
        BY <4>1
      <4>3. ~(Len(p.tags) = 1)
        BY <3>2
      <4> QED BY <4>2, <4>3, Zenon
    <3>3. CASE Len(p.tags) = 1
      <4>1. VerifyAgentProfile(p, a) =
              IF Attester(t, a) = None THEN "invalid_auth"
              ELSE IF Attester(t, a) # Owner THEN "owner_mismatch"
              ELSE IF ~ConditionsApply(t.conds, p) THEN "condition_mismatch"
              ELSE "verified"
        BY <1>2, <3>3 DEF VerifyAgentProfile
      <4>2. CASE ConditionsApply(t.conds, p)
        BY <3>1, <3>3, <4>1, <4>2
      <4>3. CASE ~ConditionsApply(t.conds, p)
        BY <3>3, <4>1, <4>3
      <4> QED BY <4>2, <4>3
    <3> QED BY <3>2, <3>3
  <2>6. Owned(a, p) <=>
          /\ p.tags = <<t>> /\ t \in Issued /\ t.by = Owner /\ t.to = a
          /\ \A i \in DOMAIN t.conds : Meets(t.conds[i], p)
    <3>1. \A u : p.tags = <<u>> => u = t
      OBVIOUS
    <3> QED BY <1>2, <3>1 DEF Owned
  <2>7. t \in Issued =>
          (ConditionsApply(t.conds, p) <=> \A i \in DOMAIN t.conds : Meets(t.conds[i], p))
    BY <2>1, ConditionsAreMet
  <2> QED BY <2>2, <2>4, <2>5, <2>6, <2>7
<1> QED BY <1>1, <1>2

-----------------------------------------------------------------------------
(* resolve_agent *)

Waits == pc \in {"records", "profiles"}
\* The history is a record of these four.
Recorded == was = [named |-> was.named, owned |-> was.owned, both |-> was.both,
                   whole |-> was.whole]
Attested == {a \in Agents : Owned(a, profile[a])}

\* What is so now was so some time in the call, what was so all the time is so
\* now, and both were asked for in time.
Asked ==
  /\ pubkeys \subseteq Agents
  /\ profile \in [Agents -> Profiles \cup {None}]
  /\ Recorded
  /\ was.named \cup was.owned \cup was.both \subseteq Agents
  /\ Waits => /\ named \subseteq was.named /\ Attested \subseteq was.owned
              /\ was.both \subseteq named \cap Attested
              /\ was.whole => Cardinality(named) + others <= Limit
              /\ verdict = << >> /\ ~answered
  /\ pc = "profiles" => /\ pubkeys \subseteq was.named
                        /\ was.whole => was.both \subseteq pubkeys
  /\ named \subseteq Agents
  /\ job = "resolve" => pc = "idle" \/ Waits

RInv == Asked /\ ResolveTruthful /\ ResolveComplete

LEMMA RInit == Init => RInv
BY BridgeAssumption DEF Init, Recorded, RInv, Asked, Waits, ResolveTruthful, ResolveComplete

\* The steps of the other operations.
LEMMA ElsewhereKept ==
  ASSUME RInv, UNCHANGED <<agents, resolve, job>>, job # "resolve", pc' = pc \/ ~Waits'
  PROVE  RInv'
BY DEF RInv, Asked, Recorded, ResolveTruthful, ResolveComplete, Waits, agents, resolve,
   Attested

LEMMA ResolveStep == ASSUME RInv, Resolve PROVE RInv'
<1>1. /\ UNCHANGED agents /\ pubkeys' = {} /\ verdict' = << >> /\ answered' = FALSE
      /\ pc' = "records"
  BY DEF Resolve, Begin
<1>2. was' = [named |-> named, owned |-> Attested, both |-> {a \in named : Owned(a, profile[a])},
              whole |-> Cardinality(named) + others <= Limit]
  BY DEF Resolve, Now, Attested
<1>3. Asked'
  <2>1. Attested' = Attested /\ Attested \subseteq Agents
    BY <1>1 DEF Attested, agents
  <2>2. {a \in named : Owned(a, profile[a])} = named \cap Attested
    BY DEF Attested, RInv, Asked
  <2>3. was.named' = named /\ was.owned' = Attested /\ was.both' = named \cap Attested
        /\ (was.whole' <=> Cardinality(named) + others <= Limit) /\ Recorded'
    BY <1>2, <2>2 DEF Recorded
  <2> HIDE DEF Attested
  <2> QED BY <1>1, <2>1, <2>2, <2>3 DEF RInv, Asked, Waits, agents
<1>4. ResolveTruthful' /\ ResolveComplete'
  BY <1>1 DEF ResolveTruthful, ResolveComplete
<1> QED BY <1>3, <1>4 DEF RInv

LEMMA RecordsListedStep == ASSUME RInv, RecordsListed PROVE RInv'
<1>1. PICK some \in SUBSET named, k \in 0..others :
        /\ IF Cardinality(named) + others <= Limit
           THEN some = named ELSE Cardinality(some) + k = Limit
        /\ pubkeys' = some
        /\ Go("resolve", "records", IF some = {} THEN "idle" ELSE "profiles")
        /\ answered' = (some = {})
        /\ UNCHANGED <<agents, verdict, was, huddles, invites>>
  BY DEF RecordsListed
<1>2. /\ UNCHANGED <<agents, verdict, was>> /\ pc = "records" /\ Waits
      /\ pc' = IF some = {} THEN "idle" ELSE "profiles"
  BY <1>1 DEF Go, Waits
<1>3. was.whole => was.both \subseteq some
  BY <1>1, <1>2 DEF RInv, Asked
<1>4. Asked'
  BY <1>1, <1>2, <1>3 DEF RInv, Asked, Recorded, Waits, agents, Attested
<1>5. ResolveTruthful' /\ ResolveComplete'
  BY <1>1, <1>2, <1>3 DEF RInv, Asked, ResolveTruthful, ResolveComplete
<1> QED BY <1>4, <1>5 DEF RInv

\* An answer that is no list finds nobody, and the answers are no longer whole.
LEMMA NotAListOfAsked ==
  ASSUME Asked, NotAList
  PROVE  /\ was'.named = was.named /\ was'.owned = was.owned /\ was'.both = was.both
         /\ ~was'.whole /\ Recorded'
BY DEF Asked, NotAList, Recorded

LEMMA RecordsStep == ASSUME RInv, Records PROVE RInv'
<1>1. CASE RecordsListed
  BY <1>1, RecordsListedStep
<1>2. CASE NotAList /\ Records /\ ~RecordsListed
  <2>1. /\ UNCHANGED <<agents, verdict>> /\ pubkeys' = {} /\ pc = "records" /\ pc' = "idle"
    BY <1>2 DEF Records, Go
  <2> QED BY <1>2, <2>1, NotAListOfAsked
          DEF RInv, Asked, Waits, agents, Attested, ResolveTruthful, ResolveComplete
<1> QED BY <1>1, <1>2 DEF Records

LEMMA ProfilesComeStep == ASSUME RInv, ProfilesCome PROVE RInv'
<1>1. UNCHANGED <<agents, pubkeys>> /\ pc = "profiles" /\ Waits /\ pc' = "idle"
  BY DEF ProfilesCome, Go, Waits
<1>2. CASE verdict' = Verdicts(profile) /\ UNCHANGED was
  <2>1. DOMAIN verdict' = pubkeys /\ \A a \in pubkeys : verdict'[a] = "verified" <=> a \in Attested
    <3>1. \A a \in pubkeys : a \in Agents /\ profile[a] \in Profiles \cup {None}
      BY DEF RInv, Asked
    <3> QED BY <1>2, <3>1, VerifiedIsOwned DEF Attested, Verdicts
  <2>2. Asked'
    BY <1>1, <1>2 DEF RInv, Asked, Recorded, Waits, agents, Attested
  <2>3. ResolveTruthful' /\ ResolveComplete'
    BY <1>1, <1>2, <2>1 DEF RInv, Asked, ResolveTruthful, ResolveComplete
  <2> QED BY <2>2, <2>3 DEF RInv
<1>3. CASE verdict' = Verdicts([a \in Agents |-> None]) /\ NotAList
  <2>1. DOMAIN verdict' = pubkeys /\ \A a \in pubkeys : verdict'[a] # "verified"
    BY <1>3 DEF RInv, Asked, Verdicts, VerifyAgentProfile
  <2>2. Asked'
    BY <1>1, <1>3, NotAListOfAsked DEF RInv, Asked, Waits, agents, Attested
  <2>3. ResolveTruthful' /\ ResolveComplete'
    BY <1>3, <2>1, NotAListOfAsked DEF RInv, ResolveTruthful, ResolveComplete
  <2> QED BY <2>2, <2>3 DEF RInv
<1> QED BY <1>2, <1>3 DEF ProfilesCome

LEMMA AgentsChangeStep == ASSUME RInv, AgentsChange PROVE RInv'
<1>1. UNCHANGED <<job, pc, pubkeys, verdict, answered>>
  BY DEF AgentsChange
<1>2. named' \subseteq Agents /\ profile' \in [Agents -> Profiles \cup {None}]
  BY DEF AgentsChange, RInv, Asked
<1>3. CASE ~Waits
  <2>1. UNCHANGED was
    BY <1>3 DEF AgentsChange, RInv, Asked
  <2> QED BY <1>1, <1>2, <1>3, <2>1
          DEF RInv, Asked, Recorded, ResolveTruthful, ResolveComplete, Waits
<1>4. CASE Waits
  <2>1. was' = [named  |-> was.named \cup named', owned |-> was.owned \cup Attested',
                both   |-> was.both \cap named' \cap Attested',
                whole  |-> was.whole /\ Cardinality(named') + others' <= Limit]
    BY <1>4 DEF AgentsChange, Now, Attested, Waits
  <2>2. Asked'
    BY <1>1, <1>2, <1>4, <2>1 DEF RInv, Asked, Recorded, Waits, Attested
  <2>3. ResolveTruthful' /\ ResolveComplete'
    BY <1>1, <1>4, <2>1 DEF RInv, Asked, ResolveTruthful, ResolveComplete, Waits
  <2> QED BY <2>2, <2>3 DEF RInv
<1> QED BY <1>3, <1>4

LEMMA RStep == RInv /\ [Next]_vars => RInv'
<1> SUFFICES ASSUME RInv, [Next]_vars PROVE RInv'
  OBVIOUS
<1>1. CASE Resolve
  BY <1>1, ResolveStep
<1>2. CASE Records
  BY <1>2, RecordsStep
<1>3. CASE ProfilesCome
  BY <1>3, ProfilesComeStep
<1>4. CASE ResolveFails
  BY <1>4 DEF ResolveFails, Go, RInv, Asked, Recorded, ResolveTruthful, ResolveComplete, Waits,
              agents, resolve, Attested
<1>5. CASE AgentsChange
  BY <1>5, AgentsChangeStep
<1>6. CASE StartHuddle \/ PublishFails
  <2>1. /\ UNCHANGED <<agents, resolve, job>> /\ job = "huddle" /\ ~Waits'
    BY <1>6 DEF StartHuddle, PublishFails, Begin, Go, Waits
  <2> QED BY <2>1, ElsewhereKept
<1>7. ASSUME NEW ok \in BOOLEAN, Answered(ok) \/ Unanswered(ok) PROVE RInv'
  <2>1. /\ UNCHANGED <<agents, resolve, job>> /\ job = "huddle"
        /\ pc' = pc \/ ~Waits'
    BY <1>7 DEF Answered, Unanswered, RelayHandles, Waits
  <2> QED BY <2>1, ElsewhereKept
<1>8. CASE ClaimInvite \/ PolicyShown \/ PolicyAccepted \/ InviteClaimed \/ InviteFails
  <2>1. /\ UNCHANGED <<agents, resolve, job>> /\ job = "invite" /\ ~Waits'
    BY <1>8 DEF ClaimInvite, PolicyShown, PolicyAccepted, InviteClaimed, InviteFails,
                Begin, Go, Waits
  <2> QED BY <2>1, ElsewhereKept
<1>9. CASE PolicyChanges
  BY <1>9, ElsewhereKept DEF PolicyChanges
<1>10. CASE UNCHANGED vars
  BY <1>10 DEF vars, RInv, Asked, Recorded, ResolveTruthful, ResolveComplete, Waits, agents,
               resolve, Attested
<1> QED BY <1>1, <1>2, <1>3, <1>4, <1>5, <1>6, <1>7, <1>8, <1>9, <1>10 DEF Next

LEMMA RCorrect == Spec => []RInv
BY RInit, RStep, PTL DEF Spec

\* Whatever happens between its two queries, whom resolve_agent reports as verified
\* was recorded and attested by the owner while it ran (client.py:293-295).
THEOREM ResolveTruthfulCorrect == Spec => []ResolveTruthful
<1>1. RInv => ResolveTruthful
  BY DEF RInv
<1> QED BY <1>1, RCorrect, PTL

\* Whom the owner recorded and attested all the time is in its answer and verified,
\* if the records fitted in the limit all the time and each answer came as a list
\* (client.py:278, 303-319).
THEOREM ResolveCompleteCorrect == Spec => []ResolveComplete
<1>1. RInv => ResolveComplete
  BY DEF RInv
<1> QED BY <1>1, RCorrect, PTL

-----------------------------------------------------------------------------
(* start_huddle and claim_invite *)

Event == [kind : {"channel", "announcement"}, of : 0..MaxCalls]

\* An announcement is published in a channel that exists.
Channelled ==
  /\ calls \in 0..MaxCalls
  /\ started \subseteq announced /\ announced \subseteq created
  /\ sent \in Seq(Event)
  /\ \A i \in 1..Len(sent) : sent[i].kind = "announcement" => sent[i].of \in created

\* The call was shown the policy it agreed to, and its receipt is for it.
Agreeing ==
  /\ agreed \subseteq shown
  /\ version \in shown \cup {None}
  /\ pc = "accept" => version # None
  /\ pc = "claim" => version \in agreed \cup {None}
  /\ claimed => /\ member /\ version \in agreed \cup {None}
                /\ pc \notin {"policy", "accept", "claim"}

HInv == Channelled /\ Agreeing

LEMMA HInit == Init => HInv
BY BridgeAssumption DEF Init, HInv, Channelled, Agreeing

\* The steps of the other operations.
LEMMA HuddlesKept ==
  ASSUME Channelled, UNCHANGED huddles, calls' \in 0..MaxCalls
  PROVE  Channelled'
BY DEF Channelled, huddles

LEMMA InvitesKept ==
  ASSUME Agreeing, UNCHANGED <<job, invites>>, pc' \notin {"policy", "accept", "claim"}
  PROVE  Agreeing'
BY DEF Agreeing, invites

LEMMA StartHuddleStep == ASSUME Channelled, StartHuddle PROVE Channelled'
<1>1. calls' \in 0..MaxCalls /\ UNCHANGED <<created, announced, started>>
  BY BridgeAssumption DEF StartHuddle, Begin, Channelled
<1> DEFINE e == [kind |-> "channel", of |-> calls']
<1>2. e \in Event /\ e.kind # "announcement" /\ sent' = Append(sent, e)
  BY <1>1 DEF StartHuddle, Event
<1> HIDE DEF e
<1> QED BY <1>1, <1>2 DEF Channelled

\* Taking the first event off the line leaves the others.
LEMMA TailOfSent ==
  ASSUME Channelled, sent # << >>
  PROVE  /\ Head(sent) \in Event /\ Tail(sent) \in Seq(Event)
         /\ Head(sent).kind = "announcement" => Head(sent).of \in created
         /\ \A i \in 1..Len(Tail(sent)) :
              Tail(sent)[i].kind = "announcement" => Tail(sent)[i].of \in created
<1>1. Head(sent) = sent[1] /\ 1 \in 1..Len(sent)
  BY DEF Channelled
<1>2. /\ Tail(sent) \in Seq(Event) /\ Len(Tail(sent)) = Len(sent) - 1
      /\ \A i \in 1..Len(Tail(sent)) : Tail(sent)[i] = sent[i + 1]
  BY DEF Channelled
<1>3. \A i \in 1..Len(Tail(sent)) : i + 1 \in 1..Len(sent)
  BY <1>2 DEF Channelled
<1> QED BY <1>1, <1>2, <1>3 DEF Channelled

LEMMA HandlesStep ==
  ASSUME Channelled, NEW ok \in BOOLEAN, RelayHandles(ok)
  PROVE  /\ created \subseteq created' /\ announced \subseteq announced'
         /\ announced' \subseteq created'
         /\ ok /\ Head(sent).kind = "channel" => Head(sent).of \in created'
         /\ ok /\ Head(sent).kind = "announcement" => Head(sent).of \in announced'
         /\ sent # << >> /\ UNCHANGED <<job, calls, agents, resolve, invites>>
<1> DEFINE h == Head(sent)
<1>1. /\ created' = IF ok /\ h.kind = "channel" THEN created \cup {h.of} ELSE created
      /\ announced' = IF ok /\ h.kind = "announcement" THEN announced \cup {h.of} ELSE announced
      /\ sent # << >> /\ UNCHANGED <<job, calls, agents, resolve, invites>>
  BY DEF RelayHandles
<1>2. h.kind = "announcement" => h.of \in created
  BY <1>1, TailOfSent
<1> HIDE DEF h
<1>3. announced' \subseteq created'
  BY <1>1, <1>2 DEF Channelled
<1> QED BY <1>1, <1>3 DEF h

LEMMA AnsweredStep == ASSUME Channelled, NEW ok \in BOOLEAN, Answered(ok) PROVE Channelled'
<1>1. RelayHandles(ok) /\ Head(sent) = [kind |-> pc, of |-> calls]
  BY DEF Answered
<1> DEFINE h == Head(sent)
<1>a. h.kind = pc /\ h.of = calls
  BY <1>1
<1>b. /\ ok /\ h.kind = "channel" => h.of \in created'
      /\ ok /\ h.kind = "announcement" => h.of \in announced'
  BY <1>1, HandlesStep
<1> HIDE DEF h
<1>2. /\ Tail(sent) \in Seq(Event)
      /\ \A i \in 1..Len(Tail(sent)) :
           Tail(sent)[i].kind = "announcement" => Tail(sent)[i].of \in created'
  BY <1>1, HandlesStep, TailOfSent
<1>3. CASE pc = "channel" /\ ok
  <2> DEFINE e == [kind |-> "announcement", of |-> calls]
  <2>1. e \in Event /\ e.of = calls
    BY DEF Event, Channelled
  <2>2. calls \in created'
    BY <1>a, <1>b, <1>3
  <2>3. sent' = Append(Tail(sent), e) /\ UNCHANGED started
    BY <1>3 DEF Answered, GoOn
  <2> HIDE DEF e
  <2> QED BY <1>1, <1>2, <2>1, <2>2, <2>3, HandlesStep DEF Channelled
<1>4. CASE pc = "announcement" /\ ok
  <2>1. sent' = Tail(sent) /\ started' = started \cup {calls}
    BY <1>4 DEF Answered
  <2>2. calls \in announced'
    BY <1>a, <1>b, <1>4
  <2> QED BY <1>1, <1>2, <2>1, <2>2, HandlesStep DEF Channelled
<1>5. CASE ~ok
  <2>1. sent' = Tail(sent) /\ UNCHANGED started
    BY <1>5 DEF Answered, GoOn
  <2> QED BY <1>1, <1>2, <2>1, HandlesStep DEF Channelled
<1> QED BY <1>3, <1>4, <1>5 DEF Answered

LEMMA UnansweredStep ==
  ASSUME Channelled, NEW ok \in BOOLEAN, Unanswered(ok) PROVE Channelled'
<1>1. RelayHandles(ok) /\ sent' = Tail(sent) /\ UNCHANGED started
  BY DEF Unanswered
<1> QED BY <1>1, HandlesStep, TailOfSent DEF Channelled

LEMMA HStep == HInv /\ [Next]_vars => HInv'
<1> SUFFICES ASSUME HInv, [Next]_vars PROVE HInv'
  OBVIOUS
<1>1. CASE Resolve \/ Records \/ ProfilesCome \/ ResolveFails
  <2>1. /\ UNCHANGED <<job, huddles, invites>> /\ calls' \in 0..MaxCalls
        /\ pc' \notin {"policy", "accept", "claim"}
    BY <1>1, BridgeAssumption DEF Resolve, Records, RecordsListed, ProfilesCome, ResolveFails,
                                  Begin, Go, HInv, Channelled
  <2> QED BY <2>1, HuddlesKept, InvitesKept DEF HInv
<1>2. CASE AgentsChange \/ PolicyChanges \/ UNCHANGED vars
  BY <1>2 DEF AgentsChange, PolicyChanges, vars, HInv, Channelled, Agreeing, huddles, invites
<1>3. CASE StartHuddle
  <2>1. UNCHANGED <<job, invites>> /\ pc' = "channel"
    BY <1>3 DEF StartHuddle, Begin
  <2> QED BY <1>3, <2>1, StartHuddleStep, InvitesKept DEF HInv
<1>4. CASE PublishFails
  <2>1. /\ UNCHANGED <<job, calls, created, announced, started, invites>> /\ pc' = "idle"
        /\ sent' = sent \/ sent' = << >>
    BY <1>4 DEF PublishFails, Go
  <2>2. Channelled'
    <3>1. CASE sent' = sent
      BY <2>1, <3>1 DEF HInv, Channelled
    <3>2. CASE sent' = << >>
      <4>1. sent' \in Seq(Event) /\ Len(sent') = 0
        BY <3>2
      <4> QED BY <2>1, <4>1 DEF HInv, Channelled
    <3> QED BY <2>1, <3>1, <3>2
  <2> QED BY <2>1, <2>2, InvitesKept DEF HInv
<1>5. ASSUME NEW ok \in BOOLEAN, Answered(ok) PROVE HInv'
  <2>1. UNCHANGED <<job, invites>> /\ pc' \in {"idle", "announcement"}
    BY <1>5 DEF Answered, RelayHandles
  <2> QED BY <1>5, <2>1, AnsweredStep, InvitesKept DEF HInv
<1>6. ASSUME NEW ok \in BOOLEAN, Unanswered(ok) PROVE HInv'
  <2>1. UNCHANGED <<job, invites, pc>>
    BY <1>6 DEF Unanswered, RelayHandles
  <2>2. Agreeing'
    BY <2>1 DEF HInv, Agreeing, invites
  <2> QED BY <1>6, <2>2, UnansweredStep DEF HInv
<1>7. CASE ClaimInvite \/ PolicyShown \/ PolicyAccepted \/ InviteClaimed \/ InviteFails
  <2>1. UNCHANGED huddles /\ calls' \in 0..MaxCalls
    BY <1>7, BridgeAssumption DEF ClaimInvite, PolicyShown, PolicyAccepted, InviteClaimed,
          InviteFails, Begin, Go, HInv, Channelled
  <2>2. Agreeing'
    <3>1. CASE ClaimInvite
      BY <3>1 DEF ClaimInvite, Begin, HInv, Agreeing
    <3>2. CASE PolicyShown
      BY <3>2 DEF PolicyShown, Go, HInv, Agreeing
    <3>3. CASE PolicyAccepted
      BY <3>3 DEF PolicyAccepted, Agreed, Go, HInv, Agreeing
    <3>4. CASE InviteClaimed
      BY <3>4 DEF InviteClaimed, Go, HInv, Agreeing
    <3>5. CASE InviteFails
      BY <3>5 DEF InviteFails, Agreed, Go, HInv, Agreeing
    <3> QED BY <1>7, <3>1, <3>2, <3>3, <3>4, <3>5
  <2> QED BY <2>1, <2>2, HuddlesKept DEF HInv
<1> QED BY <1>1, <1>2, <1>3, <1>4, <1>5, <1>6, <1>7 DEF Next

LEMMA HCorrect == Spec => []HInv
BY HInit, HStep, PTL DEF Spec

\* What start_huddle and claim_invite report is so, although any request may fail
\* half-way or be carried out after its caller gave up (client.py:218-221, 374).
THEOREM ReportsHoldCorrect == Spec => []ReportsHold
<1>1. HInv => ReportsHold
  BY DEF HInv, Channelled, Agreeing, ReportsHold
<1> QED BY <1>1, HCorrect, PTL
=============================================================================
