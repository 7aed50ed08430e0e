-------------------------- MODULE HuddleRosterProofs --------------------------
(***************************************************************************)
(* Proofs about HuddleRoster, for every set of indexes and peers and every  *)
(* number of connections and untold changes.                                *)
(***************************************************************************)
EXTENDS HuddleRoster, TLAPS

\* Applying a change of the events to a list of peers gives a list of peers.
LEMMA ApplyType ==
  ASSUME view \in Roster, NEW left, NEW joined, NEW p \in Roster, Apply(left, joined, p)
  PROVE  view' \in Roster
BY DEF Roster, Apply

LEMMA OthersType == ASSUME NEW p \in Roster PROVE Others(p) \in Roster
BY DEF Roster, Others

LEMMA RemoveType ==
  ASSUME decoders \in [Indexes -> SUBSET Stream], NEW S, RemovePeers(S)
  PROVE  decoders' \in [Indexes -> SUBSET Stream]
BY DEF RemovePeers

-----------------------------------------------------------------------------
(* Type correctness, which includes that the client holds its index *)

LEMMA TypeInit == Init => TypeOK
<1> SUFFICES ASSUME Init PROVE TypeOK
  OBVIOUS
<1>1. Empty \in Roster
  BY DEF Empty, Roster
<1>2. decoders \in [Indexes -> SUBSET Stream]
  BY DEF Init
<1>3. /\ untold \in 0..MaxUntold /\ conn \in 0..MaxConn
      /\ behind \subseteq Indexes /\ up = FALSE /\ died = FALSE /\ me = Nobody
  BY RosterAssumption DEF Init
<1> QED BY <1>1, <1>2, <1>3 DEF Init, TypeOK

LEMMA OnJoinedType ==
  ASSUME TypeOK, NEW i \in Indexes, NEW p \in Pubkeys \cup {Self}, OnJoined(i, p)
  PROVE  /\ {peers', view'} \subseteq Roster
         /\ UNCHANGED <<conn, up, died, me, decoders>>
<1>1. peers' \in Roster
  BY DEF OnJoined, TypeOK, Roster
<1>2. view' \in Roster
  BY <1>1, ApplyType DEF OnJoined, TypeOK
<1> QED BY <1>1, <1>2 DEF OnJoined

LEMMA OnLeftType ==
  ASSUME TypeOK, NEW i \in Indexes, OnLeft(i)
  PROVE  /\ {peers', view'} \subseteq Roster
         /\ decoders' \in [Indexes -> SUBSET Stream]
         /\ died' \in BOOLEAN /\ UNCHANGED <<conn, up, me>>
<1>1. peers' \in Roster
  BY DEF OnLeft, TypeOK, Roster
<1>2. CASE i \notin Wide
  <2>1. view' \in Roster
    BY <1>1, <1>2, ApplyType DEF OnLeft, TypeOK
  <2> QED BY <1>1, <1>2, <2>1, RemoveType DEF OnLeft, TypeOK
<1>3. CASE i \in Wide
  BY <1>1, <1>3 DEF OnLeft, Raise, TypeOK
<1> QED BY <1>2, <1>3

\* A roster either replaces the peers or ends the pump.
LEMMA OnRosterType ==
  ASSUME TypeOK, NEW fresh \in Roster, OnRoster(fresh)
  PROVE  /\ {peers', view'} \subseteq Roster
         /\ decoders' \in [Indexes -> SUBSET Stream]
         /\ died' \in BOOLEAN /\ UNCHANGED <<conn, up, me>>
<1>1. CASE Gone(fresh) \cap Wide = {}
  <2>1. peers' = fresh /\ Apply(Gone(fresh), Come(fresh), fresh)
        /\ RemovePeers(Gone(fresh)) /\ UNCHANGED <<conn, up, died, me>>
    BY <1>1 DEF OnRoster, Replace
  <2>2. view' \in Roster
    BY <2>1, ApplyType DEF TypeOK
  <2> QED BY <2>1, <2>2, RemoveType DEF TypeOK
<1>2. CASE Gone(fresh) \cap Wide # {}
  <2>1. PICK S : RemovePeers(S)
    BY <1>2 DEF OnRoster
  <2> QED BY <1>2, <2>1, RemoveType DEF OnRoster, Raise, TypeOK
<1> QED BY <1>1, <1>2

LEMMA TypeStep == TypeOK /\ [Next]_vars => TypeOK'
<1> SUFFICES ASSUME TypeOK, [Next]_vars PROVE TypeOK'
  OBVIOUS
<1> USE RosterAssumption
<1>1. ASSUME NEW i \in Indexes, Connect(i) PROVE TypeOK'
  <2>1. room' \in Roster /\ room'[i] = Self
    BY <1>1 DEF Connect, TypeOK, Roster
  <2>2. view' \in Roster
    BY <1>1, <2>1, OthersType DEF Connect
  <2>3. conn' \in 0..MaxConn /\ conn' # 0 /\ me' = i /\ up' = TRUE /\ died' = FALSE
    BY <1>1 DEF Connect, TypeOK
  <2>4. room' = peers' /\ untold' = 0 /\ behind' = {} /\ UNCHANGED decoders
    BY <1>1 DEF Connect
  <2>5. decoders' \in [Indexes -> SUBSET Stream]
    BY <2>4 DEF TypeOK
  <2>6. {up', died'} \subseteq BOOLEAN /\ me' \in Indexes /\ room'[me'] = Self
    BY <2>1, <2>3
  <2> QED BY <2>1, <2>2, <2>3, <2>4, <2>5, <2>6, RosterAssumption DEF TypeOK
<1>2. ASSUME NEW i \in Indexes, PeerLeaves(i) PROVE TypeOK'
  <2>1. room' \in Roster /\ (up => room'[me] = room[me])
    BY <1>2 DEF PeerLeaves, TypeOK, Roster
  <2>2. CASE Told(i) /\ OnLeft(i)
    BY <2>1, <2>2, OnLeftType DEF Told, TypeOK
  <2>3. CASE Untold(i)
    BY <2>1, <2>3 DEF Untold, client, TypeOK
  <2>4. CASE ~Reads /\ UNCHANGED <<untold, behind, client, view>>
    BY <2>1, <2>4 DEF client, TypeOK
  <2> QED BY <1>2, <2>2, <2>3, <2>4 DEF PeerLeaves
<1>3. ASSUME NEW i \in Indexes, Audio(i) PROVE TypeOK'
  <2>1. CASE UNCHANGED decoders
    BY <1>3, <2>1 DEF Audio, OnAudio, relay, TypeOK
  <2>2. CASE Decode(i)
    <3>1. [conn |-> conn, of |-> room[i], named |-> peers[i]] \in Stream
      <4>1. conn \in 1..MaxConn
        BY <1>3, RosterAssumption DEF Audio, Reads, TypeOK
      <4> QED BY <1>3, <4>1 DEF Audio, TypeOK, Roster, Stream
    <3>2. decoders' \in [Indexes -> SUBSET Stream]
      BY <2>2, <3>1 DEF Decode, TypeOK
    <3> QED BY <1>3, <3>2 DEF Audio, OnAudio, relay, TypeOK
  <2> QED BY <1>3, <2>1, <2>2 DEF Audio, OnAudio
<1>4. ASSUME NEW i \in Indexes, NEW p \in Pubkeys, PeerJoins(i, p) PROVE TypeOK'
  <2>1. room' \in Roster /\ (up => room'[me] = room[me])
    BY <1>4 DEF PeerJoins, TypeOK, Roster
  <2>2. CASE Told(i) /\ OnJoined(i, p)
    BY <2>1, <2>2, OnJoinedType DEF Told, TypeOK
  <2>3. CASE Untold(i)
    BY <2>1, <2>3 DEF Untold, client, TypeOK
  <2>4. CASE ~Reads /\ UNCHANGED <<untold, behind, client, view>>
    BY <2>1, <2>4 DEF client, TypeOK
  <2> QED BY <1>4, <2>2, <2>3, <2>4 DEF PeerJoins
<1>5. CASE Echo
  BY <1>5, OnJoinedType DEF Echo, Reads, relay, TypeOK
<1>6. CASE Resync
  BY <1>6, OnRosterType DEF Resync, TypeOK
<1>7. CASE Leave
  <2>1. room' \in Roster
    BY <1>7 DEF Leave, TypeOK, Roster
  <2> QED BY <1>7, <2>1 DEF Leave, TypeOK
<1>8. CASE UNCHANGED vars
  BY <1>8 DEF vars, relay, client, TypeOK
<1> QED BY <1>1, <1>2, <1>3, <1>4, <1>5, <1>6, <1>7, <1>8 DEF Next

\* Every reachable state is well typed, and while it is connected the client is in
\* the room at its index (huddle.py:271-283).
THEOREM RosterTypeCorrect == Spec => []TypeOK
<1> QED BY TypeInit, TypeStep, PTL DEF Spec

-----------------------------------------------------------------------------
(* The client knows the room, and the events tell what it knows *)

\* The client's own entry, the entries the relay told, and, if an index is not
\* reused unseen, the others: they name who was there or nobody.
Known ==
  Reads => /\ peers[me] = Self
        /\ \A i \in Indexes :
             /\ i \notin behind => peers[i] = room[i]
             /\ ~ReuseUnseen /\ Nobody \notin {peers[i], room[i]} => peers[i] = room[i]

KInv == TypeOK /\ Known

LEMMA KnownInit == Init => Known
BY DEF Init, Known, Reads

LEMMA KnownStep == KInv /\ TypeOK' /\ [Next]_vars => Known'
<1> SUFFICES ASSUME KInv, TypeOK', [Next]_vars, Reads' PROVE Known'
  BY DEF Known
<1> USE RosterAssumption DEF KInv, TypeOK, Roster, Reads
<1>1. ASSUME NEW i \in Indexes, Connect(i) PROVE Known'
  BY <1>1 DEF Connect, Known
<1>2. ASSUME NEW i \in Indexes, PeerLeaves(i) PROVE Known'
  <2>1. CASE Reads /\ Told(i) /\ OnLeft(i)
    BY <1>2, <2>1 DEF PeerLeaves, Told, OnLeft, Raise, Known
  <2>2. CASE Reads /\ Untold(i)
    BY <1>2, <2>2 DEF PeerLeaves, Untold, client, Known
  <2>3. CASE ~Reads /\ UNCHANGED client
    BY <2>3 DEF client
  <2> QED BY <1>2, <2>1, <2>2, <2>3 DEF PeerLeaves, client
<1>3. ASSUME NEW i \in Indexes, Audio(i) PROVE Known'
  BY <1>3 DEF Audio, OnAudio, relay, Known
<1>4. ASSUME NEW i \in Indexes, NEW p \in Pubkeys, PeerJoins(i, p) PROVE Known'
  <2>1. CASE Reads /\ Told(i) /\ OnJoined(i, p)
    BY <1>4, <2>1 DEF PeerJoins, Told, OnJoined, Known
  <2>2. CASE Reads /\ Untold(i)
    BY <1>4, <2>2 DEF PeerJoins, Untold, client, Known
  <2>3. CASE ~Reads /\ UNCHANGED client
    BY <2>3 DEF client
  <2> QED BY <1>4, <2>1, <2>2, <2>3 DEF PeerJoins, client
<1>5. CASE Echo
  BY <1>5 DEF Echo, OnJoined, relay, Known
<1>6. CASE Resync
  BY <1>6 DEF Resync, OnRoster, Raise, Replace, Known
<1>7. CASE Leave
  BY <1>7 DEF Leave
<1>8. CASE UNCHANGED vars
  BY <1>8 DEF vars, relay, client, Known
<1> QED BY <1>1, <1>2, <1>3, <1>4, <1>5, <1>6, <1>7, <1>8 DEF Next

LEMMA KnownCorrect == Spec => []KInv
<1>1. Init => KInv
  BY TypeInit, KnownInit DEF KInv
<1>2. KInv /\ [Next]_vars => KInv'
  BY TypeStep, KnownStep DEF KInv
<1> QED BY <1>1, <1>2, PTL DEF Spec

\* Whatever the relay does not tell, the client's peers are right wherever it told
\* its latest (huddle.py:543-584).
THEOREM KnowsRoomCorrect == Spec => []KnowsRoom
<1>1. KInv => KnowsRoom
  BY DEF KInv, Known, KnowsRoom
<1> QED BY <1>1, KnownCorrect, PTL

\* A handler changes the view as it changes the peers.
LEMMA ViewStep ==
  ASSUME ~ReuseUnseen, KInv, EventsTellAll, TypeOK', [Next]_vars
  PROVE  EventsTellAll'
<1> USE RosterAssumption DEF KInv, TypeOK, Roster, Reads
<1> SUFFICES ASSUME Reads' PROVE view' = Others(peers)'
  BY DEF EventsTellAll
<1>1. ASSUME NEW i \in Indexes, Connect(i) PROVE view' = Others(peers)'
  BY <1>1 DEF Connect, Others
<1>2. ASSUME NEW i \in Indexes, PeerLeaves(i) PROVE view' = Others(peers)'
  <2>1. CASE Reads /\ Told(i) /\ OnLeft(i)
    BY <1>2, <2>1 DEF OnLeft, Raise, Apply, Others, EventsTellAll
  <2>2. CASE Reads /\ Untold(i)
    BY <1>2, <2>2 DEF Untold, client, Others, EventsTellAll
  <2>3. CASE ~Reads /\ UNCHANGED client
    BY <2>3 DEF client
  <2> QED BY <1>2, <2>1, <2>2, <2>3 DEF PeerLeaves, client
<1>3. ASSUME NEW i \in Indexes, Audio(i) PROVE view' = Others(peers)'
  BY <1>3 DEF Audio, OnAudio, Others, EventsTellAll
<1>4. ASSUME NEW i \in Indexes, NEW p \in Pubkeys, PeerJoins(i, p)
      PROVE  view' = Others(peers)'
  <2>1. CASE Reads /\ Told(i) /\ OnJoined(i, p)
    BY <1>4, <2>1 DEF OnJoined, Apply, Others, EventsTellAll
  <2>2. CASE Reads /\ Untold(i)
    BY <1>4, <2>2 DEF Untold, client, Others, EventsTellAll
  <2>3. CASE ~Reads /\ UNCHANGED client
    BY <2>3 DEF client
  <2> QED BY <1>4, <2>1, <2>2, <2>3 DEF PeerJoins, client
<1>5. CASE Echo
  BY <1>5 DEF Echo, OnJoined, Apply, Others, EventsTellAll, Known
<1>6. CASE Resync
  <2>1. /\ view = Others(peers) /\ peers' = room
        /\ Apply(Gone(room), Come(room), room)
    BY <1>6 DEF Resync, OnRoster, Raise, Replace, EventsTellAll
  <2>2. ASSUME NEW i \in Indexes PROVE view'[i] = Others(room)[i]
    <3>1. Nobody \in {peers[i], room[i]} \/ peers[i] = room[i]
      BY <1>6 DEF Resync, Known
    <3> QED BY <2>1, <3>1 DEF Apply, Gone, Come, Others
  <2> QED BY <2>1, <2>2 DEF Others, Apply
<1>7. CASE Leave
  BY <1>7 DEF Leave
<1>8. CASE UNCHANGED vars
  BY <1>8 DEF vars, relay, client, Others, EventsTellAll
<1> QED BY <1>1, <1>2, <1>3, <1>4, <1>5, <1>6, <1>7, <1>8 DEF Next

\* If no index is reused unseen, a program that follows the events knows the same
\* peers as the client (huddle.py:567-576).
THEOREM EventsTellAllCorrect == ~ReuseUnseen => (Spec => []EventsTellAll)
<1> SUFFICES ASSUME ~ReuseUnseen PROVE Spec => []EventsTellAll
  OBVIOUS
<1>1. Init => EventsTellAll
  BY DEF Init, Reads, EventsTellAll
<1>2. KInv /\ KInv' /\ EventsTellAll /\ [Next]_vars => EventsTellAll'
  BY ViewStep DEF KInv
<1> QED BY <1>1, <1>2, KnownCorrect, PTL DEF Spec

-----------------------------------------------------------------------------
(* One peer per decoder *)

\* What a decoder was fed on this connection is the stream of the peer that the
\* client has at its index; nothing is of a connection to come.
Fed ==
  \A i \in Indexes : \A d \in decoders[i] :
    /\ d.conn <= conn
    /\ Reads /\ d.conn = conn => d.of = peers[i] /\ d.named = d.of

FInv == Fed /\ OnePeerPerDecoder

\* Forgetting decoders while the other entries keep their names keeps both.
LEMMA FedKept ==
  ASSUME FInv, TypeOK, NEW S, RemovePeers(S), conn' = conn, Reads' => Reads,
         Reads' => \A i \in Indexes \ S : peers[i] \in Pubkeys => peers'[i] = peers[i]
  PROVE  FInv'
<1>1. \A i \in Indexes : decoders'[i] \subseteq decoders[i]
                         /\ (decoders'[i] # {} => i \notin S)
  BY DEF RemovePeers
<1>2. \A i \in Indexes : \A d \in decoders[i] : d.of \in Pubkeys
  BY DEF TypeOK, Stream
<1>3. Fed'
  BY <1>1, <1>2 DEF FInv, Fed, TypeOK
<1>4. OnePeerPerDecoder'
  BY <1>1 DEF FInv, OnePeerPerDecoder
<1> QED BY <1>3, <1>4 DEF FInv

\* The same when the decoders stay as they are.
LEMMA FedSame ==
  ASSUME FInv, TypeOK, UNCHANGED <<conn, decoders>>, Reads' => Reads,
         Reads' => \A i \in Indexes : peers[i] \in Pubkeys => peers'[i] = peers[i]
  PROVE  FInv'
<1>1. RemovePeers({})
  BY DEF RemovePeers, TypeOK
<1> QED BY <1>1, FedKept

LEMMA FedStep ==
  ASSUME ~ReuseUnseen, ~AudioUnseen, KInv, FInv, [Next]_vars
  PROVE  FInv'
<1> USE RosterAssumption DEF KInv
<1>1. ASSUME NEW i \in Indexes, Connect(i) PROVE FInv'
  <2>1. /\ conn' = conn + 1 /\ conn \in Nat /\ UNCHANGED decoders
        /\ \A j \in Indexes : \A d \in decoders[j] : d.conn \in Nat /\ d.conn <= conn
    BY <1>1 DEF Connect, FInv, Fed, TypeOK, Stream
  <2> QED BY <2>1 DEF FInv, Fed, OnePeerPerDecoder
<1>2. ASSUME NEW i \in Indexes, PeerLeaves(i) PROVE FInv'
  <2>1. CASE OnLeft(i)
    <3>1. conn' = conn /\ (Reads' => Reads /\ i \notin Wide)
      BY <2>1 DEF OnLeft, Raise, Reads
    <3>2. \A j \in Indexes \ {i} : peers'[j] = peers[j]
      BY <2>1 DEF OnLeft, TypeOK, Roster
    <3>3. CASE i \notin Wide
      BY <2>1, <3>1, <3>2, <3>3, FedKept DEF OnLeft
    <3>4. CASE i \in Wide
      BY <2>1, <3>1, <3>4, FedSame DEF OnLeft
    <3> QED BY <3>3, <3>4
  <2>2. CASE UNCHANGED client
    BY <2>2, FedSame DEF client, Reads
  <2> QED BY <1>2, <2>1, <2>2 DEF PeerLeaves, Untold
<1>3. ASSUME NEW i \in Indexes, Audio(i) PROVE FInv'
  <2>1. Reads /\ room[i] = peers[i]
    BY <1>3 DEF Audio, Known
  <2>2. CASE UNCHANGED decoders
    BY <1>3, <2>2, FedSame DEF Audio, OnAudio, Reads
  <2>3. CASE Decode(i)
    <3> DEFINE e == [conn |-> conn, of |-> room[i], named |-> peers[i]]
    <3>1. /\ UNCHANGED <<conn, up, died, peers>>
          /\ \A j \in Indexes : decoders'[j] \subseteq decoders[j] \cup {e}
          /\ \A j \in Indexes : j # i => decoders'[j] = decoders[j]
      BY <1>3, <2>3 DEF Audio, OnAudio, Decode, TypeOK
    <3>2. e.conn = conn /\ e.of = peers[i] /\ e.named = peers[i] /\ conn <= conn
      BY <2>1 DEF TypeOK
    <3> HIDE DEF e
    <3>3. Fed'
      BY <3>1, <3>2 DEF FInv, Fed, Reads
    <3>4. \A a \in decoders[i] : a.conn = conn => a.of = peers[i] /\ a.named = a.of
      BY <2>1 DEF FInv, Fed
    <3>5. OnePeerPerDecoder'
      BY <3>1, <3>2, <3>4 DEF FInv, OnePeerPerDecoder
    <3> QED BY <3>3, <3>5 DEF FInv
  <2> QED BY <1>3, <2>2, <2>3 DEF Audio, OnAudio
<1>4. ASSUME NEW i \in Indexes, NEW p \in Pubkeys, PeerJoins(i, p) PROVE FInv'
  <2>1. CASE Reads /\ OnJoined(i, p)
    <3>1. peers[i] = Nobody
      BY <1>4, <2>1 DEF PeerJoins, Known
    <3>2. \A j \in Indexes : peers[j] \in Pubkeys => peers'[j] = peers[j]
      BY <2>1, <3>1 DEF OnJoined, TypeOK, Roster
    <3> QED BY <2>1, <3>2, FedSame DEF OnJoined, Reads
  <2>2. CASE UNCHANGED client
    BY <2>2, FedSame DEF client, Reads
  <2> QED BY <1>4, <2>1, <2>2 DEF PeerJoins, Untold
<1>5. CASE Echo
  <2>1. \A j \in Indexes : peers[j] \in Pubkeys => peers'[j] = peers[j]
    BY <1>5 DEF Echo, OnJoined, Known, TypeOK, Roster
  <2> QED BY <1>5, <2>1, FedSame DEF Echo, OnJoined, Reads
<1>6. CASE Resync
  <2>1. \A i \in Indexes \ Gone(room) : peers[i] \in Pubkeys => room[i] = peers[i]
    BY <1>6 DEF Resync, Known, Gone
  <2>2. CASE Gone(room) \cap Wide = {}
    <3>1. RemovePeers(Gone(room)) /\ UNCHANGED <<conn, up, died>> /\ peers' = room
      BY <1>6, <2>2 DEF Resync, OnRoster, Replace
    <3> QED BY <2>1, <3>1, FedKept DEF Reads
  <2>3. CASE Gone(room) \cap Wide # {}
    <3>1. conn' = conn /\ ~Reads' /\ \E S : RemovePeers(S)
      BY <1>6, <2>3 DEF Resync, OnRoster, Raise, Reads
    <3> QED BY <3>1, FedKept
  <2> QED BY <2>2, <2>3
<1>7. CASE Leave
  BY <1>7, FedSame DEF Leave, Reads
<1>8. CASE UNCHANGED vars
  BY <1>8, FedSame DEF vars, client, Reads
<1> QED BY <1>1, <1>2, <1>3, <1>4, <1>5, <1>6, <1>7, <1>8 DEF Next

\* If no index is reused unseen and audio comes of announced peers only, no peer
\* inherits a decoder within a connection (huddle.rs:274-275).
THEOREM OnePeerPerDecoderCorrect ==
  ~ReuseUnseen /\ ~AudioUnseen => (Spec => []OnePeerPerDecoder)
<1> SUFFICES ASSUME ~ReuseUnseen, ~AudioUnseen PROVE Spec => []OnePeerPerDecoder
  OBVIOUS
<1>1. Init => FInv
  BY DEF Init, FInv, Fed, OnePeerPerDecoder
<1>2. KInv /\ FInv /\ [Next]_vars => FInv'
  BY FedStep
<1>3. FInv => OnePeerPerDecoder
  BY DEF FInv
<1> QED BY <1>1, <1>2, <1>3, KnownCorrect, PTL DEF Spec
=============================================================================
