----------------------------- MODULE HuddleRoster -----------------------------
(***************************************************************************)
(* Who is in the huddle, as HuddleClient knows it (python/buzzkit/huddle.py *)
(* _on_control and _on_audio) and the table of Opus decoders, one per peer  *)
(* index (src/huddle.rs HuddleDecoder).                                     *)
(*                                                                         *)
(* The relay gives each peer a small index and gives it to another peer     *)
(* after it left.  The socket is FIFO and the pump handles a message before *)
(* it reads the next, so sending a message and handling it are one step.    *)
(* The relay may fail to tell the client of a change (the peer is on        *)
(* another pod); a "roster" message is there to repair that.                *)
(***************************************************************************)
EXTENDS Naturals, Functions

CONSTANTS
  Indexes,    \* peer_index values
  Wide,       \* those outside a byte, which the decoder's table refuses
  Pubkeys,    \* the other peers
  Self,       \* this client's pubkey
  Nobody,
  ReuseUnseen,  \* may an index be reused although the client was not told
                \* that it is free?
  AudioUnseen,  \* may audio arrive of a peer the client was not told of?
  MaxConn,      \* bound: connections in a run
  MaxUntold     \* bound: changes the relay does not tell

ASSUME RosterAssumption ==
  /\ Self \notin Pubkeys /\ Nobody \notin Pubkeys \cup {Self}
  /\ Wide \subseteq Indexes
  /\ {ReuseUnseen, AudioUnseen} \subseteq BOOLEAN
  /\ MaxConn \in Nat /\ MaxUntold \in Nat

VARIABLES
  (* The relay. *)
  room,      \* who holds each index, or Nobody
  untold,    \* changes of this connection it did not tell so far
  behind,    \* indexes of which the client was not told the latest
  (* The client. *)
  conn,      \* connections so far
  up,        \* is it connected?
  died,      \* has a handler raised, and the pump ended with it?
  me,        \* peer_index, or Nobody for None
  peers,     \* peers; Nobody where the dict has no entry
  decoders,  \* for each index the streams its decoder was fed; {} if it has none
  (* The application. *)
  view       \* who is there by its snapshot of peers and the events since

relay  == <<room, untold, behind>>
client == <<conn, up, died, me, peers, decoders>>
vars   == <<relay, client, view>>

Empty == [i \in Indexes |-> Nobody]

Init ==
  /\ room = Empty /\ untold = 0 /\ behind = {}
  /\ conn = 0 /\ up = FALSE /\ died = FALSE /\ me = Nobody
  /\ peers = Empty /\ decoders = [i \in Indexes |-> {}]
  /\ view = Empty

-----------------------------------------------------------------------------
(* The application applies the events it is given: HuddlePeerJoined and
   HuddlePeerLeft, here the sets of their indexes. *)

Others(p) == [i \in Indexes |-> IF p[i] = Self THEN Nobody ELSE p[i]]

Apply(left, joined, p) ==
  view' = [i \in Indexes |-> IF i \in joined THEN p[i]
                             ELSE IF i \in left THEN Nobody ELSE view[i]]

-----------------------------------------------------------------------------
(* The handlers *)

\* Every peer index of a set is forgotten by the decoder.
RemovePeers_none(S) == UNCHANGED decoders
RemovePeers(S) ==
  decoders' = [i \in Indexes |-> IF i \in S THEN {} ELSE decoders[i]]

\* The message of our own pubkey gives no event.
OnJoined(i, p) ==
  /\ peers' = [peers EXCEPT ![i] = p]
  /\ Apply({}, IF p = Self THEN {} ELSE {i}, peers')
  /\ UNCHANGED <<conn, up, died, me, decoders>>

\* remove_peer takes a byte: a wider index is an OverflowError, which ends the
\* pump before it made an event.
Raise == died' = TRUE /\ UNCHANGED view

OnLeft(i) ==
  /\ peers' = [peers EXCEPT ![i] = Nobody]
  /\ \/ i \notin Wide /\ RemovePeers({i}) /\ Apply({i}, {}, peers') /\ UNCHANGED died
     \/ i \in Wide /\ Raise /\ UNCHANGED decoders
  /\ UNCHANGED <<conn, up, me>>

\* Left and Joined events come from comparing which indexes have an entry, not
\* whose entry it is; ours gives no event.
Gone(fresh)  == {i \in Indexes : peers[i] \notin {Nobody, Self} /\ fresh[i] = Nobody}
Come_none(fresh) == {}
Come(fresh)  == {i \in Indexes : peers[i] = Nobody /\ fresh[i] \notin {Nobody, Self}}

Replace_merges(fresh) ==
  peers' = [i \in Indexes |-> IF fresh[i] = Nobody THEN peers[i] ELSE fresh[i]]
Replace(fresh) == peers' = fresh

\* The decoders go one by one, before the new peers are taken over.
OnRoster(fresh) ==
  /\ \/ /\ Gone(fresh) \cap Wide = {}
        /\ RemovePeers(Gone(fresh))
        /\ Apply(Gone(fresh), Come(fresh), fresh)
        /\ Replace(fresh) /\ UNCHANGED died
     \/ /\ Gone(fresh) \cap Wide # {}
        /\ \E S \in SUBSET (Gone(fresh) \ Wide) : RemovePeers(S)
        /\ Raise /\ UNCHANGED peers
  /\ UNCHANGED <<conn, up, me>>

\* A frame that is too short is dropped before the table is looked at; one that
\* Opus refuses has created its decoder by then.
Decode(i) ==
  decoders' = [decoders EXCEPT
                 ![i] = @ \cup {[conn |-> conn, of |-> room[i], named |-> peers[i]]}]

OnAudio(i) ==
  /\ \/ UNCHANGED decoders
     \/ Decode(i)
  /\ UNCHANGED <<conn, up, died, me, peers, view>>

-----------------------------------------------------------------------------
(* The relay.  Once the pump has ended nobody reads what it sends. *)

Reads == up /\ ~died

Told(i) == behind' = behind \ {i} /\ UNCHANGED untold

Untold(i) ==
  /\ untold < MaxUntold
  /\ untold' = untold + 1 /\ behind' = behind \cup {i}
  /\ UNCHANGED <<client, view>>

PeerJoins(i, p) ==
  /\ room[i] = Nobody /\ (i \in behind => ReuseUnseen)
  /\ room' = [room EXCEPT ![i] = p]
  /\ \/ Reads /\ Told(i) /\ OnJoined(i, p)
     \/ Reads /\ Untold(i)
     \/ ~Reads /\ UNCHANGED <<untold, behind, client, view>>

PeerLeaves(i) ==
  /\ room[i] \notin {Nobody, Self}
  /\ room' = [room EXCEPT ![i] = Nobody]
  /\ \/ Reads /\ Told(i) /\ OnLeft(i)
     \/ Reads /\ Untold(i)
     \/ ~Reads /\ UNCHANGED <<untold, behind, client, view>>

\* The relay announces our own arrival to everyone, us included.
Echo == Reads /\ OnJoined(me, Self) /\ UNCHANGED relay

Resync ==
  /\ Reads /\ behind' = {} /\ OnRoster(room)
  /\ UNCHANGED <<room, untold>>

\* A frame of audio has one byte for the index.
Audio(i) ==
  /\ Reads /\ i \notin Wide /\ room[i] \notin {Nobody, Self}
  /\ (i \in behind => AudioUnseen)
  /\ OnAudio(i) /\ UNCHANGED relay

-----------------------------------------------------------------------------
(* The client joins and leaves.  The "joined" answer to its AUTH carries the
   peers; neither that nor leave() touches the decoders. *)

Connect(i) ==
  /\ ~up /\ conn < MaxConn /\ room[i] = Nobody
  /\ room' = [room EXCEPT ![i] = Self]
  /\ conn' = conn + 1 /\ up' = TRUE /\ died' = FALSE /\ me' = i
  /\ peers' = room' /\ view' = Others(room')
  /\ behind' = {} /\ untold' = 0
  /\ UNCHANGED decoders

Leave ==
  /\ up
  /\ up' = FALSE /\ room' = [room EXCEPT ![me] = Nobody]
  /\ UNCHANGED <<untold, behind, conn, died, me, peers, decoders, view>>

-----------------------------------------------------------------------------
Next ==
  \/ \E i \in Indexes :
       \/ Connect(i) \/ PeerLeaves(i) \/ Audio(i)
       \/ \E p \in Pubkeys : PeerJoins(i, p)
  \/ Echo \/ Resync \/ Leave

Spec == Init /\ [][Next]_vars

-----------------------------------------------------------------------------
(* Properties *)

Stream == [conn : 1..MaxConn, of : Pubkeys, named : Pubkeys \cup {Nobody, Self}]
Roster == [Indexes -> Pubkeys \cup {Self, Nobody}]

TypeOK ==
  /\ {room, peers, view} \subseteq Roster
  /\ untold \in 0..MaxUntold /\ behind \subseteq Indexes
  /\ conn \in 0..MaxConn /\ {up, died} \subseteq BOOLEAN /\ me \in Indexes \cup {Nobody}
  /\ decoders \in [Indexes -> SUBSET Stream]
  /\ up => conn # 0 /\ me \in Indexes /\ room[me] = Self

\* While the pump reads, the client knows exactly who is there wherever the relay
\* told its latest, and a "roster" repairs the rest: "authoritative snapshot
\* replaces the roster" (huddle.py:565).
KnowsRoom == Reads => \A i \in Indexes \ behind : peers[i] = room[i]

\* While the pump reads, an application that follows the events of connect()'s
\* roster sees the same peers as the client (huddle.py:543-584), whatever the
\* order of rosters, single messages and changes not told, unless an index whose
\* peer left untold went to another: a roster gives no event of that.
EventsTellAll == Reads => view = Others(peers)

\* Within a connection a decoder is fed one peer's stream and its audio is named
\* after that peer, or not at all: "a new peer must not inherit a predecessor's decoder state"
\* (huddle.rs:274-275).  Across connections it may, see the README.
OnePeerPerDecoder ==
  \A i \in Indexes : \A a, b \in decoders[i] :
    a.conn = b.conn => a.of = b.of /\ a.named \in {a.of, Nobody}
=============================================================================
