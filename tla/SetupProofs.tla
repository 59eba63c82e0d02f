---------------------------- MODULE SetupProofs ----------------------------
(***************************************************************************)
(* What holds of every set-up of a production network: any number of       *)
(* peers, any configuration of ids (the same id twice included), any       *)
(* number of crashes; and of a mesh of any number of nodes.                *)
(***************************************************************************)
EXTENDS ProdNet, MeshNet, FiniteSetTheorems, FunctionTheorems, TLAPS

-----------------------------------------------------------------------------
(***************************************************************************)
(* Sequences: what a queue holds after an arrival and after a departure,   *)
(* and the few shapes a stream can have.                                   *)
(***************************************************************************)
\* An arrival goes to the end.
LEMMA Arrival ==
  ASSUME NEW S, NEW s \in Seq(S), NEW x \in S
  PROVE  /\ Append(s, x) \in Seq(S)
         /\ Len(Append(s, x)) = Len(s) + 1
         /\ DOMAIN Append(s, x) = DOMAIN s \cup {Len(s) + 1}
         /\ \A k \in DOMAIN s : Append(s, x)[k] = s[k]
         /\ Append(s, x)[Len(s) + 1] = x
         /\ {Append(s, x)[k] : k \in DOMAIN Append(s, x)} = {s[k] : k \in DOMAIN s} \cup {x}
  <1>1. /\ Append(s, x) \in Seq(S)
        /\ Len(Append(s, x)) = Len(s) + 1
        /\ DOMAIN Append(s, x) = DOMAIN s \cup {Len(s) + 1}
        /\ \A k \in DOMAIN s : Append(s, x)[k] = s[k]
        /\ Append(s, x)[Len(s) + 1] = x
    OBVIOUS
  <1>. DEFINE t == Append(s, x)
  <1>. HIDE DEF t
  <1>2. \A k \in DOMAIN t : t[k] \in {s[j] : j \in DOMAIN s} \cup {x}
    BY <1>1 DEF t
  <1>3. \A k \in DOMAIN s : s[k] \in {t[j] : j \in DOMAIN t}
    BY <1>1 DEF t
  <1>4. x \in {t[j] : j \in DOMAIN t}
    BY <1>1 DEF t
  <1>5. {t[k] : k \in DOMAIN t} = {s[k] : k \in DOMAIN s} \cup {x}
    BY <1>2, <1>3, <1>4
  <1>. QED
    BY <1>1, <1>5 DEF t

\* A departure is that of the first, and of nobody else if all are different.
LEMMA Departure ==
  ASSUME NEW S, NEW s \in Seq(S), s # <<>>,
         \A i, j \in DOMAIN s : s[i] = s[j] => i = j
  PROVE  /\ Head(s) \in S /\ Tail(s) \in Seq(S)
         /\ \A i, j \in DOMAIN Tail(s) : Tail(s)[i] = Tail(s)[j] => i = j
         /\ Head(s) \in {s[k] : k \in DOMAIN s}
         /\ {Tail(s)[k] : k \in DOMAIN Tail(s)} = {s[k] : k \in DOMAIN s} \ {Head(s)}
  <1>1. /\ Head(s) = s[1] /\ Head(s) \in S /\ Tail(s) \in Seq(S)
        /\ DOMAIN s = 1 .. Len(s) /\ Len(s) \in Nat /\ Len(s) > 0
        /\ DOMAIN Tail(s) = 1 .. Len(s) - 1
        /\ \A k \in DOMAIN Tail(s) : k + 1 \in DOMAIN s /\ Tail(s)[k] = s[k + 1]
    OBVIOUS
  <1>. DEFINE t == Tail(s)
              h == Head(s)
  <1>. HIDE DEF t, h
  <1>2. \A i, j \in DOMAIN t : t[i] = t[j] => i = j
    BY <1>1 DEF t
  <1>3. \A k \in DOMAIN t : t[k] \in {s[j] : j \in DOMAIN s} \ {h}
    BY <1>1 DEF t, h
  <1>4. ASSUME NEW k \in DOMAIN s, s[k] # h PROVE s[k] \in {t[j] : j \in DOMAIN t}
    <2>1. k - 1 \in DOMAIN t /\ t[k - 1] = s[k]
      BY <1>1, <1>4 DEF t, h
    <2>. QED
      BY <2>1
  <1>5. {t[k] : k \in DOMAIN t} = {s[k] : k \in DOMAIN s} \ {h}
    BY <1>3, <1>4
  <1>6. h \in {s[k] : k \in DOMAIN s}
    BY <1>1 DEF h
  <1>. QED
    BY <1>1, <1>2, <1>5, <1>6 DEF t, h

\* As many different members as the set has are all of them.
LEMMA AllCounted ==
  ASSUME NEW S, IsFiniteSet(S), NEW s \in Seq(S), Len(s) = Cardinality(S),
         \A i, j \in DOMAIN s : s[i] = s[j] => i = j
  PROVE  {s[k] : k \in DOMAIN s} = S
  <1>1. Cardinality(S) \in Nat
    BY FS_CardinalityType
  <1>2. s \in [1 .. Cardinality(S) -> S] /\ DOMAIN s = 1 .. Cardinality(S)
    OBVIOUS
  <1>3. s \in Injection(1 .. Cardinality(S), S)
    BY <1>2, Fun_IsInj
  <1>4. Cardinality(1 .. Cardinality(S)) = Cardinality(S)
    BY <1>1, FS_Interval
  <1>5. s \in Surjection(1 .. Cardinality(S), S)
    BY <1>3, <1>4, FS_Injection
  <1>6. \A x \in S : \E k \in 1 .. Cardinality(S) : s[k] = x
    BY <1>5, Fun_SurjectionProperties
  <1>. QED
    BY <1>2, <1>6

\* The streams that can be on a connection, and how they grow and shrink.
LEMMA Shapes ==
  ASSUME NEW x, NEW y
  PROVE  /\ <<x>> # <<>> /\ Head(<<x>>) = x /\ Tail(<<x>>) = <<>>
         /\ <<x, y>> # <<>> /\ Head(<<x, y>>) = x /\ Tail(<<x, y>>) = <<y>>
         /\ Append(<<>>, x) = <<x>> /\ Append(<<x>>, y) = <<x, y>>
         /\ <<x>> = <<y>> => x = y
         /\ \A z : <<z>> # <<x, y>>
  <1>1. <<x>> # <<>> /\ <<x, y>> # <<>> /\ Head(<<x>>) = x /\ Head(<<x, y>>) = x
    OBVIOUS
  <1>2. Tail(<<x>>) = <<>>
    OBVIOUS
  <1>3. Tail(<<x, y>>) = <<y>>
    OBVIOUS
  <1>4. Append(<<>>, x) = <<x>>
    OBVIOUS
  <1>5. Append(<<x>>, y) = <<x, y>>
    <2>. DEFINE s == <<x>>
                t == Append(s, y)
                u == <<x, y>>
    <2>1. s \in Seq({x, y}) /\ y \in {x, y} /\ DOMAIN s = {1} /\ Len(s) = 1 /\ s[1] = x
      OBVIOUS
    <2>2. /\ t \in Seq({x, y}) /\ Len(t) = 2 /\ t[1] = x /\ t[2] = y
      <3>. HIDE DEF s
      <3>. QED
        BY <2>1, Arrival
    <2>3. u \in Seq({x, y}) /\ Len(u) = 2 /\ u[1] = x /\ u[2] = y
      OBVIOUS
    <2>. HIDE DEF t, u
    <2>4. t \in [1 .. 2 -> {x, y}] /\ u \in [1 .. 2 -> {x, y}]
      BY <2>2, <2>3
    <2>5. \A k \in 1 .. 2 : t[k] = u[k]
      BY <2>2, <2>3
    <2>6. t = u
      BY <2>4, <2>5
    <2>. QED
      BY <2>6 DEF s, t, u
  <1>6. <<x>> = <<y>> => x = y
    OBVIOUS
  <1>7. \A z : <<z>> # <<x, y>>
    OBVIOUS
  <1>. QED
    BY <1>1, <1>2, <1>3, <1>4, <1>5, <1>6, <1>7

\* The packets of one process are told apart by their types.
LEMMA Packets ==
  ASSUME NEW p
  PROVE  /\ Announce(p) # SynAck /\ Share(p) # SynAck /\ Announce(p) # Share(p)
         /\ Announce(p).id = idOf[p]
         /\ Share(p).type = "Packet" /\ Share(p).from = p
  <1>1. /\ Announce(p).type = "Id" /\ SynAck.type = "SynAck" /\ Share(p).type = "Packet"
    BY DEF Announce, SynAck, Share
  <1>. QED
    BY <1>1 DEF Announce, Share

-----------------------------------------------------------------------------
(***************************************************************************)
(* What a step leaves alone.                                               *)
(***************************************************************************)
PeerStreamInv(p) == StreamInv(p) /\ WrittenInv(p)

\* How far the king is with a process depends on the king only.
LEMMA KingSame ==
  ASSUME UNCHANGED <<kingPc, conns, synced, peers, order, got>>, NEW q
  PROVE  /\ IdRead(q)' <=> IdRead(q)
         /\ Acked(q)' <=> Acked(q)
         /\ Received(q)' <=> Received(q)
  BY DEF IdRead, Acked, Received

\* A process that a step does not concern is where it was.
LEMMA StreamSame ==
  ASSUME NEW q, PeerStreamInv(q), UNCHANGED idOf,
         up'[q] = up[q], peerPc'[q] = peerPc[q],
         IdRead(q)' <=> IdRead(q), Acked(q)' <=> Acked(q),
         Received(q)' <=> Received(q)
  PROVE  PeerStreamInv(q)'
  BY DEF PeerStreamInv, StreamInv, WrittenInv, Announce, Share, SynAck

\* Whoever is in the queue or in the list is a peer.
LEMMA Members ==
  ASSUME ProdTypeOK
  PROVE  Accepted \subseteq Peers /\ Waiting \subseteq Peers
  BY DEF ProdTypeOK, Accepted, Waiting

\* Queue and list are what they were.
LEMMA QueuesSame ==
  /\ UNCHANGED conns => Accepted' = Accepted
  /\ UNCHANGED backlog => Waiting' = Waiting
  BY DEF Accepted, Waiting

\* The packets that there can be depend on the configuration alone.
LEMMA MessagesSame == UNCHANGED idOf => Messages' = Messages
  BY DEF Messages, Announce, Share, SynAck

\* Nobody is in state "protocol", whatever the king calls itself.
LEMMA NoProtocol == ProdInv => /\ kingPc \in KingPcs \ {"protocol"}
                               /\ peerPc \in [Peers -> PeerPcs \ {"protocol"}]
  BY DEF ProdInv, NothingIsMisread, ProdTypeOK

-----------------------------------------------------------------------------
(***************************************************************************)
(* The steps, one after the other.                                         *)
(***************************************************************************)
\* Nothing has happened yet.
LEMMA InitProdInv == ProdInit => ProdInv
  <1>. SUFFICES ASSUME ProdInit PROVE ProdInv
    OBVIOUS
  <1>. USE DEF ProdInit
  <1>0. N \in Int
    BY PeersAssumption, FS_CardinalityType DEF N
  <1>1. ProdTypeOK
    BY <1>0 DEF ProdTypeOK, KingPcs, PeerPcs
  <1>2. ConnInv
    BY DEF ConnInv, Accepted, Waiting
  <1>3. PeersInv /\ ReleaseInv /\ NothingIsMisread
    BY DEF PeersInv, ReleaseInv, NothingIsMisread, PeersStarted
  <1>4. \A p \in Peers : StreamInv(p) /\ WrittenInv(p)
    BY DEF StreamInv, WrittenInv, IdRead, Acked, Received, SynAck, Share
  <1>. QED
    BY <1>1, <1>2, <1>3, <1>4 DEF ProdInv

\* A king that gives up leaves everybody where they are, without a connection.
LEMMA FailInv ==
  ASSUME ProdInv, KingFails,
         \/ backlog' = backlog
         \/ backlog # <<>> /\ backlog' = Tail(backlog),
         UNCHANGED <<idOf, conns, peers, order, synced, peerPc, down, up, got>>
  PROVE  ProdInv'
  <1>. USE DEF ProdInv, KingFails
  <1>1. /\ backlog' \in Seq(Peers) /\ Waiting' \subseteq Waiting
        /\ \A i, j \in DOMAIN backlog' : backlog'[i] = backlog'[j] => i = j
    <2>1. CASE backlog' = backlog
      BY <2>1 DEF ConnInv, ProdTypeOK, Waiting
    <2>2. CASE backlog # <<>> /\ backlog' = Tail(backlog)
      <3>0. backlog \in Seq(Peers) /\ \A i, j \in DOMAIN backlog : backlog[i] = backlog[j] => i = j
        BY DEF ConnInv, ProdTypeOK
      <3>1. /\ Tail(backlog) \in Seq(Peers)
            /\ \A i, j \in DOMAIN Tail(backlog) : Tail(backlog)[i] = Tail(backlog)[j] => i = j
            /\ {Tail(backlog)[k] : k \in DOMAIN Tail(backlog)} \subseteq Waiting
        BY <2>2, <3>0, Departure DEF Waiting
      <3>. QED
        BY <2>2, <3>1 DEF Waiting
    <2>. QED
      BY <2>1, <2>2
  <1>2. ProdTypeOK'
    BY <1>1, MessagesSame DEF ProdTypeOK, KingPcs
  <1>3. ConnInv'
    BY <1>1, Members, QueuesSame DEF ConnInv, ProdTypeOK
  <1>4. PeersInv' /\ ReleaseInv' /\ NothingIsMisread'
    BY DEF PeersInv, ReleaseInv, NothingIsMisread, PeersStarted, Accepted
  <1>. QED
    BY <1>2, <1>3, <1>4

\* The listener opens before anybody can connect.
LEMMA BindInv == ProdInv /\ KingBind /\ UNCHANGED idOf => ProdInv'
  <1>. SUFFICES ASSUME ProdInv, KingBind, UNCHANGED idOf PROVE ProdInv'
    OBVIOUS
  <1>. USE DEF ProdInv, KingBind
  <1>1. ProdTypeOK'
    BY MessagesSame DEF ProdTypeOK, KingPcs
  <1>2. ConnInv'
    BY DEF ConnInv, Accepted, Waiting
  <1>3. PeersInv' /\ ReleaseInv' /\ NothingIsMisread'
    BY DEF PeersInv, ReleaseInv, NothingIsMisread, PeersStarted, Accepted
  <1>4. ASSUME NEW q \in Peers PROVE PeerStreamInv(q)'
    <2>1. (IdRead(q)' <=> IdRead(q)) /\ (Acked(q)' <=> Acked(q)) /\ (Received(q)' <=> Received(q))
      BY DEF IdRead, Acked, Received
    <2>. QED
      BY <2>1, StreamSame DEF PeerStreamInv
  <1>. QED
    BY <1>1, <1>2, <1>3, <1>4 DEF PeerStreamInv

\* A process connects once, so it is nowhere yet.
LEMMA ConnectInv ==
  ASSUME ProdInv, NEW p \in Peers, PeerConnect(p), UNCHANGED idOf
  PROVE  ProdInv'
  <1>. USE DEF ProdInv
  <1>1. CASE peerPc' = [peerPc EXCEPT ![p] = "failed"] /\ UNCHANGED <<backlog, open>>
    <2>. USE <1>1 DEF PeerConnect
    <2>1. ProdTypeOK'
      BY MessagesSame DEF ProdTypeOK, PeerPcs
    <2>2. ConnInv'
      BY Members, QueuesSame DEF ConnInv, ProdTypeOK
    <2>3. PeersInv' /\ ReleaseInv' /\ NothingIsMisread'
      BY DEF PeersInv, ReleaseInv, NothingIsMisread, PeersStarted, Accepted, ProdTypeOK
    <2>4. ASSUME NEW q \in Peers, kingPc # "failed" PROVE PeerStreamInv(q)'
      <3>1. CASE q # p
        BY <2>4, <3>1, KingSame, StreamSame DEF PeerStreamInv, ProdTypeOK
      <3>2. CASE q = p
        BY <2>4, <3>2, KingSame
        DEF PeerStreamInv, StreamInv, WrittenInv, ProdTypeOK, Announce, Share, SynAck
      <3>. QED
        BY <3>1, <3>2
    <2>. QED
      BY <2>1, <2>2, <2>3, <2>4 DEF PeerStreamInv
  <1>2. CASE /\ kingPc \notin {"start", "failed"}
             /\ peerPc' = [peerPc EXCEPT ![p] = "handshake"]
             /\ backlog' = Append(backlog, p)
             /\ open' = [open EXCEPT ![p] = TRUE]
    <2>. USE <1>2 DEF PeerConnect
    <2>0. /\ backlog' \in Seq(Peers) /\ Waiting' = Waiting \cup {p}
          /\ \A i, j \in DOMAIN backlog' : backlog'[i] = backlog'[j] => i = j
          /\ p \notin Waiting /\ p \notin Accepted
      <3>1. p \notin Waiting /\ p \notin Accepted
        BY DEF ConnInv
      <3>2. /\ backlog' \in Seq(Peers) /\ Waiting' = Waiting \cup {p}
            /\ DOMAIN backlog' = DOMAIN backlog \cup {Len(backlog) + 1}
            /\ \A k \in DOMAIN backlog : backlog'[k] = backlog[k]
            /\ backlog'[Len(backlog) + 1] = p
        BY Arrival DEF ProdTypeOK, Waiting
      <3>3. \A k \in DOMAIN backlog : backlog[k] # p
        BY <3>1 DEF Waiting
      <3>. QED
        BY <3>1, <3>2, <3>3 DEF ConnInv
    <2>1. ProdTypeOK'
      BY <2>0, MessagesSame DEF ProdTypeOK, PeerPcs
    <2>2. Accepted' = Accepted
      BY DEF Accepted
    <2>3. ConnInv'
      BY <2>0, <2>2 DEF ConnInv, ProdTypeOK
    <2>4. PeersInv' /\ ReleaseInv' /\ NothingIsMisread'
      BY <2>2 DEF PeersInv, ReleaseInv, NothingIsMisread, PeersStarted, ProdTypeOK
    <2>5. ASSUME NEW q \in Peers PROVE PeerStreamInv(q)'
      <3>1. CASE q # p
        BY <3>1, KingSame, StreamSame DEF PeerStreamInv, ProdTypeOK
      <3>2. CASE q = p
        BY <3>2, KingSame
        DEF PeerStreamInv, StreamInv, WrittenInv, ProdTypeOK, Announce, Share, SynAck
      <3>. QED
        BY <3>1, <3>2
    <2>. QED
      BY <2>1, <2>3, <2>4, <2>5 DEF PeerStreamInv
  <1>. QED
    BY <1>1, <1>2 DEF PeerConnect

\* A crash stops the writing, and what was written is still there.
LEMMA CrashInv ==
  ASSUME ProdInv, NEW p \in Peers, Crash(p), UNCHANGED idOf
  PROVE  ProdInv'
  <1>. USE DEF ProdInv, Crash
  <1>1. ProdTypeOK'
    BY MessagesSame DEF ProdTypeOK, PeerPcs
  <1>2. ConnInv'
    BY Members, QueuesSame DEF ConnInv, ProdTypeOK
  <1>3. PeersInv' /\ ReleaseInv' /\ NothingIsMisread'
    BY DEF PeersInv, ReleaseInv, NothingIsMisread, PeersStarted, Accepted, ProdTypeOK
  <1>4. ASSUME NEW q \in Peers, kingPc # "failed" PROVE PeerStreamInv(q)'
    <2>1. CASE q # p
      BY <1>4, <2>1, KingSame, StreamSame DEF PeerStreamInv, ProdTypeOK
    <2>2. CASE q = p
      BY <1>4, <2>2, KingSame
      DEF PeerStreamInv, StreamInv, WrittenInv, ProdTypeOK, Announce, Share, SynAck
    <2>. QED
      BY <2>1, <2>2
  <1>. QED
    BY <1>1, <1>2, <1>3, <1>4 DEF PeerStreamInv

\* A process that was accepted writes its id first of all.
LEMMA AnnounceInv ==
  ASSUME ProdInv, NEW p \in Peers, PeerAnnounce(p), UNCHANGED idOf
  PROVE  ProdInv'
  <1>. USE DEF ProdInv
  <1>1. CASE /\ peerPc[p] = "announce"
             /\ peerPc' = [peerPc EXCEPT ![p] = "syn"]
             /\ up' = [up EXCEPT ![p] = Append(@, Announce(p))]
    <2>. USE <1>1 DEF PeerAnnounce
    <2>0. /\ up[p] \in Seq(Messages) /\ Announce(p) \in Messages
          /\ Append(up[p], Announce(p)) \in Seq(Messages)
      <3>1. up[p] \in Seq(Messages)
        BY DEF ProdTypeOK
      <3>2. Announce(p) \in Messages
        BY DEF Messages
      <3>. QED
        BY <3>1, <3>2, Arrival
    <2>1. ProdTypeOK'
      BY <2>0, MessagesSame DEF ProdTypeOK, PeerPcs
    <2>2. ConnInv'
      BY Members, QueuesSame DEF ConnInv, ProdTypeOK
    <2>3. PeersInv' /\ ReleaseInv' /\ NothingIsMisread'
      BY DEF PeersInv, ReleaseInv, NothingIsMisread, PeersStarted, Accepted, ProdTypeOK
    <2>4. ASSUME NEW q \in Peers, kingPc # "failed" PROVE PeerStreamInv(q)'
      <3>1. CASE q # p
        BY <2>4, <3>1, KingSame, StreamSame DEF PeerStreamInv, ProdTypeOK
      <3>2. CASE q = p
        <4>1. up[p] = <<>> /\ ~ IdRead(p) /\ ~ Acked(p) /\ ~ Received(p)
          BY <2>4 DEF StreamInv, WrittenInv
        <4>2. up'[p] = <<Announce(p)>> /\ Announce(p)' = Announce(p) /\ peerPc'[p] = "syn"
          BY <4>1, Shapes DEF ProdTypeOK, Announce
        <4>3. <<Announce(p)>> \notin {<<SynAck>>, <<SynAck, Share(p)>>}
          BY Packets, Shapes
        <4>. QED
          BY <3>2, <4>1, <4>2, <4>3, KingSame DEF PeerStreamInv, StreamInv, WrittenInv, Share, SynAck
      <3>. QED
        BY <3>1, <3>2
    <2>. QED
      BY <2>1, <2>2, <2>3, <2>4 DEF PeerStreamInv
  <1>2. CASE /\ peerPc[p] \in {"handshake", "announce"} /\ ~ open[p]
             /\ peerPc' = [peerPc EXCEPT ![p] = "failed"]
             /\ UNCHANGED up
    <2>. USE <1>2 DEF PeerAnnounce
    <2>1. ProdTypeOK'
      BY MessagesSame DEF ProdTypeOK, PeerPcs
    <2>2. ConnInv'
      BY Members, QueuesSame DEF ConnInv, ProdTypeOK
    <2>3. PeersInv' /\ ReleaseInv' /\ NothingIsMisread'
      BY DEF PeersInv, ReleaseInv, NothingIsMisread, PeersStarted, Accepted, ProdTypeOK
    <2>4. ASSUME NEW q \in Peers, kingPc # "failed" PROVE PeerStreamInv(q)'
      <3>1. CASE q # p
        BY <2>4, <3>1, KingSame, StreamSame DEF PeerStreamInv, ProdTypeOK
      <3>2. CASE q = p
        BY <2>4, <3>2, KingSame
        DEF PeerStreamInv, StreamInv, WrittenInv, ProdTypeOK, Announce, Share, SynAck
      <3>. QED
        BY <3>1, <3>2
    <2>. QED
      BY <2>1, <2>2, <2>3, <2>4 DEF PeerStreamInv
  <1>. QED
    BY <1>1, <1>2 DEF PeerAnnounce

\* A process that is released answers: what it announced has been read by then.
LEMMA SyncInv ==
  ASSUME ProdInv, NEW p \in Peers, PeerSync(p), UNCHANGED idOf
  PROVE  ProdInv'
  <1>. USE DEF ProdInv
  <1>1. CASE /\ down[p] # <<>>
             /\ down' = [down EXCEPT ![p] = Tail(@)]
             /\ IF Head(down[p]) = Syn
                THEN /\ peerPc' = [peerPc EXCEPT ![p] = "ready"]
                     /\ up' = [up EXCEPT ![p] = Append(@, SynAck)]
                ELSE peerPc' = [peerPc EXCEPT ![p] = "protocol"] /\ UNCHANGED up
    <2>. USE <1>1 DEF PeerSync
    <2>0. Head(down[p]) \in {Syn} /\ Tail(down[p]) \in Seq({Syn})
      BY DEF ProdTypeOK
    <2>1. /\ peerPc' = [peerPc EXCEPT ![p] = "ready"]
          /\ up' = [up EXCEPT ![p] = Append(@, SynAck)]
      BY <2>0
    <2>2. Append(up[p], SynAck) \in Seq(Messages)
      <3>1. up[p] \in Seq(Messages) /\ SynAck \in Messages
        BY DEF ProdTypeOK, Messages
      <3>. QED
        BY <3>1, Arrival
    <2>3. ProdTypeOK'
      BY <2>0, <2>1, <2>2, MessagesSame DEF ProdTypeOK, PeerPcs
    <2>4. ConnInv'
      BY <2>1, Members, QueuesSame DEF ConnInv, ProdTypeOK
    <2>5. /\ kingPc \in {"syn", "ack", "ready", "failed"} /\ Accepted = Peers
      BY DEF ReleaseInv
    <2>6. PeersInv' /\ ReleaseInv' /\ NothingIsMisread'
      <3>1. PeersInv'
        BY DEF PeersInv
      <3>2. ReleaseInv'
        BY <2>5, QueuesSame DEF ReleaseInv
      <3>3. NothingIsMisread'
        BY <2>1 DEF NothingIsMisread, ProdTypeOK
      <3>. QED
        BY <3>1, <3>2, <3>3
    <2>7. ASSUME NEW q \in Peers, kingPc # "failed" PROVE PeerStreamInv(q)'
      <3>1. CASE q # p
        BY <2>1, <2>7, <3>1, KingSame, StreamSame DEF PeerStreamInv, ProdTypeOK
      <3>2. CASE q = p
        <4>1. up[p] \in {<<>>, <<Announce(p)>>} /\ ~ Acked(p) /\ ~ Received(p)
          BY <2>7 DEF WrittenInv
        <4>2. IdRead(p)
          BY <2>5, <2>7 DEF IdRead
        <4>3. <<Announce(p)>> \notin {<<>>, <<SynAck>>, <<SynAck, Share(p)>>}
          BY Packets, Shapes
        <4>4. up[p] = <<>>
          BY <2>7, <4>1, <4>2, <4>3 DEF StreamInv
        <4>5. up'[p] = <<SynAck>> /\ peerPc'[p] = "ready"
          BY <2>1, <4>4, Shapes DEF ProdTypeOK
        <4>. QED
          BY <3>2, <4>1, <4>2, <4>5, KingSame DEF PeerStreamInv, StreamInv, WrittenInv, SynAck
      <3>. QED
        BY <3>1, <3>2
    <2>. QED
      BY <2>3, <2>4, <2>6, <2>7 DEF PeerStreamInv
  <1>2. CASE peerPc' = [peerPc EXCEPT ![p] = "failed"] /\ UNCHANGED <<down, up>>
    <2>. USE <1>2 DEF PeerSync
    <2>1. ProdTypeOK'
      BY MessagesSame DEF ProdTypeOK, PeerPcs
    <2>2. ConnInv'
      BY Members, QueuesSame DEF ConnInv, ProdTypeOK
    <2>3. PeersInv' /\ ReleaseInv' /\ NothingIsMisread'
      BY DEF PeersInv, ReleaseInv, NothingIsMisread, PeersStarted, Accepted, ProdTypeOK
    <2>4. ASSUME NEW q \in Peers, kingPc # "failed" PROVE PeerStreamInv(q)'
      <3>1. CASE q # p
        BY <2>4, <3>1, KingSame, StreamSame DEF PeerStreamInv, ProdTypeOK
      <3>2. CASE q = p
        <4>1. <<Announce(p)>> \notin {<<SynAck>>, <<SynAck, Share(p)>>} /\ <<SynAck>> # <<>> /\ <<SynAck, Share(p)>> # <<>>
          BY Packets, Shapes
        <4>2. ~ Acked(p) /\ ~ Received(p) /\ up[p] \in {<<>>, <<Announce(p)>>}
          BY <2>4 DEF WrittenInv
        <4>. QED
          BY <2>4, <3>2, <4>1, <4>2, KingSame
          DEF PeerStreamInv, StreamInv, WrittenInv, ProdTypeOK, Announce, Share, SynAck
      <3>. QED
        BY <3>1, <3>2
    <2>. QED
      BY <2>1, <2>2, <2>3, <2>4 DEF PeerStreamInv
  <1>. QED
    BY <1>1, <1>2 DEF PeerSync

\* The share goes behind the SynAck, if the king has not taken that yet.
LEMMA SendInv ==
  ASSUME ProdInv, NEW p \in Peers, PeerSend(p), UNCHANGED idOf
  PROVE  ProdInv'
  <1>. USE DEF ProdInv, PeerSend, PeerSendStep
  <1>1. Append(up[p], Share(p)) \in Seq(Messages)
    <2>1. up[p] \in Seq(Messages) /\ Share(p) \in Messages
      BY DEF ProdTypeOK, Messages
    <2>. QED
      BY <2>1, Arrival
  <1>2. ProdTypeOK'
    BY <1>1, MessagesSame DEF ProdTypeOK, PeerPcs
  <1>3. ConnInv'
    BY Members, QueuesSame DEF ConnInv, ProdTypeOK
  <1>4. PeersInv' /\ ReleaseInv' /\ NothingIsMisread'
    <2>1. PeersInv'
      BY DEF PeersInv
    <2>2. ReleaseInv'
      BY QueuesSame DEF ReleaseInv, PeersStarted, ProdTypeOK
    <2>3. NothingIsMisread'
      BY DEF NothingIsMisread, ProdTypeOK
    <2>. QED
      BY <2>1, <2>2, <2>3
  <1>5. ASSUME NEW q \in Peers, kingPc # "failed" PROVE PeerStreamInv(q)'
    <2>1. CASE q # p
      BY <1>5, <2>1, KingSame, StreamSame DEF PeerStreamInv, ProdTypeOK
    <2>2. CASE q = p
      <3>1. /\ kingPc \in {"syn", "ack", "ready"}
            /\ up[p] = IF Acked(p) THEN <<>> ELSE <<SynAck>>
            /\ ~ Received(p)
        BY <1>5 DEF ReleaseInv, PeersStarted, WrittenInv
      <3>2. IdRead(p)
        BY <3>1 DEF IdRead
      <3>3. /\ up'[p] = IF Acked(p) THEN <<Share(p)>> ELSE <<SynAck, Share(p)>>
            /\ peerPc'[p] = "sent" /\ Share(p)' = Share(p) /\ SynAck' = SynAck
        <4>1. up'[p] = Append(up[p], Share(p)) /\ peerPc'[p] = "sent"
          BY DEF ProdTypeOK
        <4>2. Share(p)' = Share(p) /\ SynAck' = SynAck
          BY DEF Share, SynAck
        <4>3. /\ Append(<<>>, Share(p)) = <<Share(p)>>
              /\ Append(<<SynAck>>, Share(p)) = <<SynAck, Share(p)>>
          BY Shapes
        <4>4. up'[p] = IF Acked(p) THEN <<Share(p)>> ELSE <<SynAck, Share(p)>>
          BY <3>1, <4>1, <4>3, Zenon
        <4>. QED
          BY <4>1, <4>2, <4>4
      <3>. QED
        BY <2>2, <3>1, <3>2, <3>3, KingSame DEF PeerStreamInv, StreamInv, WrittenInv
    <2>. QED
      BY <2>1, <2>2
  <1>. QED
    BY <1>2, <1>3, <1>4, <1>5 DEF PeerStreamInv

\* The one that is accepted was waiting, and when as many have been accepted
\* as there are, everybody has.
LEMMA AcceptInv == ProdInv /\ KingAccept /\ UNCHANGED idOf => ProdInv'
  <1>. SUFFICES ASSUME ProdInv, KingAccept, UNCHANGED idOf PROVE ProdInv'
    OBVIOUS
  <1>. USE DEF ProdInv
  <1>0. /\ kingPc = "accept" /\ backlog # <<>> /\ backlog \in Seq(Peers)
        /\ \A i, j \in DOMAIN backlog : backlog[i] = backlog[j] => i = j
    BY DEF KingAccept, ConnInv, ProdTypeOK
  <1>3. PICK p : p = Head(backlog)
    OBVIOUS
  <1>1. CASE open[p]
    <2>1. /\ kingPc = "accept" /\ backlog # <<>>
          /\ conns' = Append(conns, p)
          /\ peerPc' = [peerPc EXCEPT ![p] = "announce"]
          /\ kingPc' = IF Len(conns) + 1 = Cardinality(Peers) THEN "read" ELSE "accept"
          /\ backlog' = Tail(backlog)
          /\ UNCHANGED <<peers, order, synced, open, down, up, got>>
      BY <1>3, <1>1 DEF KingAccept, LastAccept
    <2>3. /\ p \in Peers /\ p \in Waiting
          /\ backlog' \in Seq(Peers) /\ Waiting' = Waiting \ {p}
          /\ \A i, j \in DOMAIN backlog' : backlog'[i] = backlog'[j] => i = j
      <3>1. /\ p \in Peers /\ Tail(backlog) \in Seq(Peers)
            /\ \A i, j \in DOMAIN Tail(backlog) : Tail(backlog)[i] = Tail(backlog)[j] => i = j
            /\ p \in {backlog[k] : k \in DOMAIN backlog}
            /\ {Tail(backlog)[k] : k \in DOMAIN Tail(backlog)} = {backlog[k] : k \in DOMAIN backlog} \ {p}
        BY <1>0, <1>3, Departure
      <3>2. Waiting' = {Tail(backlog)[k] : k \in DOMAIN Tail(backlog)}
        BY <2>1 DEF Waiting
      <3>. QED
        BY <2>1, <3>1, <3>2 DEF Waiting
    <2>4. p \notin Accepted /\ peerPc[p] = "handshake" /\ synced = 0
      BY <1>1, <2>1, <2>3 DEF ConnInv
    <2>5. /\ conns' \in Seq(Peers) /\ Len(conns') = Len(conns) + 1
          /\ Accepted' = Accepted \cup {p}
          /\ \A i, j \in DOMAIN conns' : conns'[i] = conns'[j] => i = j
      <3>1. /\ conns' \in Seq(Peers) /\ Len(conns') = Len(conns) + 1
            /\ Accepted' = Accepted \cup {p}
            /\ DOMAIN conns' = DOMAIN conns \cup {Len(conns) + 1}
            /\ \A k \in DOMAIN conns : conns'[k] = conns[k]
            /\ conns'[Len(conns) + 1] = p
        <4>1. conns \in Seq(Peers)
          BY DEF ProdTypeOK
        <4>2. {conns'[k] : k \in DOMAIN conns'} = {conns[k] : k \in DOMAIN conns} \cup {p}
          BY <2>1, <2>3, <4>1, Arrival
        <4>. QED
          BY <2>1, <2>3, <4>1, <4>2, Arrival DEF Accepted
      <3>2. \A k \in DOMAIN conns : conns[k] # p
        BY <2>4 DEF Accepted
      <3>. QED
        BY <3>1, <3>2 DEF ConnInv
    <2>6. kingPc' = "read" => Accepted' = Peers
      <3>1. ASSUME kingPc' = "read" PROVE Len(conns') = Cardinality(Peers)
        BY <2>1, <2>5, <3>1
      <3>. QED
        BY <2>5, <3>1, AllCounted, PeersAssumption DEF Accepted
    <2>7. ProdTypeOK'
      BY <2>1, <2>3, <2>5, MessagesSame DEF ProdTypeOK, PeerPcs, KingPcs
    <2>8. ConnInv'
      <3>1. /\ Accepted' \cap Waiting' = {}
            /\ \A q \in Accepted' \cup Waiting' : peerPc'[q] # "start"
        BY <2>1, <2>3, <2>5, Members DEF ConnInv, ProdTypeOK
      <3>2. \A q \in Waiting' : open'[q] => peerPc'[q] = "handshake"
        BY <2>1, <2>3, Members DEF ConnInv, ProdTypeOK
      <3>3. synced' = 0 /\ Len(conns') > 0
        BY <2>1, <2>4, <2>5 DEF ProdTypeOK
      <3>. QED
        BY <2>1, <2>3, <2>5, <2>6, <3>1, <3>2, <3>3 DEF ConnInv
    <2>9. PeersInv' /\ ReleaseInv' /\ NothingIsMisread'
      BY <2>1, <2>3 DEF PeersInv, ReleaseInv, NothingIsMisread, PeersStarted, ProdTypeOK
    <2>10. ASSUME NEW q \in Peers PROVE PeerStreamInv(q)'
      <3>1. ~ IdRead(q) /\ ~ Acked(q) /\ (Received(q)' <=> Received(q))
        BY <2>1 DEF IdRead, Acked, Received
      <3>2. ~ IdRead(q)' /\ ~ Acked(q)'
        BY <2>1, <2>4 DEF IdRead, Acked
      <3>3. CASE q # p
        BY <2>1, <2>3, <3>1, <3>2, <3>3, StreamSame DEF PeerStreamInv, ProdTypeOK
      <3>4. CASE q = p
        <4>1. up[p] = <<>> /\ ~ Received(p)
          BY <2>1, <2>3, <2>4, <3>1, <3>4 DEF StreamInv, WrittenInv
        <4>2. up'[p] = <<>> /\ peerPc'[p] = "announce" /\ ~ Received(p)'
          BY <2>1, <2>3, <3>1, <3>4, <4>1 DEF ProdTypeOK
        <4>. QED
          BY <3>2, <3>4, <4>2 DEF PeerStreamInv, StreamInv, WrittenInv, SynAck, Share
      <3>. QED
        BY <3>3, <3>4
    <2>. QED
      BY <2>7, <2>8, <2>9, <2>10 DEF PeerStreamInv
  <1>2. CASE ~ open[p]
    BY <1>0, <1>3, <1>2, FailInv DEF KingAccept, BrokenConnection
  <1>. QED
    BY <1>1, <1>2

\* The id that is read is the first packet of a process that has not been read.
LEMMA ReadIdInv == ProdInv /\ KingReadId /\ UNCHANGED idOf => ProdInv'
  <1>. SUFFICES ASSUME ProdInv, KingReadId, UNCHANGED idOf PROVE ProdInv'
    OBVIOUS
  <1>. USE DEF ProdInv
  <1>0. PICK p : p = conns[synced + 1]
    OBVIOUS
  <1>3. PICK id : id = Head(up[p]).id
    OBVIOUS
  <1>4. PICK last \in BOOLEAN : last <=> synced + 1 = Len(conns)
    OBVIOUS
  <1>1. CASE ~ open[p] /\ KingFails /\ UNCHANGED <<peers, up, synced, order>>
    <2>1. UNCHANGED backlog /\ UNCHANGED <<idOf, conns, peers, order, synced, peerPc, down, up, got>>
      BY <1>1 DEF KingReadId
    <2>. QED
      BY <1>1, <2>1, FailInv
  <1>2. CASE /\ up[p] # <<>>
             /\ peers' = [i \in DOMAIN peers \cup {id} |-> IF i = id THEN p ELSE peers[i]]
             /\ open' = [q \in Peers |-> open[q] /\ (id \in DOMAIN peers => q # peers[id])]
             /\ up' = [up EXCEPT ![p] = Tail(@)]
             /\ IF last
                THEN /\ kingPc' = "syn" /\ synced' = 0
                     /\ order' \in Iterations(DOMAIN peers')
                ELSE synced' = synced + 1 /\ UNCHANGED <<kingPc, order>>
    <2>1. /\ kingPc = "read" /\ UNCHANGED <<backlog, conns, peerPc, down, got>>
          /\ synced + 1 \in DOMAIN conns /\ synced \in Nat /\ Len(conns) \in Nat
          /\ p \in Peers
      BY <1>0 DEF KingReadId, ConnInv, ProdTypeOK
    <2>2. Accepted = Peers /\ DOMAIN conns = 1 .. Len(conns)
      BY <2>1 DEF ConnInv, ProdTypeOK
    <2>3. ~ IdRead(p) /\ ~ Acked(p) /\ ~ Received(p)
      <3>1. \A k \in 1 .. synced : k \in DOMAIN conns /\ k # synced + 1
        BY <2>1, <2>2
      <3>2. ~ IdRead(p)
        BY <1>0, <2>1, <3>1 DEF IdRead, ConnInv
      <3>3. got = [i \in {} |-> i]
        BY <2>1 DEF PeersInv
      <3>. QED
        BY <2>1, <3>2, <3>3 DEF Acked, Received
    <2>4. up[p] = <<Announce(p)>>
      BY <1>2, <2>1, <2>3 DEF StreamInv
    <2>5. id = idOf[p] /\ Tail(up[p]) = <<>>
      BY <1>3, <2>4, Packets, Shapes
    <2>6. id \in 1 .. N - 1
      BY <2>1, <2>5, ConfigsAssumption DEF ProdTypeOK
    <2>7. /\ peers' \in [DOMAIN peers' -> Peers] /\ DOMAIN peers' \subseteq 1 .. N - 1
          /\ DOMAIN peers' = DOMAIN peers \cup {id}
          /\ \A i \in DOMAIN peers' : idOf[peers'[i]] = i
      BY <1>2, <2>1, <2>5, <2>6 DEF ProdTypeOK, PeersInv
    <2>8. up'[p] = <<>> /\ up' \in [Peers -> Seq(Messages)] /\ \A q \in Peers : q # p => up'[q] = up[q]
      BY <1>2, <2>1, <2>5 DEF ProdTypeOK
    <2>9. ProdTypeOK'
      BY <1>2, <2>1, <2>7, <2>8, MessagesSame DEF ProdTypeOK, KingPcs
    <2>10. ConnInv'
      <3>1. \A q \in Peers : open'[q] => open[q]
        BY <1>2
      <3>2. kingPc' \in {"read", "syn"} /\ (kingPc' = "read" => synced' < Len(conns'))
        BY <1>2, <1>4, <2>1 DEF ConnInv
      <3>. QED
        BY <2>1, <2>2, <3>1, <3>2, Members, QueuesSame DEF ConnInv
    <2>11. got = [i \in {} |-> i]
      BY <2>1 DEF PeersInv
    <2>12. PeersInv'
      <3>1. CASE ~ last
        BY <1>2, <2>1, <2>7, <2>11, <3>1 DEF PeersInv
      <3>2. CASE last
        <4>1. order' \in Iterations(DOMAIN peers') /\ synced' = 0 /\ kingPc' = "syn"
          BY <1>2, <3>2
        <4>2. IsFiniteSet(DOMAIN peers') /\ Cardinality(DOMAIN peers') \in Nat
          <5>1. N - 1 \in Int
            BY PeersAssumption, FS_CardinalityType DEF N
          <5>2. IsFiniteSet(1 .. N - 1)
            BY <5>1, FS_Interval
          <5>. QED
            BY <2>7, <5>2, FS_Subset, FS_CardinalityType
        <4>3. Cardinality(DOMAIN peers') # 0
          BY <2>7, <4>2, FS_EmptySet
        <4>4. /\ order' \in Seq(DOMAIN peers') /\ Len(order') = Cardinality(DOMAIN peers')
              /\ \A i, j \in DOMAIN order' : order'[i] = order'[j] => i = j
          BY <4>1, <4>2 DEF Iterations
        <4>5. {order'[k] : k \in DOMAIN order'} = DOMAIN peers'
          BY <4>2, <4>4, AllCounted
        <4>6. \A i \in DOMAIN peers' : \E k \in DOMAIN order' : order'[k] = i
          BY <4>5
        <4>7. synced' < Len(order')
          BY <4>1, <4>2, <4>3, <4>4
        <4>8. got' = [i \in {} |-> i] /\ DOMAIN got' = {}
          BY <2>1, <2>11
        <4>. QED
          BY <2>7, <4>1, <4>4, <4>6, <4>7, <4>8 DEF PeersInv
      <3>. QED
        BY <3>1, <3>2
    <2>13. ReleaseInv' /\ NothingIsMisread'
      BY <1>2, <2>1, <2>2, QueuesSame DEF ReleaseInv, NothingIsMisread, PeersStarted
    <2>14. ASSUME NEW q \in Peers PROVE PeerStreamInv(q)'
      <3>1. ~ Acked(q) /\ ~ Acked(q)' /\ ~ Received(q) /\ ~ Received(q)'
        BY <1>2, <2>1, <2>11 DEF Acked, Received
      <3>2. CASE q = p
        <4>1. IdRead(p)'
          <5>1. CASE last
            BY <1>2, <5>1 DEF IdRead
          <5>2. CASE ~ last
            BY <1>0, <1>2, <2>1, <5>2 DEF IdRead
          <5>. QED
            BY <5>1, <5>2
        <4>2. peerPc[p] \notin {"start", "handshake", "announce", "ready"}
          BY <2>1, <2>4, Shapes DEF WrittenInv, ReleaseInv, PeersStarted
        <4>. QED
          BY <2>1, <2>8, <3>1, <3>2, <4>1, <4>2, Shapes
          DEF PeerStreamInv, StreamInv, WrittenInv, SynAck, Share
      <3>3. CASE q # p
        <4>1. IdRead(q)' <=> IdRead(q)
          <5>1. CASE last
            <6>1. PICK k \in 1 .. Len(conns) : conns[k] = q
              BY <2>2 DEF Accepted
            <6>2. k \in 1 .. synced
              BY <1>0, <1>4, <2>1, <3>3, <5>1, <6>1
            <6>. QED
              BY <1>2, <2>1, <5>1, <6>1, <6>2 DEF IdRead
          <5>2. CASE ~ last
            BY <1>0, <1>2, <2>1, <3>3, <5>2 DEF IdRead
          <5>. QED
            BY <5>1, <5>2
        <4>. QED
          BY <2>1, <2>8, <3>1, <3>3, <4>1, StreamSame DEF PeerStreamInv
      <3>. QED
        BY <3>2, <3>3
    <2>. QED
      BY <2>9, <2>10, <2>12, <2>13, <2>14, <2>1 DEF PeerStreamInv
  <1>. QED
    BY <1>0, <1>1, <1>2, <1>3, <1>4 DEF KingReadId, PeerKey

\* A send takes nothing from anybody.
LEMMA SendSynInv == ProdInv /\ KingSendSyn /\ UNCHANGED idOf => ProdInv'
  <1>. SUFFICES ASSUME ProdInv, KingSendSyn, UNCHANGED idOf PROVE ProdInv'
    OBVIOUS
  <1>. USE DEF ProdInv
  <1>0. /\ kingPc = "syn" /\ UNCHANGED <<backlog, conns, peers, order, peerPc, up, got>>
        /\ order \in Seq(DOMAIN peers) /\ synced + 1 \in DOMAIN order
        /\ synced \in Nat /\ Len(order) \in Nat
    <2>1. /\ kingPc = "syn" /\ UNCHANGED <<backlog, conns, peers, order, peerPc, up, got>>
          /\ order \in Seq(DOMAIN peers) /\ synced < Len(order) /\ synced \in Nat
      BY DEF KingSendSyn, PeersInv, ProdTypeOK
    <2>. QED
      BY <2>1
  <1>1. PICK p \in Peers : p = peers[order[synced + 1]]
    BY <1>0 DEF ProdTypeOK
  <1>2. CASE KingFails /\ UNCHANGED <<down, synced>>
    <2>1. UNCHANGED backlog /\ UNCHANGED <<idOf, conns, peers, order, synced, peerPc, down, up, got>>
      BY <1>0, <1>2
    <2>. QED
      BY <1>2, <2>1, FailInv
  <1>3. CASE /\ down' = [down EXCEPT ![p] = Append(@, Syn)]
             /\ IF synced + 1 = Len(order)
                THEN kingPc' = "ack" /\ synced' = 0
                ELSE synced' = synced + 1 /\ UNCHANGED kingPc
             /\ UNCHANGED open
    <2>1. Append(down[p], Syn) \in Seq({Syn})
      BY DEF ProdTypeOK
    <2>2. ProdTypeOK'
      <3>1. kingPc' \in KingPcs /\ synced' \in Nat /\ down' \in [Peers -> Seq({Syn})]
        <4>1. kingPc' \in {"ack", "syn"} /\ synced' \in {0, synced + 1}
          BY <1>0, <1>3
        <4>2. down' \in [Peers -> Seq({Syn})]
          BY <1>3, <2>1 DEF ProdTypeOK
        <4>. QED
          BY <1>0, <4>1, <4>2 DEF KingPcs
      <3>. QED
        BY <1>0, <1>3, <3>1, MessagesSame DEF ProdTypeOK
    <2>3. kingPc' \in {"syn", "ack"} /\ synced' < Len(order)
      BY <1>0, <1>3 DEF PeersInv
    <2>4. ConnInv'
      BY <1>0, <1>3, <2>3, QueuesSame DEF ConnInv
    <2>5. PeersInv'
      BY <1>0, <2>3 DEF PeersInv
    <2>6. ReleaseInv' /\ NothingIsMisread'
      BY <1>0, <2>3, QueuesSame DEF ReleaseInv, NothingIsMisread, PeersStarted, ConnInv
    <2>7. ASSUME NEW q \in Peers PROVE PeerStreamInv(q)'
      <3>1. IdRead(q) /\ IdRead(q)' /\ (Received(q)' <=> Received(q))
        BY <1>0, <2>3 DEF IdRead, Received
      <3>2. ~ Acked(q) /\ ~ Acked(q)'
        BY <1>0, <1>3 DEF Acked
      <3>. QED
        BY <1>0, <3>1, <3>2, StreamSame DEF PeerStreamInv
    <2>. QED
      BY <2>2, <2>4, <2>5, <2>6, <2>7 DEF PeerStreamInv
  <1>. QED
    BY <1>1, <1>2, <1>3 DEF KingSendSyn

\* What the king takes from a stream while it waits for SynAcks is a SynAck:
\* a share that is there already is behind it.
LEMMA AckInv == ProdInv /\ KingAck /\ UNCHANGED idOf => ProdInv'
  <1>. SUFFICES ASSUME ProdInv, KingAck, UNCHANGED idOf PROVE ProdInv'
    OBVIOUS
  <1>. USE DEF ProdInv
  <1>0. /\ kingPc = "ack" /\ UNCHANGED <<backlog, conns, peers, order, peerPc, down, got>>
        /\ order \in Seq(DOMAIN peers) /\ synced + 1 \in DOMAIN order
        /\ synced \in Nat /\ Len(order) \in Nat /\ DOMAIN order = 1 .. Len(order)
    <2>1. /\ kingPc = "ack" /\ UNCHANGED <<backlog, conns, peers, order, peerPc, down, got>>
          /\ order \in Seq(DOMAIN peers) /\ synced < Len(order) /\ synced \in Nat
      BY DEF KingAck, PeersInv, ProdTypeOK
    <2>. QED
      BY <2>1
  <1>1. PICK p \in Peers : p = peers[order[synced + 1]]
    BY <1>0 DEF ProdTypeOK
  <1>2. CASE KingFails /\ UNCHANGED <<up, synced>>
    <2>1. UNCHANGED backlog /\ UNCHANGED <<idOf, conns, peers, order, synced, peerPc, down, up, got>>
      BY <1>0, <1>2
    <2>. QED
      BY <1>2, <2>1, FailInv
  <1>3. CASE /\ up[p] # <<>>
             /\ up' = [up EXCEPT ![p] = Tail(@)]
             /\ IF Head(up[p]) # SynAck
                THEN /\ kingPc' = "protocol"
                     /\ open' = [q \in Peers |-> FALSE]
                     /\ UNCHANGED synced
                ELSE /\ UNCHANGED open
                     /\ IF synced + 1 = Len(order)
                        THEN kingPc' = "ready" /\ synced' = 0
                        ELSE synced' = synced + 1 /\ UNCHANGED kingPc
    <2>1. \A k \in 1 .. synced : peers[order[k]] # p
      <3>1. SUFFICES ASSUME NEW k \in 1 .. synced, peers[order[k]] = p PROVE FALSE
        OBVIOUS
      <3>2. k \in DOMAIN order /\ k # synced + 1 /\ order[k] \in DOMAIN peers
        BY <1>0
      <3>3. order[k] = idOf[p] /\ order[synced + 1] = idOf[p]
        BY <1>0, <1>1, <3>1, <3>2 DEF PeersInv
      <3>. QED
        BY <1>0, <3>2, <3>3 DEF PeersInv
    <2>2. IdRead(p) /\ ~ Acked(p) /\ ~ Received(p)
      <3>1. DOMAIN got = {}
        BY <1>0 DEF PeersInv
      <3>. QED
        BY <1>0, <2>1, <3>1 DEF IdRead, Acked, Received
    <2>3. up[p] \in {<<SynAck>>, <<SynAck, Share(p)>>}
      BY <1>0, <1>3, <2>2 DEF StreamInv
    <2>4. /\ Head(up[p]) = SynAck
          /\ up[p] = <<SynAck>> => Tail(up[p]) = <<>>
          /\ up[p] = <<SynAck, Share(p)>> => Tail(up[p]) = <<Share(p)>>
      <3>1. CASE up[p] = <<SynAck>>
        BY <3>1, Shapes
      <3>2. CASE up[p] = <<SynAck, Share(p)>>
        BY <3>2, Shapes
      <3>. QED
        BY <2>3, <3>1, <3>2
    <2>5. /\ UNCHANGED open
          /\ \/ synced + 1 = Len(order) /\ kingPc' = "ready" /\ synced' = 0
             \/ synced + 1 # Len(order) /\ kingPc' = "ack" /\ synced' = synced + 1
      BY <1>0, <1>3, <2>4
    <2>6. Tail(up[p]) \in Seq(Messages)
      BY <1>3 DEF ProdTypeOK
    <2>7. ProdTypeOK'
      <3>1. kingPc' \in KingPcs /\ synced' \in Nat /\ up' \in [Peers -> Seq(Messages)]
        BY <1>0, <1>3, <2>5, <2>6 DEF ProdTypeOK, KingPcs
      <3>. QED
        BY <1>0, <2>5, <3>1, MessagesSame DEF ProdTypeOK
    <2>8. ConnInv'
      BY <1>0, <2>5, QueuesSame DEF ConnInv
    <2>9. PeersInv'
      <3>1. kingPc' \in {"ack", "ready"} /\ (kingPc' = "ack" => synced' < Len(order))
        <4>1. synced \in Nat /\ Len(order) \in Nat /\ synced + 1 <= Len(order)
          BY <1>0
        <4>. HIDE <1>0, <1>3, <2>4
        <4>2. synced + 1 # Len(order) => synced + 1 < Len(order)
          BY ONLY <4>1
        <4>. QED
          BY <2>5, <4>2
      <3>2. got = [i \in {} |-> i]
        BY <1>0 DEF PeersInv
      <3>. QED
        BY <1>0, <3>1, <3>2 DEF PeersInv
    <2>10. ReleaseInv' /\ NothingIsMisread'
      BY <1>0, <2>5, QueuesSame DEF ReleaseInv, NothingIsMisread, PeersStarted, ConnInv
    <2>11. ASSUME NEW q \in Peers PROVE PeerStreamInv(q)'
      <3>1. IdRead(q) /\ IdRead(q)' /\ ~ Received(q) /\ ~ Received(q)'
        <4>1. DOMAIN got = {}
          BY <1>0 DEF PeersInv
        <4>. QED
          BY <1>0, <2>5, <4>1 DEF IdRead, Received
      <3>2. CASE q = p
        <4>1. Acked(p)'
          <5>1. order[synced + 1] \in DOMAIN peers
            BY <1>0
          <5>2. CASE kingPc' = "ready"
            BY <1>0, <1>1, <5>1, <5>2 DEF Acked
          <5>3. CASE kingPc' = "ack"
            <6>1. synced' = synced + 1
              BY <2>5, <5>3
            <6>2. synced + 1 \in 1 .. synced + 1
              BY <1>0
            <6>. QED
              BY <1>0, <1>1, <5>3, <6>1, <6>2 DEF Acked
          <5>. QED
            BY <2>5, <5>2, <5>3
        <4>2. up'[p] = Tail(up[p]) /\ peerPc'[p] = peerPc[p] /\ Share(p)' = Share(p) /\ SynAck' = SynAck
          BY <1>0, <1>3 DEF ProdTypeOK, Share, SynAck
        <4>3. /\ peerPc[p] \in {"ready", "sent", "crashed"}
              /\ peerPc[p] = "ready" => up[p] = <<SynAck>>
          BY <1>0, <2>2, <2>3 DEF WrittenInv
        <4>4. /\ up'[p] \in {<<>>, <<Share(p)>>}
              /\ peerPc[p] = "ready" => up'[p] = <<>>
          BY <2>3, <2>4, <4>2, <4>3
        <4>. QED
          BY <3>1, <3>2, <4>1, <4>2, <4>3, <4>4 DEF PeerStreamInv, StreamInv, WrittenInv
      <3>3. CASE q # p
        <4>1. Acked(q)' <=> Acked(q)
          <5>1. CASE kingPc' = "ready"
            <6>1. ASSUME Acked(q)' PROVE Acked(q)
              <7>1. PICK id \in DOMAIN peers : peers[id] = q
                BY <1>0, <5>1, <6>1 DEF Acked
              <7>2. PICK k \in DOMAIN order : order[k] = id
                BY <1>0 DEF PeersInv
              <7>3. k \in 1 .. synced
                BY <1>0, <1>1, <2>5, <3>3, <5>1, <7>1, <7>2
              <7>. QED
                BY <1>0, <7>1, <7>2, <7>3 DEF Acked
            <6>2. ASSUME Acked(q) PROVE Acked(q)'
              <7>1. PICK k \in 1 .. synced : peers[order[k]] = q
                BY <1>0, <6>2 DEF Acked
              <7>2. order[k] \in DOMAIN peers
                BY <1>0
              <7>. QED
                BY <1>0, <5>1, <7>1, <7>2 DEF Acked
            <6>. QED
              BY <6>1, <6>2
          <5>2. CASE kingPc' = "ack"
            <6>0. synced' = synced + 1
              BY <2>5, <5>2
            <6>1. 1 .. synced + 1 = 1 .. synced \cup {synced + 1}
              BY <1>0
            <6>2. peers[order[synced + 1]] # q
              BY <1>1, <3>3
            <6>3. Acked(q) <=> \E k \in 1 .. synced : peers[order[k]] = q
              BY <1>0 DEF Acked
            <6>4. Acked(q)' <=> \E k \in 1 .. synced' : peers[order[k]] = q
              BY <1>0, <5>2 DEF Acked
            <6>. QED
              BY <6>0, <6>1, <6>2, <6>3, <6>4
          <5>. QED
            BY <2>5, <5>1, <5>2
        <4>2. up'[q] = up[q]
          BY <1>3, <3>3 DEF ProdTypeOK
        <4>. QED
          BY <1>0, <3>1, <4>1, <4>2, StreamSame DEF PeerStreamInv
      <3>. QED
        BY <3>2, <3>3
    <2>. QED
      BY <2>7, <2>8, <2>9, <2>10, <2>11 DEF PeerStreamInv
  <1>. QED
    BY <1>1, <1>2, <1>3 DEF KingAck

\* What the king receives in its first round is the share of the process.
LEMMA ReceiveInv ==
  ASSUME ProdInv, NEW id, KingReceive(id), UNCHANGED idOf
  PROVE  ProdInv'
  <1>. USE DEF ProdInv
  <1>0. /\ kingPc = "ready" /\ id \in DOMAIN peers /\ id \notin DOMAIN got
        /\ UNCHANGED <<backlog, conns, peers, order, synced, peerPc, open, down>>
    BY DEF KingReceive
  <1>1. PICK p \in Peers : p = peers[id]
    BY <1>0 DEF ProdTypeOK
  <1>2. /\ up[p] # <<>>
        /\ up' = [up EXCEPT ![p] = Tail(@)]
        /\ IF Head(up[p]).type = "Packet"
           THEN got' = [i \in DOMAIN got \cup {id} |-> IF i = id THEN Head(up[p]).from ELSE got[i]]
                /\ UNCHANGED kingPc
           ELSE kingPc' = "protocol" /\ UNCHANGED got
    BY <1>1 DEF KingReceive
  <1>3. Acked(p) /\ ~ Received(p)
    <2>1. \A i \in DOMAIN got : i \in DOMAIN peers /\ i # id
      BY <1>0 DEF PeersInv
    <2>. QED
      BY <1>0, <1>1, <2>1 DEF Acked, Received, PeersInv
  <1>4. up[p] = <<Share(p)>>
    BY <1>0, <1>2, <1>3 DEF StreamInv
  <1>5. Head(up[p]).type = "Packet" /\ Head(up[p]).from = p /\ Tail(up[p]) = <<>>
    BY <1>4, Packets, Shapes
  <1>6. /\ UNCHANGED kingPc /\ up' = [up EXCEPT ![p] = <<>>]
        /\ got' = [i \in DOMAIN got \cup {id} |-> IF i = id THEN p ELSE got[i]]
    BY <1>2, <1>5
  <1>7. ProdTypeOK'
    BY <1>0, <1>6, MessagesSame DEF ProdTypeOK
  <1>8. ConnInv'
    BY <1>0, <1>6, QueuesSame DEF ConnInv
  <1>9. PeersInv'
    BY <1>0, <1>1, <1>6 DEF PeersInv
  <1>10. ReleaseInv' /\ NothingIsMisread'
    BY <1>0, <1>6, QueuesSame DEF ReleaseInv, NothingIsMisread, PeersStarted
  <1>11. ASSUME NEW q \in Peers PROVE PeerStreamInv(q)'
    <2>1. (IdRead(q)' <=> IdRead(q)) /\ (Acked(q)' <=> Acked(q))
      BY <1>0, <1>6 DEF IdRead, Acked
    <2>2. CASE q = p
      <3>1. peerPc[p] \in {"sent", "crashed"}
        BY <1>0, <1>3, <1>4, Shapes DEF WrittenInv
      <3>2. up'[p] = <<>> /\ peerPc'[p] = peerPc[p] /\ IdRead(p)' /\ Acked(p)' /\ Received(p)'
        <4>1. Received(p)'
          BY <1>0, <1>1, <1>6 DEF Received
        <4>. QED
          BY <1>0, <1>3, <1>6, <2>1, <2>2, <4>1 DEF ProdTypeOK, IdRead
      <3>. QED
        BY <2>2, <3>1, <3>2, Shapes DEF PeerStreamInv, StreamInv, WrittenInv, SynAck, Share
    <2>3. CASE q # p
      <3>1. Received(q)' <=> Received(q)
        BY <1>0, <1>1, <1>6, <2>3 DEF Received
      <3>2. up'[q] = up[q]
        BY <1>6, <2>3 DEF ProdTypeOK
      <3>. QED
        BY <1>0, <2>1, <3>1, <3>2, StreamSame DEF PeerStreamInv
    <2>. QED
      BY <2>2, <2>3
  <1>. QED
    BY <1>7, <1>8, <1>9, <1>10, <1>11 DEF PeerStreamInv

-----------------------------------------------------------------------------
(***************************************************************************)
(* Every behaviour.                                                        *)
(***************************************************************************)
\* A step without a name changes nothing.
LEMMA IdleInv == ProdInv /\ UNCHANGED prodVars => ProdInv'
  <1>. SUFFICES ASSUME ProdInv, UNCHANGED prodVars PROVE ProdInv'
    OBVIOUS
  <1>. USE DEF ProdInv, prodVars
  <1>1. ProdTypeOK' /\ ConnInv'
    BY MessagesSame, QueuesSame DEF ProdTypeOK, ConnInv
  <1>2. PeersInv' /\ ReleaseInv' /\ NothingIsMisread'
    BY QueuesSame DEF PeersInv, ReleaseInv, NothingIsMisread, PeersStarted
  <1>3. ASSUME NEW q \in Peers, kingPc # "failed" PROVE PeerStreamInv(q)'
    BY <1>3, KingSame, StreamSame DEF PeerStreamInv
  <1>. QED
    BY <1>1, <1>2, <1>3 DEF PeerStreamInv

\* Every step, of the king or of a peer, keeps the invariant.
LEMMA NextInv == ProdInv /\ [ProdNext]_prodVars => ProdInv'
  <1>. SUFFICES ASSUME ProdInv, [ProdNext]_prodVars PROVE ProdInv'
    OBVIOUS
  <1>1. CASE KingStep
    BY <1>1, BindInv, AcceptInv, ReadIdInv, SendSynInv, AckInv, ReceiveInv DEF KingStep
  <1>2. CASE \E p \in Peers : PeerStep(p)
    BY <1>2, ConnectInv, AnnounceInv, SyncInv, SendInv DEF PeerStep
  <1>3. CASE \E p \in Peers : Crash(p) /\ UNCHANGED idOf
    BY <1>3, CrashInv
  <1>4. CASE UNCHANGED prodVars
    BY <1>4, IdleInv
  <1>. QED
    BY <1>1, <1>2, <1>3, <1>4 DEF ProdNext

\* The invariant holds of every set-up.
THEOREM SetupInvariant == ProdSpec => []ProdInv
  BY InitProdInv, NextInv, PTL DEF ProdSpec

\* No peer starts before all were accepted, and the king only after all it
\* keeps have answered.
THEOREM PeersStartTogether == ProdSpec => []StartsTogether
  <1>1. ProdInv => StartsTogether
    <2>. SUFFICES ASSUME ProdInv PROVE StartsTogether
      OBVIOUS
    <2>1. ASSUME PeersStarted # {} PROVE Accepted = Peers
      BY <2>1 DEF ProdInv, ReleaseInv, PeersStarted
    <2>2. ASSUME kingPc = "ready", NEW id \in DOMAIN peers
          PROVE  peerPc[peers[id]] \in {"ready", "sent", "crashed"}
      <3>1. peers[id] \in Peers /\ Acked(peers[id])
        BY <2>2 DEF ProdInv, ProdTypeOK, Acked
      <3>. QED
        BY <2>2, <3>1 DEF ProdInv, WrittenInv
    <2>. QED
      BY <2>1, <2>2 DEF StartsTogether
  <1>. QED
    BY <1>1, SetupInvariant, PTL

\* No packet is taken for another, though the first round shares the stream
\* with the set-up.
THEOREM NoPacketIsMisread == ProdSpec => []NothingIsMisread
  <1>1. ProdInv => NothingIsMisread
    BY DEF ProdInv
  <1>. QED
    BY <1>1, SetupInvariant, PTL

\* What the king files under an id comes from a process configured with it.
THEOREM SharesHaveTheirOwner == ProdSpec => []SharesAreAttributed
  <1>1. ProdInv => SharesAreAttributed
    BY DEF ProdInv, PeersInv, SharesAreAttributed
  <1>. QED
    BY <1>1, SetupInvariant, PTL

-----------------------------------------------------------------------------
(***************************************************************************)
(* The set-up implements the barrier: an acceptance is an arrival, the     *)
(* answer to a Syn is a start, and a crash gives up.                       *)
(***************************************************************************)
LEMMA InitIsBarrier == ProdInit => Barrier!BarrierInit
  BY DEF ProdInit, Barrier!BarrierInit, Accepted, PeersStarted

\* Who has started is a matter of where the peers are.
LEMMA StartedSame == UNCHANGED peerPc => PeersStarted' = PeersStarted
  BY DEF PeersStarted

\* The king's only step that the barrier sees is to accept.
LEMMA KingIsBarrier ==
  ASSUME ProdInv, KingStep
  PROVE  [Barrier!BarrierNext]_(Barrier!barrierVars)
  <1>1. CASE KingAccept
    <2>1. CASE UNCHANGED <<conns, peerPc>>
      BY <2>1, QueuesSame, StartedSame DEF Barrier!barrierVars
    <2>2. CASE ~ UNCHANGED <<conns, peerPc>>
      <3>1. PICK p : p = Head(backlog)
        OBVIOUS
      <3>2. /\ backlog # <<>> /\ open[p] /\ conns' = Append(conns, p)
            /\ peerPc' = [peerPc EXCEPT ![p] = "announce"]
        BY <1>1, <2>2, <3>1 DEF KingAccept
      <3>3. p \in Waiting /\ p \in Peers
        <4>1. backlog \in Seq(Peers) /\ \A i, j \in DOMAIN backlog : backlog[i] = backlog[j] => i = j
          BY DEF ProdInv, ConnInv, ProdTypeOK
        <4>. QED
          BY <3>1, <3>2, <4>1, Departure DEF Waiting
      <3>4. Accepted' = Accepted \cup {p}
        BY <3>2, <3>3, Arrival DEF ProdInv, ProdTypeOK, Accepted
      <3>5. peerPc[p] = "handshake"
        BY <3>2, <3>3 DEF ProdInv, ConnInv
      <3>6. PeersStarted' = PeersStarted
        BY <3>2, <3>5 DEF PeersStarted, ProdInv, ProdTypeOK
      <3>. QED
        BY <3>3, <3>4, <3>6 DEF Barrier!BarrierNext, Barrier!Arrive
    <2>. QED
      BY <2>1, <2>2
  <1>2. CASE ~ KingAccept
    <2>1. UNCHANGED <<conns, peerPc>>
      BY <1>2 DEF KingStep, KingBind, KingReadId, KingSendSyn, KingAck, KingReceive
    <2>. QED
      BY <2>1, QueuesSame, StartedSame DEF Barrier!barrierVars
  <1>. QED
    BY <1>1, <1>2

\* A peer starts when it is released, which it is after the last arrival.
LEMMA PeerIsBarrier ==
  ASSUME ProdInv, NEW p \in Peers, PeerStep(p) \/ Crash(p)
  PROVE  [Barrier!BarrierNext]_(Barrier!barrierVars)
  <1>1. Accepted' = Accepted
    BY QueuesSame DEF PeerStep, PeerConnect, PeerAnnounce, PeerSync, PeerSend, PeerSendStep, Crash
  <1>2. CASE PeerConnect(p)
    <2>1. PeersStarted' = PeersStarted
      BY <1>2 DEF PeerConnect, PeersStarted, ProdInv, ProdTypeOK
    <2>. QED
      BY <1>1, <2>1 DEF Barrier!barrierVars
  <1>3. CASE PeerAnnounce(p)
    <2>1. PeersStarted' = PeersStarted
      BY <1>3 DEF PeerAnnounce, PeersStarted, ProdInv, ProdTypeOK
    <2>. QED
      BY <1>1, <2>1 DEF Barrier!barrierVars
  <1>4. CASE PeerSync(p)
    <2>1. CASE down[p] # <<>> /\ peerPc' = [peerPc EXCEPT ![p] = "ready"]
      <3>1. Accepted = Peers
        BY <2>1 DEF ProdInv, ReleaseInv
      <3>2. PeersStarted' = PeersStarted \cup {p}
        BY <2>1 DEF PeersStarted, ProdInv, ProdTypeOK
      <3>. QED
        BY <1>1, <3>1, <3>2 DEF Barrier!BarrierNext, Barrier!Start
    <2>2. CASE \E s \in {"protocol", "failed"} : peerPc' = [peerPc EXCEPT ![p] = s]
      <3>1. peerPc[p] = "syn"
        BY <1>4 DEF PeerSync
      <3>2. PeersStarted' = PeersStarted
        BY <2>2, <3>1 DEF PeersStarted, ProdInv, ProdTypeOK
      <3>. QED
        BY <1>1, <3>2 DEF Barrier!barrierVars
    <2>. QED
      BY <1>4, <2>1, <2>2 DEF PeerSync
  <1>5. CASE PeerSend(p)
    <2>1. PeersStarted' = PeersStarted
      BY <1>5 DEF PeerSend, PeerSendStep, PeersStarted, ProdInv, ProdTypeOK
    <2>. QED
      BY <1>1, <2>1 DEF Barrier!barrierVars
  <1>6. CASE Crash(p)
    <2>1. PeersStarted' = PeersStarted \ {p}
      BY <1>6 DEF Crash, PeersStarted, ProdInv, ProdTypeOK
    <2>. QED
      BY <1>1, <2>1 DEF Barrier!BarrierNext, Barrier!GiveUp
  <1>. QED
    BY <1>2, <1>3, <1>4, <1>5, <1>6 DEF PeerStep

\* The production network implements the barrier, whatever the configuration
\* and whoever crashes.
THEOREM SetupIsBarrier == ProdSpec => ImplementsBarrier
  <1>1. ProdInv /\ [ProdNext]_prodVars => [Barrier!BarrierNext]_(Barrier!barrierVars)
    <2>. SUFFICES ASSUME ProdInv, [ProdNext]_prodVars
                  PROVE  [Barrier!BarrierNext]_(Barrier!barrierVars)
      OBVIOUS
    <2>1. CASE UNCHANGED prodVars
      BY <2>1, QueuesSame, StartedSame DEF prodVars, Barrier!barrierVars
    <2>2. CASE ProdNext
      BY <2>2, KingIsBarrier, PeerIsBarrier DEF ProdNext
    <2>. QED
      BY <2>1, <2>2
  <1>. QED
    BY <1>1, InitIsBarrier, SetupInvariant, PTL DEF ProdSpec, ImplementsBarrier, Barrier!BarrierSpec

-----------------------------------------------------------------------------
(***************************************************************************)
(* The mesh.                                                               *)
(***************************************************************************)
\* The first of the queue leaves it, and the others move up.
LEMMA QueueMoves ==
  ASSUME NEW S, NEW s \in Seq(S), s # <<>>
  PROVE  /\ Tail(s) \in Seq(S) /\ 1 \in DOMAIN s /\ Head(s) = s[1] /\ Head(s) \in S
         /\ \A k \in DOMAIN Tail(s) : k \in Nat \ {0} /\ k + 1 \in DOMAIN s /\ Tail(s)[k] = s[k + 1]
  OBVIOUS

\* The nodes are numbers.
LEMMA NodesAreNumbers == Nodes \subseteq Nat /\ 0 \in Nodes /\ Parties \in Nat
  BY PartiesAssumption DEF Nodes

\* All the nodes before one, counted, are all of them.
LEMMA AllBefore ==
  ASSUME NEW q \in Nat, NEW S, Cardinality(S \cap 0 .. q - 1) = q
  PROVE  0 .. q - 1 \subseteq S
  <1>1. IsFiniteSet(0 .. q - 1) /\ Cardinality(0 .. q - 1) = q
    BY FS_Interval
  <1>2. S \cap 0 .. q - 1 \in SUBSET (0 .. q - 1)
    OBVIOUS
  <1>3. S \cap 0 .. q - 1 = 0 .. q - 1
    BY <1>1, <1>2, FS_Subset
  <1>. QED
    BY <1>3

\* Nobody is connected to anybody yet.
LEMMA InitInv == MeshInit => MeshInv
  <1>. SUFFICES ASSUME MeshInit PROVE MeshInv
    OBVIOUS
  <1>. USE NodesAreNumbers DEF MeshInit
  <1>1. MeshTypeOK /\ PendingInv
    BY DEF MeshTypeOK, PendingInv, QueueInv
  <1>2. StreamsInv
    <2>1. \A p \in Nodes : dialled[p] <= Outbound(p)
      BY DEF Outbound, Nodes
    <2>2. \A q \in Nodes : streams[q] \cap 0 .. q - 1 = {}
      OBVIOUS
    <2>3. \A q \in Nodes : Cardinality(streams[q] \cap 0 .. q - 1) = accepted[q]
      BY <2>2, FS_EmptySet
    <2>. QED
      BY <2>1, <2>3 DEF StreamsInv, Dialled
  <1>3. JoinedInv /\ AnswersInv
    BY DEF JoinedInv, AnswersInv
  <1>. QED
    BY <1>1, <1>2, <1>3 DEF MeshInv

\* A node dials the next one: it has not been in its queue before.
LEMMA DialInv ==
  ASSUME MeshInv, NEW p \in Nodes, Dial(p)
  PROVE  MeshInv'
  <1>. USE NodesAreNumbers DEF MeshInv
  <1>1. PICK q : q = p + dialled[p] + 1
    OBVIOUS
  <1>2. /\ meshPc[p] = "connecting" /\ dialled[p] < Outbound(p)
        /\ pending' = [pending EXCEPT ![q] = Append(@, p)]
        /\ streams' = [streams EXCEPT ![p] = @ \cup {q}]
        /\ dialled' = [dialled EXCEPT ![p] = @ + 1]
        /\ UNCHANGED <<meshPc, accepted, genesis, shares, answered, outcome>>
    BY <1>1 DEF Dial, genesisVars
  <1>3. q \in Nodes /\ p < q /\ p # q /\ dialled[p] \in Nat
    <2>1. dialled[p] \in Nat
      BY DEF MeshTypeOK
    <2>2. p \in 0 .. Parties - 1 /\ dialled[p] < Parties - 1 - p
      BY <1>2 DEF Outbound, Nodes
    <2>3. q \in 0 .. Parties - 1 /\ p < q /\ p # q
      BY <1>1, <2>1, <2>2
    <2>. QED
      BY <2>1, <2>3 DEF Nodes
  <1>4. /\ ~ Dialled(p, q)
        /\ \A x, y \in Nodes : Dialled(x, y)' <=> Dialled(x, y) \/ (x = p /\ y = q)
    <2>1. \A x \in Nodes : dialled'[x] = IF x = p THEN dialled[p] + 1 ELSE dialled[x]
      BY <1>2 DEF MeshTypeOK
    <2>2. ASSUME NEW x \in Nodes, NEW y \in Nodes
          PROVE  Dialled(x, y)' <=> Dialled(x, y) \/ (x = p /\ y = q)
      <3>1. x \in Nat /\ y \in Nat /\ p \in Nat /\ q \in Nat /\ dialled[x] \in Nat
        BY <1>3 DEF MeshTypeOK
      <3>2. CASE x = p
        BY <1>1, <1>3, <2>1, <3>1, <3>2 DEF Dialled
      <3>3. CASE x # p
        BY <2>1, <3>1, <3>3 DEF Dialled
      <3>. QED
        BY <3>2, <3>3
    <2>3. ~ Dialled(p, q)
      BY <1>1, <1>3 DEF Dialled
    <2>. QED
      BY <2>2, <2>3
  <1>5. p \notin streams[q] /\ \A k \in DOMAIN pending[q] : pending[q][k] # p
    BY <1>3, <1>4 DEF StreamsInv, PendingInv, QueueInv
  <1>6. /\ pending[q] \in Seq(Nodes) /\ pending'[q] = Append(pending[q], p)
        /\ pending'[q] \in Seq(Nodes)
        /\ DOMAIN pending'[q] = DOMAIN pending[q] \cup {Len(pending[q]) + 1}
        /\ \A k \in DOMAIN pending[q] : pending'[q][k] = pending[q][k]
        /\ pending'[q][Len(pending[q]) + 1] = p
        /\ \A x \in Nodes : x # q => pending'[x] = pending[x]
    <2>1. pending[q] \in Seq(Nodes) /\ pending'[q] = Append(pending[q], p)
      BY <1>2, <1>3 DEF MeshTypeOK
    <2>2. \A x \in Nodes : x # q => pending'[x] = pending[x]
      BY <1>2 DEF MeshTypeOK
    <2>3. /\ Append(pending[q], p) \in Seq(Nodes)
          /\ DOMAIN Append(pending[q], p) = DOMAIN pending[q] \cup {Len(pending[q]) + 1}
          /\ \A k \in DOMAIN pending[q] : Append(pending[q], p)[k] = pending[q][k]
          /\ Append(pending[q], p)[Len(pending[q]) + 1] = p
      BY <2>1, Arrival
    <2>4. PICK t : t = Append(pending[q], p)
      OBVIOUS
    <2>. QED
      BY <2>1, <2>2, <2>3, <2>4
  <1>7. \A x \in Nodes : streams'[x] = IF x = p THEN streams[p] \cup {q} ELSE streams[x]
    BY <1>2 DEF MeshTypeOK
  <1>8. MeshTypeOK'
    <2>1. streams' \in [Nodes -> SUBSET Nodes]
      BY <1>2, <1>3 DEF MeshTypeOK
    <2>2. pending' \in [Nodes -> Seq(Nodes)]
      BY <1>2, <1>3, <1>6 DEF MeshTypeOK
    <2>3. dialled' \in [Nodes -> Nat]
      BY <1>2, <1>3 DEF MeshTypeOK
    <2>. QED
      BY <1>2, <2>1, <2>2, <2>3 DEF MeshTypeOK
  <1>9. ASSUME NEW x \in Nodes PROVE QueueInv(pending[x], x)'
    <2>1. QueueInv(pending[x], x) /\ pending[x] \in Seq(Nodes)
      BY DEF PendingInv, MeshTypeOK
    <2>2. PICK s : s = pending[x]
      OBVIOUS
    <2>3. PICK t : t = pending'[x]
      OBVIOUS
    <2>4. /\ \A i, j \in DOMAIN s : s[i] = s[j] => i = j
          /\ \A k \in DOMAIN s : s[k] \in Nodes /\ Dialled(s[k], x) /\ s[k] \notin streams[x]
      BY <2>1, <2>2 DEF QueueInv
    <2>5. CASE x = q
      <3>1. /\ DOMAIN t = DOMAIN s \cup {Len(s) + 1} /\ t[Len(s) + 1] = p
            /\ \A k \in DOMAIN s : t[k] = s[k] /\ s[k] # p
        BY <1>5, <1>6, <2>2, <2>3, <2>5
      <3>2. \A i, j \in DOMAIN t : t[i] = t[j] => i = j
        BY <2>4, <3>1
      <3>3. streams'[q] = streams[q]
        BY <1>3, <1>7
      <3>4. \A k \in DOMAIN t : Dialled(t[k], x)' /\ t[k] \notin streams'[x]
        BY <1>3, <1>4, <1>5, <2>4, <2>5, <3>1, <3>3
      <3>. QED
        BY <2>3, <3>2, <3>4 DEF QueueInv
    <2>6. CASE x # q
      <3>1. t = s
        BY <1>6, <2>2, <2>3, <2>6
      <3>2. ASSUME NEW k \in DOMAIN s PROVE s[k] # q \/ x # p
        <4>1. Dialled(s[k], x)
          BY <2>4
        <4>2. ~ Dialled(q, p)
          BY <1>3 DEF Dialled
        <4>. QED
          BY <4>1, <4>2
      <3>3. ASSUME NEW k \in DOMAIN t PROVE Dialled(t[k], x)' /\ t[k] \notin streams'[x]
        <4>1. /\ t[k] \in Nodes /\ Dialled(t[k], x) /\ t[k] \notin streams[x]
              /\ t[k] # q \/ x # p
          BY <2>4, <3>1, <3>2
        <4>. QED
          BY <1>4, <1>7, <4>1
      <3>. QED
        BY <2>3, <2>4, <3>1, <3>3 DEF QueueInv
    <2>. QED
      BY <2>5, <2>6
  <1>10. StreamsInv'
    <2>1. ASSUME NEW x \in Nodes PROVE dialled'[x] <= Outbound(x)
      <3>1. dialled'[x] = IF x = p THEN dialled[p] + 1 ELSE dialled[x]
        BY <1>2 DEF MeshTypeOK
      <3>2. p \in Nat /\ dialled[x] <= Outbound(x)
        BY DEF StreamsInv
      <3>. QED
        BY <1>2, <1>3, <3>1, <3>2 DEF Outbound
    <2>2. \A x, y \in Nodes : Dialled(x, y)' => y \in streams'[x]
      BY <1>4, <1>7 DEF StreamsInv
    <2>3. \A x, y \in Nodes : x < y /\ x \in streams'[y] => Dialled(x, y)'
      BY <1>3, <1>4, <1>7 DEF StreamsInv
    <2>4. \A x \in Nodes : streams'[x] \cap 0 .. x - 1 = streams[x] \cap 0 .. x - 1
      BY <1>3, <1>7
    <2>5. \A x \in Nodes : Cardinality(streams'[x] \cap 0 .. x - 1) = accepted'[x]
      BY <1>2, <2>4 DEF StreamsInv
    <2>. QED
      BY <2>1, <2>2, <2>3, <2>5 DEF StreamsInv
  <1>11. JoinedInv' /\ AnswersInv'
    BY <1>2 DEF JoinedInv, AnswersInv, MeshTypeOK
  <1>. QED
    BY <1>8, <1>9, <1>10, <1>11 DEF PendingInv

\* A node accepts the first of its queue: one more stream to the nodes before.
LEMMA MeshAcceptInv ==
  ASSUME MeshInv, NEW q \in Nodes, Accept(q)
  PROVE  MeshInv'
  <1>. USE NodesAreNumbers DEF MeshInv
  <1>1. PICK p : p = Head(pending[q])
    OBVIOUS
  <1>2. /\ meshPc[q] = "connecting" /\ pending[q] # <<>>
        /\ streams' = [streams EXCEPT ![q] = @ \cup {p}]
        /\ pending' = [pending EXCEPT ![q] = Tail(@)]
        /\ accepted' = [accepted EXCEPT ![q] = @ + 1]
        /\ UNCHANGED <<meshPc, dialled, genesis, shares, answered, outcome>>
    BY <1>1 DEF Accept, genesisVars
  <1>3. /\ pending[q] \in Seq(Nodes) /\ Tail(pending[q]) \in Seq(Nodes) /\ p \in Nodes
        /\ 1 \in DOMAIN pending[q] /\ p = pending[q][1]
        /\ \A k \in DOMAIN Tail(pending[q]) :
             k \in Nat \ {0} /\ k + 1 \in DOMAIN pending[q] /\ Tail(pending[q])[k] = pending[q][k + 1]
    BY <1>1, <1>2, QueueMoves DEF MeshTypeOK
  <1>4. Dialled(p, q) /\ p \notin streams[q] /\ p < q
    BY <1>3 DEF PendingInv, QueueInv, Dialled
  <1>5. \A x \in Nodes : streams'[x] = IF x = q THEN streams[q] \cup {p} ELSE streams[x]
    BY <1>2 DEF MeshTypeOK
  <1>6. \A x, y \in Nodes : Dialled(x, y)' <=> Dialled(x, y)
    BY <1>2 DEF Dialled
  <1>7. MeshTypeOK'
    <2>1. streams' \in [Nodes -> SUBSET Nodes]
      BY <1>2, <1>3 DEF MeshTypeOK
    <2>2. pending' \in [Nodes -> Seq(Nodes)]
      BY <1>2, <1>3 DEF MeshTypeOK
    <2>3. accepted' \in [Nodes -> Nat]
      BY <1>2 DEF MeshTypeOK
    <2>. QED
      BY <1>2, <2>1, <2>2, <2>3 DEF MeshTypeOK
  <1>8. ASSUME NEW x \in Nodes PROVE QueueInv(pending[x], x)'
    <2>1. QueueInv(pending[x], x) /\ pending[x] \in Seq(Nodes)
      BY DEF PendingInv, MeshTypeOK
    <2>2. PICK s : s = pending[x]
      OBVIOUS
    <2>3. PICK t : t = pending'[x]
      OBVIOUS
    <2>4. /\ \A i, j \in DOMAIN s : s[i] = s[j] => i = j
          /\ \A k \in DOMAIN s : s[k] \in Nodes /\ Dialled(s[k], x) /\ s[k] \notin streams[x]
      BY <2>1, <2>2 DEF QueueInv
    <2>5. CASE x = q
      <3>1. t = Tail(s)
        BY <1>2, <2>2, <2>3, <2>5 DEF MeshTypeOK
      <3>2. /\ 1 \in DOMAIN s /\ p = s[1]
            /\ \A k \in DOMAIN t : k \in Nat \ {0} /\ k + 1 \in DOMAIN s /\ t[k] = s[k + 1]
        BY <1>3, <2>2, <2>5, <3>1
      <3>3. ASSUME NEW k \in DOMAIN t PROVE t[k] # p
        <4>1. k + 1 # 1 /\ k + 1 \in DOMAIN s
          BY <3>2
        <4>. QED
          BY <2>4, <3>2, <4>1
      <3>4. ASSUME NEW i \in DOMAIN t, NEW j \in DOMAIN t, t[i] = t[j] PROVE i = j
        <4>1. i + 1 = j + 1
          BY <2>4, <3>2, <3>4
        <4>. QED
          BY <3>2, <4>1
      <3>5. ASSUME NEW k \in DOMAIN t PROVE Dialled(t[k], x)' /\ t[k] \notin streams'[x]
        <4>1. t[k] \in Nodes /\ Dialled(t[k], x) /\ t[k] \notin streams[x]
          BY <2>4, <3>2
        <4>. QED
          BY <1>5, <1>6, <2>5, <3>3, <4>1
      <3>. QED
        BY <2>3, <3>4, <3>5 DEF QueueInv
    <2>6. CASE x # q
      <3>1. t = s /\ streams'[x] = streams[x]
        BY <1>2, <1>5, <2>2, <2>3, <2>6 DEF MeshTypeOK
      <3>2. \A k \in DOMAIN t : Dialled(t[k], x)' /\ t[k] \notin streams'[x]
        BY <1>6, <2>4, <3>1
      <3>. QED
        BY <2>3, <2>4, <3>1, <3>2 DEF QueueInv
    <2>. QED
      BY <2>5, <2>6
  <1>9. StreamsInv'
    <2>1. \A x \in Nodes : dialled'[x] <= Outbound(x)
      BY <1>2 DEF StreamsInv
    <2>2. \A x, y \in Nodes : Dialled(x, y)' => y \in streams'[x]
      BY <1>5, <1>6 DEF StreamsInv
    <2>3. \A x, y \in Nodes : x < y /\ x \in streams'[y] => Dialled(x, y)'
      BY <1>4, <1>5, <1>6 DEF StreamsInv
    <2>4. ASSUME NEW x \in Nodes PROVE Cardinality(streams'[x] \cap 0 .. x - 1) = accepted'[x]
      <3>1. CASE x # q
        BY <1>2, <1>5, <3>1 DEF StreamsInv, MeshTypeOK
      <3>2. CASE x = q
        <4>1. streams'[q] \cap 0 .. q - 1 = (streams[q] \cap 0 .. q - 1) \cup {p}
          BY <1>3, <1>4, <1>5
        <4>2. IsFiniteSet(streams[q] \cap 0 .. q - 1)
          <5>1. IsFiniteSet(0 .. q - 1)
            BY FS_Interval
          <5>. QED
            BY <5>1, FS_Subset
        <4>3. Cardinality(streams'[q] \cap 0 .. q - 1) = Cardinality(streams[q] \cap 0 .. q - 1) + 1
          BY <1>4, <4>1, <4>2, FS_AddElement
        <4>4. accepted'[q] = accepted[q] + 1
          BY <1>2 DEF MeshTypeOK
        <4>. QED
          BY <3>2, <4>3, <4>4 DEF StreamsInv
      <3>. QED
        BY <3>1, <3>2
    <2>. QED
      BY <2>1, <2>2, <2>3, <2>4 DEF StreamsInv
  <1>10. JoinedInv' /\ AnswersInv'
    BY <1>2 DEF JoinedInv, AnswersInv, MeshTypeOK
  <1>. QED
    BY <1>7, <1>8, <1>9, <1>10 DEF PendingInv

\* Whoever has joined has a stream with every other node: it dialled those of
\* higher id, and accepted as many as there are of lower id.
LEMMA JoinedHaveStreams ==
  ASSUME MeshInv, NEW p \in Nodes, meshPc[p] # "connecting"
  PROVE  HasStreams(p)
  <1>. SUFFICES ASSUME NEW q \in Nodes, p # q PROVE q \in streams[p]
    BY DEF HasStreams
  <1>. USE NodesAreNumbers DEF MeshInv
  <1>1. accepted[p] = p /\ dialled[p] = Parties - 1 - p
    BY DEF JoinedInv, Inbound, Outbound
  <1>2. CASE q < p
    <2>1. 0 .. p - 1 \subseteq streams[p]
      BY <1>1, AllBefore DEF StreamsInv
    <2>. QED
      BY <1>2, <2>1
  <1>3. CASE p < q
    BY <1>1, <1>3 DEF StreamsInv, Dialled, Nodes
  <1>. QED
    BY <1>2, <1>3

\* The nodes, counted.
LEMMA NodesCounted ==
  ASSUME NEW S, S \subseteq Nodes
  PROVE  /\ IsFiniteSet(S) /\ Cardinality(S) \in Nat
         /\ Cardinality(S) >= Parties => S = Nodes
  <1>1. IsFiniteSet(Nodes) /\ Cardinality(Nodes) = Parties
    BY PartiesAssumption, FS_Interval DEF Nodes
  <1>2. S \in SUBSET Nodes
    OBVIOUS
  <1>3. IsFiniteSet(S) /\ Cardinality(S) <= Parties /\ (Cardinality(S) = Parties => S = Nodes)
    BY <1>1, <1>2, FS_Subset
  <1>4. Cardinality(S) \in Nat
    BY <1>3, FS_CardinalityType
  <1>. QED
    BY <1>3, <1>4, PartiesAssumption

\* A node that has joined passes its last check.
LEMMA LastCheckPasses ==
  ASSUME MeshInv, NEW p \in Nodes, meshPc[p] # "connecting", LastCheck(p)
  PROVE  /\ meshPc' = [meshPc EXCEPT ![p] = "ready"]
         /\ UNCHANGED <<pending, accepted, dialled, streams, genesis, shares, answered, outcome>>
  BY JoinedHaveStreams DEF LastCheck

\* The other steps move nodes on and leave the connections alone.
LEMMA GenesisInv ==
  ASSUME MeshInv,
         \/ \E p \in Nodes : Joined(p) \/ GenesisAnswer(p)
         \/ GenesisStep
         \/ UNCHANGED meshVars
  PROVE  MeshInv'
  <1>. USE NodesAreNumbers DEF MeshInv
  <1>1. UNCHANGED <<pending, accepted, dialled, streams>>
    BY DEF Joined, GenesisAnswer, GenesisStep, KingCollects, KingAnswers, KingDone, LastCheck, meshVars
  <1>2. PendingInv' /\ StreamsInv'
    BY <1>1 DEF PendingInv, QueueInv, StreamsInv, Dialled
  <1> DEFINE Rest == MeshTypeOK' /\ JoinedInv' /\ AnswersInv'
  <1>3. ASSUME NEW p \in Nodes, Joined(p) PROVE Rest
    <2>1. MeshTypeOK'
      BY <1>1, <1>3 DEF Joined, MeshTypeOK, Clients
    <2>2. /\ \A q \in Nodes : q # p => meshPc'[q] = meshPc[q]
          /\ meshPc'[p] = IF p = 0 THEN "genesis" ELSE "await"
          /\ meshPc[p] = "connecting"
          /\ accepted[p] = Inbound(p) /\ dialled[p] = Outbound(p)
      BY <1>3 DEF Joined, MeshTypeOK
    <2>3. /\ genesis \subseteq Nodes /\ genesis \subseteq genesis'
          /\ genesis' \subseteq genesis \cup {p}
          /\ UNCHANGED <<shares, answered, outcome>>
      BY <1>3 DEF Joined, MeshTypeOK, Clients
    <2>4. JoinedInv'
      BY <1>1, <2>2, <2>3 DEF JoinedInv
    <2>5. AnswersInv'
      BY <2>2, <2>3 DEF AnswersInv
    <2>. QED
      BY <2>1, <2>4, <2>5
  <1>4. ASSUME NEW p \in Nodes, meshPc[p] # "connecting", LastCheck(p),
               p = 0 => answered = Parties - 1
        PROVE  Rest
    <2>1. /\ meshPc' = [meshPc EXCEPT ![p] = "ready"]
          /\ UNCHANGED <<genesis, shares, answered, outcome>>
      BY <1>4, LastCheckPasses
    <2>2. MeshTypeOK'
      BY <1>1, <2>1 DEF MeshTypeOK
    <2>3. \A q \in Nodes : meshPc'[q] = IF q = p THEN "ready" ELSE meshPc[q]
      BY <2>1 DEF MeshTypeOK
    <2>4. JoinedInv'
      <3>1. genesis \subseteq Nodes
        BY DEF MeshTypeOK, Clients
      <3>. QED
        BY <1>1, <1>4, <2>1, <2>3, <3>1 DEF JoinedInv
    <2>5. AnswersInv'
      BY <1>4, <2>1, <2>3 DEF AnswersInv
    <2>. QED
      BY <2>2, <2>4, <2>5
  <1>5. ASSUME NEW p \in Nodes, GenesisAnswer(p) PROVE Rest
    <2>1. p # 0
      <3>1. meshPc[0] # "await"
        BY DEF JoinedInv
      <3>. QED
        BY <1>5, <3>1 DEF GenesisAnswer
    <2>. QED
      BY <1>4, <1>5, <2>1 DEF GenesisAnswer
  <1>6. ASSUME KingDone PROVE Rest
    BY <1>4, <1>6 DEF KingDone
  <1>7. ASSUME KingCollects PROVE Rest
    <2>1. PICK arrived \in SUBSET genesis : shares' = arrived \cup {0}
      BY <1>7 DEF KingCollects
    <2>2. /\ meshPc[0] = "genesis" /\ UNCHANGED <<genesis, answered, outcome>>
          /\ \A q \in Nodes : meshPc'[q] = IF q = 0 THEN "answering" ELSE meshPc[q]
      BY <1>7 DEF KingCollects, MeshTypeOK
    <2>3. MeshTypeOK'
      BY <1>1, <1>7, <2>1 DEF KingCollects, MeshTypeOK, Clients
    <2>4. JoinedInv'
      <3>1. genesis \subseteq Nodes
        BY DEF MeshTypeOK, Clients
      <3>. QED
        BY <1>1, <2>2, <3>1 DEF JoinedInv
    <2>5. AnswersInv'
      BY <2>1, <2>2 DEF AnswersInv
    <2>. QED
      BY <2>3, <2>4, <2>5
  <1>8. ASSUME KingAnswers PROVE Rest
    <2>1. UNCHANGED <<meshPc, genesis, shares>> /\ meshPc[0] = "answering"
      BY <1>8 DEF KingAnswers
    <2>2. \/ answered' = answered + 1 /\ UNCHANGED outcome /\ answered + 1 < Cardinality(shares)
          \/ answered' = answered /\ outcome' = "panicked"
      BY <1>8 DEF KingAnswers, HasAnswer
    <2>3. MeshTypeOK'
      BY <1>1, <2>1, <2>2 DEF MeshTypeOK
    <2>4. JoinedInv'
      BY <1>1, <2>1, <2>2 DEF JoinedInv
    <2>5. AnswersInv'
      BY <2>1, <2>2 DEF AnswersInv
    <2>. QED
      BY <2>3, <2>4, <2>5
  <1>9. ASSUME UNCHANGED meshVars PROVE Rest
    BY <1>9 DEF meshVars, MeshTypeOK, JoinedInv, AnswersInv
  <1>10. Rest
    BY <1>3, <1>5, <1>6, <1>7, <1>8, <1>9 DEF GenesisStep
  <1>. QED
    BY <1>2, <1>10

\* The invariant holds of every mesh.
THEOREM MeshInvariant == MeshSpec => []MeshInv
  <1>1. MeshInv /\ [MeshNext]_meshVars => MeshInv'
    BY DialInv, MeshAcceptInv, GenesisInv DEF MeshNext, MeshStep
  <1>. QED
    BY <1>1, InitInv, PTL DEF MeshSpec

\* The king is ready only when every two nodes have streams with each other
\* (multi.rs:246), a node that is ready before that comes with a king who lacks
\* a share, and no node misses a stream after the round (multi.rs:278).
THEOREM NoMeshIsIncomplete == MeshSpec => []NoIncompleteMesh
  <1>1. MeshInv => NoIncompleteMesh
    <2>. SUFFICES ASSUME MeshInv PROVE NoIncompleteMesh
      OBVIOUS
    <2>. USE NodesAreNumbers DEF MeshInv
    <2>1. shares = Nodes => Complete
      <3>. SUFFICES ASSUME shares = Nodes, NEW p \in Nodes PROVE HasStreams(p)
        BY DEF Complete
      <3>1. meshPc[p] # "connecting"
        BY DEF AnswersInv, JoinedInv
      <3>. QED
        BY <3>1, JoinedHaveStreams
    <2>2. ASSUME meshPc[0] = "ready" PROVE Complete
      <3>1. answered = Parties - 1
        BY <2>2 DEF AnswersInv
      <3>2. CASE Parties = 1
        BY <3>2 DEF Complete, HasStreams, Nodes
      <3>3. CASE Parties > 1
        <4>1. shares \subseteq Nodes /\ answered < Cardinality(shares)
          BY <3>1, <3>3 DEF AnswersInv, MeshTypeOK
        <4>2. Cardinality(shares) \in Nat /\ (Cardinality(shares) >= Parties => shares = Nodes)
          BY <4>1, NodesCounted
        <4>3. Cardinality(shares) >= Parties
          BY <3>1, <4>1, <4>2
        <4>. QED
          BY <2>1, <4>2, <4>3
      <3>. QED
        BY <3>2, <3>3, PartiesAssumption
    <2>3. outcome # "failed"
      BY DEF JoinedInv
    <2>. QED
      BY <2>1, <2>2, <2>3 DEF NoIncompleteMesh
  <1>. QED
    BY <1>1, MeshInvariant, PTL

=============================================================================
