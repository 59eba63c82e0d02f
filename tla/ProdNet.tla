------------------------------ MODULE ProdNet ------------------------------
(***************************************************************************)
(* ProdNet: the king accepts one connection per peer, reads the id each    *)
(* peer announces, and synchronises with a Syn and a SynAck per peer, on   *)
(* the stream the first king round will use.  Connections are FIFO; a      *)
(* process may crash, which ends its connection.                           *)
(***************************************************************************)
EXTENDS Integers, Sequences, FiniteSets

CONSTANTS
  Peers,       \* the peer processes
  Configs,     \* the ways the peer processes may be configured with ids
  MaxCrashes   \* how many peer processes may crash

N == Cardinality(Peers) + 1
ASSUME PeersAssumption == IsFiniteSet(Peers) /\ Peers # {}
ASSUME ConfigsAssumption == Configs \subseteq [Peers -> 1 .. N - 1]

VARIABLES
  idOf,        \* idOf[p]: the id peer process p was configured with
  kingPc,      \* "start", "accept", "read", "syn", "ack", "ready" or "failed"
  backlog,     \* the processes that connected and were not accepted yet
  conns,       \* the accepted ones, in that order
  peers,       \* peers[id]: the process the king talks to under this id
  order,       \* the ids in the order the map iterates over them
  synced,      \* how many of order the current loop has gone through
  peerPc,      \* peerPc[p]: where peer p is
  open,        \* open[p]: neither end of p's connection is gone
  down,        \* down[p]: packets from the king to p
  up,          \* up[p]: packets from p to the king
  got          \* got[id]: the share the king received in its first round

prodVars == <<idOf, kingPc, backlog, conns, peers, order, synced, peerPc, open, down, up, got>>

-----------------------------------------------------------------------------
Syn == [type |-> "Syn"]
SynAck == [type |-> "SynAck"]
Announce(p) == [type |-> "Id", id |-> idOf[p]]
Share(p) == [type |-> "Packet", from |-> p]

Crashed == {p \in Peers : peerPc[p] = "crashed"}
\* The king gives up: its end of every connection goes away.
KingFails ==
  /\ kingPc' = "failed"
  /\ open' = [p \in Peers |-> FALSE]

ProdInit ==
  /\ idOf \in Configs
  /\ kingPc = "start"
  /\ backlog = <<>> /\ conns = <<>>
  /\ peers = [id \in {} |-> id]
  /\ order = <<>> /\ synced = 0
  /\ peerPc = [p \in Peers |-> "start"]
  /\ open = [p \in Peers |-> FALSE]
  /\ down = [p \in Peers |-> <<>>] /\ up = [p \in Peers |-> <<>>]
  /\ got = [id \in {} |-> id]

\* The king binds its listener.
KingBind ==
  /\ kingPc = "start"
  /\ kingPc' = "accept"
  /\ UNCHANGED <<backlog, conns, peers, order, synced, peerPc, open, down, up, got>>

\* A peer connects once: it is refused if the king does not listen (yet).
PeerConnect(p) ==
  /\ peerPc[p] = "start"
  /\ IF kingPc \in {"start", "failed", "protocol"}
     THEN peerPc' = [peerPc EXCEPT ![p] = "failed"] /\ UNCHANGED <<backlog, open>>
     ELSE /\ peerPc' = [peerPc EXCEPT ![p] = "handshake"]
          /\ backlog' = Append(backlog, p)
          /\ open' = [open EXCEPT ![p] = TRUE]
  /\ UNCHANGED <<kingPc, conns, peers, order, synced, down, up, got>>

\* Variant: one certificate less than there are.
LastAcceptEarly(k) == k = Cardinality(Peers) - 1
LastAccept(k) == k = Cardinality(Peers)

\* Variant: the king waits for another connection in place of a broken one.
BrokenIsSkipped == UNCHANGED <<kingPc, open>>
\* The king accepts as many connections as it trusts certificates; one failed
\* handshake ends it.
BrokenConnection == KingFails
KingAccept ==
  /\ kingPc = "accept"
  /\ backlog # <<>>
  /\ LET p == Head(backlog) IN
     IF open[p]
     THEN /\ conns' = Append(conns, p)
          /\ peerPc' = [peerPc EXCEPT ![p] = "announce"]
          /\ kingPc' = IF LastAccept(Len(conns) + 1) THEN "read" ELSE "accept"
          /\ UNCHANGED open
     ELSE BrokenConnection /\ UNCHANGED <<conns, peerPc>>
  /\ backlog' = Tail(backlog)
  /\ UNCHANGED <<peers, order, synced, down, up, got>>

\* Once accepted the peer writes its id and opens its streams, without waiting.
PeerAnnounce(p) ==
  /\ \/ /\ peerPc[p] = "announce" /\ open[p]
        /\ peerPc' = [peerPc EXCEPT ![p] = "syn"]
        /\ up' = [up EXCEPT ![p] = Append(@, Announce(p))]
     \/ /\ peerPc[p] \in {"handshake", "announce"} /\ ~ open[p]
        /\ peerPc' = [peerPc EXCEPT ![p] = "failed"]
        /\ UNCHANGED up
  /\ UNCHANGED <<kingPc, backlog, conns, peers, order, synced, open, down, got>>

\* Variant: peers are kept under the order of their connections.
PeerKeyByOrder(p, k) == k
PeerKey(p, k) == Head(up[p]).id

\* The king reads the ids in the order of the connections.  A peer under an id
\* already taken replaces the other one, whose streams are dropped.
Iterations(ids) == {o \in [1 .. Cardinality(ids) -> ids] : \A i, j \in DOMAIN o : i # j => o[i] # o[j]}
KingReadId ==
  /\ kingPc = "read"
  /\ LET p == conns[synced + 1] IN
     \/ /\ up[p] # <<>>
        /\ LET id == PeerKey(p, synced + 1) IN
           /\ peers' = [i \in DOMAIN peers \cup {id} |-> IF i = id THEN p ELSE peers[i]]
           /\ open' = [q \in Peers |-> open[q] /\ (id \in DOMAIN peers => q # peers[id])]
        /\ up' = [up EXCEPT ![p] = Tail(@)]
        /\ IF synced + 1 = Len(conns)
           THEN /\ kingPc' = "syn" /\ synced' = 0
                /\ order' \in Iterations(DOMAIN peers')
           ELSE synced' = synced + 1 /\ UNCHANGED <<kingPc, order>>
     \/ /\ ~ open[p]
        /\ KingFails
        /\ UNCHANGED <<peers, up, synced, order>>
  /\ UNCHANGED <<backlog, conns, peerPc, down, got>>

\* Syn to every peer; a send on a broken connection may fail.
KingSendSyn ==
  /\ kingPc = "syn"
  /\ LET p == peers[order[synced + 1]] IN
     \/ /\ down' = [down EXCEPT ![p] = Append(@, Syn)]
        /\ IF synced + 1 = Len(order)
           THEN kingPc' = "ack" /\ synced' = 0
           ELSE synced' = synced + 1 /\ UNCHANGED kingPc
        /\ UNCHANGED open
     \/ ~ open[p] /\ KingFails /\ UNCHANGED <<down, synced>>
  /\ UNCHANGED <<backlog, conns, peers, order, peerPc, up, got>>

\* A peer waits for Syn and answers SynAck; anything else is a protocol error.
PeerSync(p) ==
  /\ peerPc[p] = "syn"
  /\ \/ /\ down[p] # <<>>
        /\ down' = [down EXCEPT ![p] = Tail(@)]
        /\ IF Head(down[p]) = Syn
           THEN /\ peerPc' = [peerPc EXCEPT ![p] = "ready"]
                /\ up' = [up EXCEPT ![p] = Append(@, SynAck)]
           ELSE peerPc' = [peerPc EXCEPT ![p] = "protocol"] /\ UNCHANGED up
     \/ ~ open[p] /\ peerPc' = [peerPc EXCEPT ![p] = "failed"] /\ UNCHANGED <<down, up>>
  /\ UNCHANGED <<kingPc, backlog, conns, peers, order, synced, open, got>>

\* The king waits for the SynAcks one after the other.
KingAck ==
  /\ kingPc = "ack"
  /\ LET p == peers[order[synced + 1]] IN
     \/ /\ up[p] # <<>>
        /\ up' = [up EXCEPT ![p] = Tail(@)]
        /\ IF Head(up[p]) # SynAck
           THEN /\ kingPc' = "protocol"
                /\ open' = [q \in Peers |-> FALSE]
                /\ UNCHANGED synced
           ELSE /\ UNCHANGED open
                /\ IF synced + 1 = Len(order)
                   THEN kingPc' = "ready" /\ synced' = 0
                   ELSE synced' = synced + 1 /\ UNCHANGED kingPc
     \/ ~ open[p] /\ KingFails /\ UNCHANGED <<up, synced>>
  /\ UNCHANGED <<backlog, conns, peers, order, peerPc, down, got>>

-----------------------------------------------------------------------------
\* The first king round: a peer that is ready sends its share at once, whatever
\* the king still waits for.
PeerSendStep(p) ==
  /\ peerPc' = [peerPc EXCEPT ![p] = "sent"]
  /\ up' = [up EXCEPT ![p] = Append(@, Share(p))]
  /\ UNCHANGED <<kingPc, backlog, conns, peers, order, synced, open, down, got>>
\* Variant: a peer that does not synchronise first.
PeerSendUnsynced(p) == peerPc[p] = "syn" /\ PeerSendStep(p)
PeerSend(p) == peerPc[p] = "ready" /\ PeerSendStep(p)

\* The king receives from the peer it knows under id.
KingReceive(id) ==
  /\ kingPc = "ready"
  /\ id \in DOMAIN peers
  /\ id \notin DOMAIN got
  /\ LET p == peers[id] IN
     /\ up[p] # <<>>
     /\ up' = [up EXCEPT ![p] = Tail(@)]
     /\ IF Head(up[p]).type = "Packet"
        THEN got' = [i \in DOMAIN got \cup {id} |-> IF i = id THEN Head(up[p]).from ELSE got[i]]
             /\ UNCHANGED kingPc
        ELSE kingPc' = "protocol" /\ UNCHANGED got
  /\ UNCHANGED <<backlog, conns, peers, order, synced, peerPc, open, down>>

Crash(p) ==
  /\ Cardinality(Crashed) < MaxCrashes
  /\ peerPc[p] \notin {"failed", "crashed", "protocol"}
  /\ peerPc' = [peerPc EXCEPT ![p] = "crashed"]
  /\ open' = [open EXCEPT ![p] = FALSE]
  /\ UNCHANGED <<kingPc, backlog, conns, peers, order, synced, down, up, got>>

KingStep ==
  /\ \/ KingBind \/ KingAccept \/ KingReadId \/ KingSendSyn \/ KingAck
     \/ \E id \in 1 .. N - 1 : KingReceive(id)
  /\ UNCHANGED idOf
PeerStep(p) ==
  /\ PeerConnect(p) \/ PeerAnnounce(p) \/ PeerSync(p) \/ PeerSend(p)
  /\ UNCHANGED idOf
ProdNext == KingStep \/ \E p \in Peers : PeerStep(p) \/ (Crash(p) /\ UNCHANGED idOf)
\* Every process is scheduled; none has to crash.
ProdFairness == WF_prodVars(KingStep) /\ \A p \in Peers : WF_prodVars(PeerStep(p))

ProdSpec == ProdInit /\ [][ProdNext]_prodVars /\ ProdFairness

-----------------------------------------------------------------------------
KingPcs == {"start", "accept", "read", "syn", "ack", "ready", "failed", "protocol"}
PeerPcs == {"start", "handshake", "announce", "syn", "ready", "sent", "failed", "crashed", "protocol"}
Messages == {Announce(p) : p \in Peers} \cup {SynAck} \cup {Share(p) : p \in Peers}
ProdTypeOK ==
  /\ idOf \in Configs
  /\ kingPc \in KingPcs
  /\ peerPc \in [Peers -> PeerPcs]
  /\ open \in [Peers -> BOOLEAN]
  /\ synced \in Nat
  /\ conns \in Seq(Peers) /\ backlog \in Seq(Peers)
  /\ peers \in [DOMAIN peers -> Peers] /\ DOMAIN peers \subseteq 1 .. N - 1
  /\ down \in [Peers -> Seq({Syn})]
  /\ up \in [Peers -> Seq(Messages)]

Accepted == {conns[k] : k \in DOMAIN conns}
PeersStarted == {p \in Peers : peerPc[p] \in {"ready", "sent"}}

\* No peer returns from its constructor before every peer process has been
\* accepted, and the king returns only after every peer it knows has answered
\* (prod.rs:134, "Returns when all the parties have connected").
StartsTogether ==
  /\ PeersStarted # {} => Accepted = Peers
  /\ kingPc = "ready" => \A id \in DOMAIN peers :
                           peerPc[peers[id]] \in {"ready", "sent", "crashed"}

\* A peer that is released early sends its share on the stream the king still
\* reads SynAcks from: neither takes one packet for the other (prod.rs:266).
NothingIsMisread == kingPc # "protocol" /\ \A p \in Peers : peerPc[p] # "protocol"

\* The share the king files under an id was sent by a process configured with
\* that id, in whatever order the peers connected (prod.rs:215).
SharesAreAttributed == \A id \in DOMAIN got : idOf[got[id]] = id

\* Every process either starts or reports a failure, also when a connection
\* breaks before the king has greeted it: unless some peer never connects at
\* all, and the king, who has greeted the others, waits for it without limit
\* (prod.rs:149).
Waiting == {backlog[k] : k \in DOMAIN backlog}
Starved == kingPc = "accept" /\ backlog = <<>>
SetupEnds ==
  \/ <>(/\ kingPc \in {"ready", "failed", "protocol"}
        /\ \A p \in Peers : peerPc[p] \in {"sent", "failed", "crashed", "protocol"})
  \/ <>[]Starved /\ \E p \in Peers : [](p \notin Waiting \cup Accepted)

\* What the network promises abstractly.
Barrier == INSTANCE StartBarrier WITH
  Processes <- Peers, arrived <- Accepted, started <- PeersStarted
\* The peers start as the abstract barrier lets them (prod.rs:246, "Ensure all
\* peers are connected to the king").
ImplementsBarrier == Barrier!BarrierSpec

-----------------------------------------------------------------------------
(***************************************************************************)
(* The inductive invariant behind the safety properties and the barrier:   *)
(* how far the king has come decides what may still be on each stream.     *)
(***************************************************************************)
\* A process connects once and is accepted once, so that the king has all of
\* them when it has counted as many as it trusts.
ConnInv ==
  /\ \A i, j \in DOMAIN conns : conns[i] = conns[j] => i = j
  /\ \A i, j \in DOMAIN backlog : backlog[i] = backlog[j] => i = j
  /\ Accepted \cap Waiting = {}
  /\ \A p \in Accepted \cup Waiting : peerPc[p] # "start"
  /\ \A p \in Waiting : open[p] => peerPc[p] = "handshake"
  /\ kingPc \in {"start", "accept"} => synced = 0
  /\ kingPc = "read" => synced < Len(conns)
  /\ kingPc \in {"read", "syn", "ack", "ready"} => Accepted = Peers

\* The king keeps a process under the id it is configured with, and iterates
\* over all it keeps.
PeersInv ==
  /\ \A id \in DOMAIN peers : idOf[peers[id]] = id
  /\ kingPc \in {"syn", "ack"} =>
       /\ order \in Seq(DOMAIN peers)
       /\ \A id \in DOMAIN peers : \E k \in DOMAIN order : order[k] = id
       /\ \A i, j \in DOMAIN order : order[i] = order[j] => i = j
       /\ synced < Len(order)
  /\ got # [id \in {} |-> id] => kingPc \in {"ready", "failed"}
  /\ DOMAIN got \subseteq DOMAIN peers
  /\ \A id \in DOMAIN got : got[id] = peers[id]

\* Whoever has been released or has started knows that all were accepted.
ReleaseInv ==
  \A p \in Peers : down[p] # <<>> \/ p \in PeersStarted =>
    kingPc \in {"syn", "ack", "ready", "failed"} /\ Accepted = Peers

\* What the king has taken from a process: its id, its SynAck, its share.
IdRead(p) ==
  \/ kingPc = "read" /\ \E k \in 1 .. synced : conns[k] = p
  \/ kingPc \in {"syn", "ack", "ready"}
Acked(p) ==
  \/ kingPc = "ack" /\ \E k \in 1 .. synced : peers[order[k]] = p
  \/ kingPc = "ready" /\ \E id \in DOMAIN peers : peers[id] = p
Received(p) == \E id \in DOMAIN got : peers[id] = p

\* What may be on the stream of a process that has got as far as the king
\* knows: never one packet before another that the king expects first.
StreamInv(p) ==
  /\ ~ IdRead(p) => up[p] \in {<<>>, <<Announce(p)>>}
  /\ IdRead(p) /\ ~ Acked(p) => up[p] \in {<<>>, <<SynAck>>, <<SynAck, Share(p)>>}
  /\ Acked(p) /\ ~ Received(p) => up[p] \in {<<>>, <<Share(p)>>}
  /\ Received(p) => up[p] = <<>> /\ Acked(p)

\* And what the process itself has written by then.
WrittenInv(p) ==
  /\ peerPc[p] \in {"start", "handshake", "announce"} => up[p] = <<>> /\ ~ IdRead(p)
  /\ peerPc[p] = "syn" => up[p] \in {<<>>, <<Announce(p)>>}
  /\ peerPc[p] = "ready" => up[p] = IF Acked(p) THEN <<>> ELSE <<SynAck>>
  /\ Acked(p) => peerPc[p] \in {"ready", "sent", "crashed"}
  /\ up[p] \in {<<SynAck>>, <<SynAck, Share(p)>>} => peerPc[p] \in {"ready", "sent", "crashed"}
  /\ Received(p) => peerPc[p] \in {"sent", "crashed"}

ProdInv ==
  /\ ProdTypeOK
  /\ ConnInv
  /\ PeersInv
  /\ ReleaseInv
  /\ kingPc # "failed" => \A p \in Peers : StreamInv(p) /\ WrittenInv(p)
  /\ NothingIsMisread

=============================================================================
