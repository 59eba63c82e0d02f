------------------------------ MODULE MeshNet ------------------------------
(***************************************************************************)
(* The mesh networks: every node dials the nodes of higher id while it     *)
(* accepts those of lower id, and then takes part in a genesis round with  *)
(* node 0, which may time out.  All nodes are set up inside one task.      *)
(***************************************************************************)
EXTENDS Integers, Sequences, FiniteSets

CONSTANT Parties   \* how many nodes
ASSUME PartiesAssumption == Parties \in Nat \ {0}

VARIABLES
  meshPc,      \* meshPc[p]: "connecting", "genesis", "answering", "await", "ready"
  pending,     \* pending[p]: the nodes that dialled p and were not accepted yet
  accepted,    \* accepted[p]: how many p has accepted
  dialled,     \* dialled[p]: how many p has dialled
  streams,     \* streams[p]: the nodes p has streams with
  genesis,     \* the nodes that sent the king their genesis message
  shares,      \* the nodes whose shares the king goes on with
  answered,    \* the clients 1 .. answered have an answer of the king
  outcome      \* "none", "panicked", or "failed" when a node returns an error

meshVars == <<meshPc, pending, accepted, dialled, streams, genesis, shares, answered, outcome>>
\* What only the genesis round changes.
genesisVars == <<genesis, shares, answered, outcome>>

Nodes == 0 .. Parties - 1
Clients == Nodes \ {0}

Outbound(p) == Parties - 1 - p
\* Variant: a node waits for itself as well.
InboundSelf(p) == p + 1
Inbound(p) == p

MeshInit ==
  /\ meshPc = [p \in Nodes |-> "connecting"]
  /\ pending = [p \in Nodes |-> <<>>]
  /\ accepted = [p \in Nodes |-> 0]
  /\ dialled = [p \in Nodes |-> 0]
  /\ streams = [p \in Nodes |-> {}]
  /\ genesis = {} /\ shares = {} /\ answered = 0
  /\ outcome = "none"

\* The client task: the listeners exist already, so that dialling succeeds.
Dial(p) ==
  /\ meshPc[p] = "connecting"
  /\ dialled[p] < Outbound(p)
  /\ LET q == p + dialled[p] + 1 IN
     /\ pending' = [pending EXCEPT ![q] = Append(@, p)]
     /\ streams' = [streams EXCEPT ![p] = @ \cup {q}]
  /\ dialled' = [dialled EXCEPT ![p] = @ + 1]
  /\ UNCHANGED <<meshPc, accepted, genesisVars>>

\* The server task: the node that dialled says who it is.
Accept(p) ==
  /\ meshPc[p] = "connecting"
  /\ accepted[p] < Inbound(p)
  /\ pending[p] # <<>>
  /\ streams' = [streams EXCEPT ![p] = @ \cup {Head(pending[p])}]
  /\ pending' = [pending EXCEPT ![p] = Tail(@)]
  /\ accepted' = [accepted EXCEPT ![p] = @ + 1]
  /\ UNCHANGED <<meshPc, dialled, genesisVars>>

\* Both tasks are done: a client sends its genesis message, the king collects.
Joined(p) ==
  /\ meshPc[p] = "connecting"
  /\ accepted[p] = Inbound(p) /\ dialled[p] = Outbound(p)
  /\ meshPc' = [meshPc EXCEPT ![p] = IF p = 0 THEN "genesis" ELSE "await"]
  /\ genesis' = IF p = 0 THEN genesis ELSE genesis \cup {p}
  /\ UNCHANGED <<pending, accepted, dialled, streams, shares, answered, outcome>>

\* The king has every message, or those that had arrived at the timeout.
KingCollects ==
  /\ meshPc[0] = "genesis"
  /\ \E arrived \in SUBSET genesis : shares' = arrived \cup {0}
  /\ meshPc' = [meshPc EXCEPT ![0] = "answering"]
  /\ UNCHANGED <<pending, accepted, dialled, streams, genesis, answered, outcome>>

\* Variant: whoever waits is answered.
HasAnswerAny(id) == TRUE
\* The shares are a vector, in any order, and indexed by node id.
HasAnswer(id) == id < Cardinality(shares)

\* One client after the other, whether it sent a share or not; the first index
\* past the shares panics.
KingAnswers ==
  /\ meshPc[0] = "answering"
  /\ answered < Parties - 1
  /\ IF HasAnswer(answered + 1)
     THEN answered' = answered + 1 /\ UNCHANGED outcome
     ELSE outcome' = "panicked" /\ UNCHANGED answered
  /\ UNCHANGED <<meshPc, pending, accepted, dialled, streams, genesis, shares>>

\* A node looks for a stream with every other one before it returns.
HasStreams(p) == Nodes \ {p} \subseteq streams[p]
LastCheck(p) ==
  /\ IF HasStreams(p)
     THEN meshPc' = [meshPc EXCEPT ![p] = "ready"] /\ UNCHANGED outcome
     ELSE outcome' = "failed" /\ UNCHANGED meshPc
  /\ UNCHANGED <<pending, accepted, dialled, streams, genesis, shares, answered>>

KingDone == meshPc[0] = "answering" /\ answered = Parties - 1 /\ LastCheck(0)
GenesisAnswer(p) == meshPc[p] = "await" /\ p <= answered /\ LastCheck(p)

MeshStep(p) == Dial(p) \/ Accept(p) \/ Joined(p) \/ GenesisAnswer(p)
GenesisStep == KingCollects \/ KingAnswers \/ KingDone
\* A panic unwinds the one task that runs them all, and an error drops the
\* others.
MeshNext ==
  /\ outcome = "none"
  /\ GenesisStep \/ \E p \in Nodes : MeshStep(p)

\* The one task that runs them all goes on as long as something is ready.
MeshSpec == MeshInit /\ [][MeshNext]_meshVars /\ WF_meshVars(MeshNext)

-----------------------------------------------------------------------------
Ready == {p \in Nodes : meshPc[p] = "ready"}

Complete == \A p \in Nodes : HasStreams(p)

\* The genesis round holds the king, although not the clients, until every two
\* nodes have streams with each other (multi.rs:246, "Do a round with the king,
\* to be sure everyone is ready"): a client may be ready before, but only if
\* the king goes on with fewer shares than nodes, and so will not be ready
\* himself.  The node that misses a stream after the round (multi.rs:278) is
\* never met.
NoIncompleteMesh ==
  /\ outcome # "failed"
  /\ meshPc[0] = "ready" => Complete
  /\ Ready # {} /\ ~ Complete => shares # Nodes

\* No node waits for a connection that nobody makes (multi.rs:180); a king who
\* has every share panics over none of them, and one who let a client go too
\* early panics, so that nobody gets an incomplete mesh.
MeshSettles ==
  /\ <>(outcome = "panicked" \/ Ready = Nodes)
  /\ shares = Nodes ~> Ready = Nodes
  /\ (Ready # {} /\ ~ Complete) ~> outcome = "panicked"

-----------------------------------------------------------------------------
(***************************************************************************)
(* The inductive invariant behind NoIncompleteMesh: counting connections is *)
(* enough, since no node is dialled or accepted twice.                     *)
(***************************************************************************)
MeshTypeOK ==
  /\ meshPc \in [Nodes -> {"connecting", "genesis", "answering", "await", "ready"}]
  /\ pending \in [Nodes -> Seq(Nodes)]
  /\ accepted \in [Nodes -> Nat]
  /\ dialled \in [Nodes -> Nat]
  /\ streams \in [Nodes -> SUBSET Nodes]
  /\ genesis \subseteq Clients
  /\ shares \subseteq Nodes
  /\ answered \in Nat
  /\ outcome \in {"none", "panicked", "failed"}

\* p has dialled q.
Dialled(p, q) == p < q /\ q <= p + dialled[p]

\* Whoever waits to be accepted has dialled, once, and was not accepted yet.
QueueInv(s, q) ==
  /\ \A i, j \in DOMAIN s : s[i] = s[j] => i = j
  /\ \A k \in DOMAIN s : Dialled(s[k], q) /\ s[k] \notin streams[q]
PendingInv == \A q \in Nodes : QueueInv(pending[q], q)

\* The streams are those to the nodes dialled, and as many as were accepted.
StreamsInv ==
  /\ \A p \in Nodes : dialled[p] <= Outbound(p)
  /\ \A p, q \in Nodes : Dialled(p, q) => q \in streams[p]
  /\ \A p, q \in Nodes : p < q /\ p \in streams[q] => Dialled(p, q)
  /\ \A q \in Nodes : Cardinality(streams[q] \cap 0 .. q - 1) = accepted[q]

JoinedInv ==
  /\ \A p \in Nodes : meshPc[p] # "connecting" =>
       accepted[p] = Inbound(p) /\ dialled[p] = Outbound(p)
  /\ \A p \in genesis : meshPc[p] # "connecting"
  /\ meshPc[0] # "await"
  /\ outcome # "failed"

\* The king knows of nobody who has not joined, and answers no more clients
\* than he has shares.
AnswersInv ==
  /\ shares \subseteq genesis \cup {0}
  /\ shares # {} => meshPc[0] # "connecting"
  /\ meshPc[0] \in {"connecting", "genesis"} => answered = 0
  /\ answered > 0 => answered < Cardinality(shares)
  /\ meshPc[0] = "ready" => answered = Parties - 1

MeshInv == MeshTypeOK /\ PendingInv /\ StreamsInv /\ JoinedInv /\ AnswersInv
=============================================================================
