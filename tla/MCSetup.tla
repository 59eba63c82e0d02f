------------------------------ MODULE MCSetup ------------------------------
(***************************************************************************)
(* The two ways a network is set up, one of them in every behaviour.       *)
(***************************************************************************)
EXTENDS ProdNet, MeshNet

CONSTANTS a, b, c
MCPeers == {a, b, c}
\* Every id once, or one id twice.
MCConfigs == {[p \in MCPeers |-> CASE p = a -> 1 [] p = b -> 2 [] p = c -> 3],
              [p \in MCPeers |-> CASE p = a -> 1 [] p = b -> 2 [] p = c -> 2]}

VARIABLE network
setupVars == <<network, prodVars, meshVars>>

InProd(A) == network = "prod" /\ A /\ UNCHANGED <<network, meshVars>>
InMesh(A) == network = "mesh" /\ A /\ UNCHANGED <<network, prodVars>>

SetupInit == network \in {"prod", "mesh"} /\ ProdInit /\ MeshInit
SetupNext == InProd(ProdNext) \/ InMesh(MeshNext)
SetupSpec ==
  /\ SetupInit /\ [][SetupNext]_setupVars
  /\ WF_setupVars(InProd(KingStep))
  /\ \A p \in Peers : WF_setupVars(InProd(PeerStep(p)))
  /\ WF_setupVars(InMesh(MeshNext))

\* Setting up a production network ends for everybody, or the king waits for a
\* peer that will not come (prod.rs:149).
ProdEnds == network = "prod" => SetupEnds
\* Setting up a mesh ends (multi.rs:180).
MeshEnds == network = "mesh" => MeshSettles
=============================================================================
