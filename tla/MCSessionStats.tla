--------------------------- MODULE MCSessionStats ---------------------------
(***************************************************************************)
(* A session and its counters, with one client that may be late.           *)
(***************************************************************************)
EXTENDS SessionStats, ProofProgram

LastSlow == {N - 1}
TwoSids == {0, 1}
\* A round of vectors on two streams, then rounds of points in G1 and in G2,
\* so that a stale frame meets every other type.
LateProgram == Vec({0, 1}) \o ComputeA \o ComputeBInG2
=============================================================================
