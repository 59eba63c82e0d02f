--------------------------- MODULE MCProofSession ---------------------------
(***************************************************************************)
(* Instances of ProofSession for TLC.  N = 4, T = 1 is the smallest        *)
(* packing, l = 1.                                                         *)
(***************************************************************************)
EXTENDS ProofSession, ProofProgram

NobodySlow == {}
TwoSlow == {1, N - 1}

OneSid == {0}
ThreeSids == {0, 1, 2}

FullProgram == CircomProgram(FALSE)
\* Three rounds on one stream.
PointRounds == Vec({0}) \o ComputeA \o ComputeBInG2

\* L = 1 is the packing factor of N = 4, T = 1.
EnoughSharesForL1 == EnoughShares(1)

=============================================================================
