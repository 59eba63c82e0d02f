---------------------------- MODULE ProofProgram ----------------------------
(***************************************************************************)
(* The programs of king rounds that the parties of a proof session run:    *)
(* for every stage, the streams of the rounds that are awaited together    *)
(* and the type of the shares they carry.                                  *)
(***************************************************************************)
EXTENDS Integers, Sequences

\* Rounds of vectors of field elements (d_ifft, d_fft, deg_red), and of one
\* curve point (d_msm).
Vec(sids) == << [sids |-> sids, kind |-> "vec"] >>
Point(sids, group) == << [sids |-> sids, kind |-> group] >>

\* Three inverse transforms, three transforms, and the degree reduction.
CircomH == Vec({0, 1, 2}) \o Vec({0, 1, 2}) \o Vec({0})

\* Three inverse transforms, three transforms, and the inverse transform of
\* the quotient.
LibsnarkH == Vec({0, 1, 2}) \o Vec({0, 1, 2}) \o Vec({0})

ComputeA == Point({0}, "g1")
\* Returns early when the share of r is zero.  All the parties hold the same
\* share of r, so they skip the round together.
ComputeBInG1(rIsZero) == IF rIsZero THEN << >> ELSE Point({0}, "g1")
ComputeBInG2 == Point({0}, "g2")
\* The two products over w and u are joined.
ComputeC == Point({0, 1}, "g1")

\* distributed_mpc_proof_generation up to the completion barrier.
CircomProgram(rIsZero) ==
  CircomH \o ComputeA \o ComputeBInG1(rIsZero) \o ComputeBInG2 \o ComputeC

=============================================================================
