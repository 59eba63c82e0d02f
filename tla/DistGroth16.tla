---------------------------- MODULE DistGroth16 ----------------------------
(***************************************************************************)
(* A Groth16 proof from shares, end to end: the client turns a witness     *)
(* into a QAP and shares it with the proving key, the parties compute h,   *)
(* A, B and C with the distributed primitives, and the client unpacks the  *)
(* proof.  A group element is its logarithm to the base of the generator,  *)
(* so that a pairing is a product.  Every share arrives in time here; the  *)
(* rounds themselves are ProofSession's.                                   *)
(***************************************************************************)
EXTENDS DistPrimitives

CONSTANTS
  Vars,      \* the variables of the circuit; the first one is 1
  NumInputs, \* so many of them are inputs, from the first on
  RowsA, RowsB, RowsC, \* the rows of the constraints: a function of the variables each
  Witnesses, \* assignments of the variables
  Toxic,     \* [tau, alpha, beta, gamma, delta]: the randomness of the setup
  Blinding,  \* [r, s]: the randomness of the proof
  Deals      \* [points, mask]: the randomness of the dealer and of the king

NumConstraints == Len(RowsA)

VARIABLES
  job,    \* [z, toxic, r, s, points, mask, reduction]
  phase,  \* what is computed next, or "proved", "panicked"
  key,    \* the proving key
  held,   \* the shares of the a, b and c of the QAP
  hRows,  \* the shares of h
  rShare, \* rShare[p]: the share of r, likewise of s
  sShare,
  pi      \* [a, b1, b2, c]: the shares of the proof

groth16Vars == <<job, phase, key, held, hRows, rShare, sShare, pi>>

-----------------------------------------------------------------------------
\* Arrays over the domain: rows of constraints, then a row for each input.
Row(row, z) == Total(Vars, LAMBDA j : row[j] * z[j])
Satisfied(z) == \A i \in 1 .. NumConstraints : (Row(RowsA[i], z) * Row(RowsB[i], z) - Row(RowsC[i], z)) % Q = 0

\* Variant: no rows for the inputs.
QapWithoutInputs(z) ==
  LET a == Eager([i \in 0 .. M - 1 |-> IF i < NumConstraints THEN Row(RowsA[i + 1], z) ELSE 0])
      b == Eager([i \in 0 .. M - 1 |-> IF i < NumConstraints THEN Row(RowsB[i + 1], z) ELSE 0])
  IN [a |-> a, b |-> b, c |-> Eager([i \in 0 .. M - 1 |-> (a[i] * b[i]) % Q])]
Qap(z) ==
  LET a == Eager([i \in 0 .. M - 1 |->
                    CASE i < NumConstraints -> Row(RowsA[i + 1], z)
                      [] i \in NumConstraints .. NumConstraints + NumInputs - 1 -> z[i - NumConstraints]
                      [] OTHER -> 0])
      b == Eager([i \in 0 .. M - 1 |-> IF i < NumConstraints THEN Row(RowsB[i + 1], z) ELSE 0])
  IN [a |-> a, b |-> b,
      c |-> Eager([i \in 0 .. M - 1 |-> IF i < NumConstraints THEN (a[i] * b[i]) % Q ELSE 0])]

\* The shares of one vector of the QAP.
QapShares(x, points) == Transpose(PackStrided(FftInPlaceRearrange(x), points))

\* l at a time, and the rest of them filled with zeros.
Chunks(v) ==
  Eager([c \in 0 .. (Size(v) + L - 1) \div L - 1 |->
     [i \in {k \in 0 .. L - 1 : c * L + k \in DOMAIN v} |-> v[c * L + i]]])
PackKey(v) ==
  LET chunks == Chunks(v) IN Transpose(Eager([c \in DOMAIN chunks |-> DetPack(chunks[c])]))
PackFromWitness(v, points) ==
  LET chunks == Chunks(v) IN
  Transpose(Eager([c \in DOMAIN chunks |-> Pack(Resize(chunks[c], L), points)]))

\* Variant: l copies, as many as there are secrets.
ShareOfBlindingPerSecret(x, points) == Pack([i \in 0 .. L - 1 |-> x], points)
\* n copies of r, or of s.
ShareOfBlinding(x, points) == Pack([i \in 0 .. N - 1 |-> x], points)

-----------------------------------------------------------------------------
\* The trusted setup.
Lagrange(tau) ==
  Ifft([i \in 0 .. M - 1 |-> Pow(tau, i)], M, 1)
AtTau(rows, inputs, tau) ==
  LET u == Lagrange(tau) IN
  Eager([j \in 0 .. Vars - 1 |->
    (Total(NumConstraints, LAMBDA i : rows[i + 1][j] * u[i])
     + (IF inputs /\ j < NumInputs THEN u[NumConstraints + j] ELSE 0)) % Q])
HQuery(tox, reduction) ==
  IF reduction = "circom"
  THEN LET powers == Eager([i \in 0 .. 2 * M - 2 |-> Pow(tox.tau, i) * Inv(tox.delta)])
           both == Ifft(powers, 2 * M, 1)
       IN Eager([i \in 0 .. M - 1 |-> both[2 * i + 1]])
  ELSE Eager([i \in 0 .. M - 2 |->
               (Pow(tox.tau, i) * (Pow(tox.tau, M) - 1) * Inv(tox.delta)) % Q])
Key(tox, reduction) ==
  LET a == AtTau(RowsA, TRUE, tox.tau)
      b == AtTau(RowsB, FALSE, tox.tau)
      c == AtTau(RowsC, FALSE, tox.tau)
      abc == Eager([j \in 0 .. Vars - 1 |-> tox.beta * a[j] + tox.alpha * b[j] + c[j]])
  IN [a_query |-> a, b_query |-> b, h_query |-> HQuery(tox, reduction),
      l_query |-> Eager([j \in 0 .. Vars - NumInputs - 1 |->
                           (abc[j + NumInputs] * Inv(tox.delta)) % Q]),
      gamma_abc |-> Eager([j \in 0 .. NumInputs - 1 |-> (abc[j] * Inv(tox.gamma)) % Q])]

From(v, k) == Eager([i \in 0 .. Size(v) - k - 1 |-> v[i + k]])

-----------------------------------------------------------------------------
\* One round of each of the primitives: what the king gets out of the masked
\* shares, and the shares he returns without their masks.
AtKing(own, mask) == Secrets(AddRows(own, mask.in), 0 .. N - 1)

Transformed(rows, tr) ==
  LET mask == FftMask(job.mask, tr, job.points)
      own == FftLocal(IF tr.gen = Root(M) THEN rows ELSE ScaleRows(rows, Inv(M)), tr)
  IN AddRows(KingFft(AtKing(own, mask), tr, job.points), mask.out)
Msm(bases, scalars) ==
  LET mask == MsmMask(Resize(job.mask, L), job.points)
      rows == AddRows(KingMsm(AtKing(MsmLocal(bases, scalars), mask)), mask.out)
  IN Eager([p \in DOMAIN rows |-> rows[p][0]])
DegRed(own) ==
  LET mask == DegRedMask(job.mask, job.points)
  IN AddRows(KingDegRed(AtKing(own, mask), job.points), mask.out)

AllOf(x, F(_)) == [a |-> F(x.a), b |-> F(x.b), c |-> F(x.c)]
Values(F(_)) == Eager([p \in 0 .. N - 1 |-> F(p) % Q])

Groth16Init ==
  /\ \E z \in Witnesses, toxic \in Toxic, blind \in Blinding, deal \in Deals,
        reduction \in {"circom", "libsnark"} :
       job = [z |-> z, toxic |-> toxic, r |-> blind.r, s |-> blind.s,
              points |-> deal.points, mask |-> deal.mask, reduction |-> reduction]
  /\ phase = "prepare"
  /\ key = <<>> /\ held = <<>> /\ hRows = <<>> /\ rShare = <<>> /\ sShare = <<>>
  /\ pi = [a |-> <<>>, b1 |-> <<>>, b2 |-> <<>>, c |-> <<>>]

\* The client stops on a witness that does not satisfy the constraints.
Prepare ==
  /\ phase = "prepare"
  /\ IF Satisfied(job.z)
     THEN /\ key' = Key(job.toxic, job.reduction)
          /\ held' = AllOf(Qap(job.z), LAMBDA x : QapShares(x, job.points))
          /\ rShare' = ShareOfBlinding(job.r, job.points)
          /\ sShare' = ShareOfBlinding(job.s, job.points)
          /\ phase' = "coefficients"
     ELSE phase' = "panicked" /\ UNCHANGED <<key, held, rShare, sShare>>
  /\ UNCHANGED <<job, hRows, pi>>

\* The offset of the coset on which a b - c is evaluated.
Offset == IF job.reduction = "circom" THEN Root(2 * M) ELSE Generator

\* The three inverse transforms, then the three transforms.
Coefficients ==
  /\ phase = "coefficients"
  /\ held' = AllOf(held, LAMBDA x : Transformed(x, DIfft(Offset, TRUE)))
  /\ phase' = "evaluations"
  /\ UNCHANGED <<job, key, hRows, rShare, sShare, pi>>
Evaluations ==
  /\ phase = "evaluations"
  /\ held' = AllOf(held, LAMBDA x : Transformed(x, DFft(1, job.reduction = "libsnark")))
  /\ phase' = "h"
  /\ UNCHANGED <<job, key, hRows, rShare, sShare, pi>>

ABMinusC == AddRows(MultiplyRows(held.a, held.b), ScaleRows(held.c, Q - 1))
CircomH ==
  /\ phase = "h" /\ job.reduction = "circom"
  /\ hRows' = DegRed(ABMinusC)
  /\ phase' = "A"
  /\ UNCHANGED <<job, key, held, rShare, sShare, pi>>
LibsnarkH ==
  /\ phase = "h" /\ job.reduction = "libsnark"
  /\ LET overZ == Inv((Pow(Generator, M) - 1) % Q) IN
     hRows' = Transformed(ScaleRows(ABMinusC, overZ), DIfft(Inv(Generator), FALSE))
  /\ phase' = "A"
  /\ UNCHANGED <<job, key, held, rShare, sShare, pi>>

AllButOne == PackFromWitness(From(job.z, 1), job.points)

ComputeA ==
  /\ phase = "A"
  /\ LET prod == Msm(PackKey(From(key.a_query, 1)), AllButOne) IN
     pi' = [pi EXCEPT !.a = Values(LAMBDA p :
              key.a_query[0] + job.toxic.delta * rShare[p] + prod[p] + job.toxic.alpha)]
  /\ phase' = "BInG1"
  /\ UNCHANGED <<job, key, held, hRows, rShare, sShare>>

\* A party whose share of r is zero returns at once; the others are left
\* waiting for its share if theirs is not.
BProduct == Msm(PackKey(From(key.b_query, 1)), AllButOne)
ComputeBInG1 ==
  /\ phase = "BInG1"
  /\ \/ /\ \A p \in DOMAIN rShare : rShare[p] = 0
        /\ pi' = [pi EXCEPT !.b1 = Values(LAMBDA p : 0)]
     \/ /\ \A p \in DOMAIN rShare : rShare[p] # 0
        /\ LET prod == BProduct IN
           pi' = [pi EXCEPT !.b1 = Values(LAMBDA p :
                    key.b_query[0] + job.toxic.delta * sShare[p] + prod[p] + job.toxic.beta)]
  /\ phase' = "BInG2"
  /\ UNCHANGED <<job, key, held, hRows, rShare, sShare>>
ComputeBInG2 ==
  /\ phase = "BInG2"
  /\ LET prod == BProduct IN
     pi' = [pi EXCEPT !.b2 = Values(LAMBDA p :
              key.b_query[0] + job.toxic.delta * sShare[p] + prod[p] + job.toxic.beta)]
  /\ phase' = "C"
  /\ UNCHANGED <<job, key, held, hRows, rShare, sShare>>

ComputeC ==
  /\ phase = "C"
  /\ LET w == Msm(PackKey(key.l_query), PackFromWitness(From(job.z, NumInputs), job.points))
         u == Msm(PackKey(key.h_query), hRows)
     IN pi' = [pi EXCEPT !.c = Values(LAMBDA p :
                 sShare[p] * pi.a[p] + rShare[p] * pi.b1[p]
                 - job.toxic.delta * (rShare[p] * sShare[p]) + w[p] + u[p])]
  /\ phase' = "proved"
  /\ UNCHANGED <<job, key, held, hRows, rShare, sShare>>

Groth16Next ==
  \/ Prepare \/ Coefficients \/ Evaluations \/ CircomH \/ LibsnarkH
  \/ ComputeA \/ ComputeBInG1 \/ ComputeBInG2 \/ ComputeC
Groth16Spec == Groth16Init /\ [][Groth16Next]_groth16Vars

-----------------------------------------------------------------------------
\* The first of the secrets is the proof; the pairings of the verifier.
Proof == [a |-> Unpack2(pi.a)[0], b |-> Unpack2(pi.b2)[0], c |-> Unpack2(pi.c)[0]]
Verifies ==
  LET inputs == Total(NumInputs, LAMBDA j : job.z[j] * key.gamma_abc[j]) IN
  (Proof.a * Proof.b
   - job.toxic.alpha * job.toxic.beta - inputs * job.toxic.gamma - Proof.c * job.toxic.delta) % Q = 0

\* What the client unpacks is a proof that verifies, whatever the witness, the
\* keys, the masks and the randomness of the proof are: the assertion of
\* groth16/examples/regex.rs:1472 holds when every share arrived in time.
ProofsVerify == phase = "proved" => Verifies

\* The parties skip the round of B in G1 together or not at all, because the
\* vector of n copies of r that is packed leaves no room for a random point:
\* every share of r is r (groth16/src/prove.rs:96, groth16/examples/regex.rs:1229).
SkippedTogether ==
  phase = "BInG1" /\ (\E p \in DOMAIN rShare : rShare[p] = 0) => \A p \in DOMAIN rShare : rShare[p] = 0

=============================================================================
