----------------------------- MODULE SnarkPack -----------------------------
(***************************************************************************)
(* SnarkPack: many Groth16 proofs are aggregated into one by folding their *)
(* vectors in halves, under challenges drawn from a transcript.            *)
(*                                                                         *)
(* Group elements are their exponents modulo a small prime Q, a pairing    *)
(* multiplies exponents and the target group adds them.  The hash behind   *)
(* the transcript is a random oracle: a challenge is free the first time a *)
(* transcript asks for it, and the same ever after.                        *)
(***************************************************************************)
EXTENDS Integers, SequencesExt

CONSTANTS
  Q,           \* the order of the groups
  SrsAlpha,    \* the two secrets of the reference string
  SrsBeta,
  Vk,          \* [alpha, beta, gamma, delta, abc]: the Groth16 verifying key
  Claims,      \* what is aggregated: [proofs, inputs], proofs [a, b, c]
  Challenges,  \* the values the oracle may give
  Other        \* the challenge of a transcript the prover never had

ASSUME QAssumption == Q \in Nat /\ Q > 2
ASSUME ChallengesAssumption == Challenges \subseteq 1 .. Q - 1
ASSUME ClaimsAssumption ==
  Claims \subseteq [proofs : Seq([a : Int, b : Int, c : Int]), inputs : Seq(Seq(Int))]
ASSUME OtherAssumption == Other \in 1 .. Q - 1

VARIABLES
  claim,       \* the proofs and their public inputs
  transcript,  \* the prover's transcript, <<label, value>> by value appended
  oracle,      \* oracle[t]: the challenge given to transcript t
  folding,     \* the vectors and keys of the recursion, and its challenges
  proof,       \* the aggregate, as far as it is made
  phase        \* what happens next, or the outcome

proverVars == <<claim, transcript, oracle, folding, proof, phase>>

-----------------------------------------------------------------------------
Inverse1(x) == CHOOSE y \in 1 .. Q - 1 : (x * y) % Q = 1
Power(x, n) == FoldLeft(LAMBDA p, k : (p * x) % Q, 1, [k \in 1 .. n |-> k])
\* 1, s, s^2, ...
ScalarPowers(num, s) == [k \in 1 .. num |-> Power(s, k - 1)]

\* The pairing product of two vectors of points, or the multiexponentiation
\* of points and scalars.
Inner(u, v) == FoldLeft(LAMBDA s, k : (s + u[k] * v[k]) % Q, 0, [k \in DOMAIN u |-> k])

LeftHalf(v) == SubSeq(v, 1, Len(v) \div 2)
RightHalf(v) == SubSeq(v, Len(v) \div 2 + 1, Len(v))
Compress(v, c) ==
  [k \in DOMAIN LeftHalf(v) |-> (LeftHalf(v)[k] + c * RightHalf(v)[k]) % Q]

\* A commitment key is a pair of vectors, one per secret.
KeyMap(key, Op(_)) == <<Op(key[1]), Op(key[2])>>
SplitLeft(key) == KeyMap(key, LeftHalf)
SplitRight(key) == KeyMap(key, RightHalf)
CompressKey(key, c) == <<Compress(key[1], c), Compress(key[2], c)>>
Scale(key, s) ==
  [i \in {1, 2} |-> [k \in DOMAIN key[i] |-> (key[i][k] * s[k]) % Q]]

\* specialize: v is the first n powers of each secret, w the next n.
PowersFrom(low, num) ==
  [i \in {1, 2} |-> LET s == IF i = 1 THEN SrsAlpha ELSE SrsBeta IN
                    [k \in 1 .. num |-> Power(s, low + k - 1)]]
VKey(n) == PowersFrom(0, n)
WKey(n) == PowersFrom(n, n)

CommitSingle(vkey, a) == <<Inner(a, vkey[1]), Inner(a, vkey[2])>>
CommitPair(vkey, wkey, a, b) ==
  <<(Inner(a, vkey[1]) + Inner(wkey[1], b)) % Q,
    (Inner(a, vkey[2]) + Inner(wkey[2], b)) % Q>>

-----------------------------------------------------------------------------
\* prod (1 + x_j (shift z)^(2^j)), for the challenges in reverse order.
ProductForm(xs, z, shift) ==
  FoldLeft(LAMBDA st, x : [res |-> (st.res * (1 + x * st.pw)) % Q,
                           pw |-> (st.pw * st.pw) % Q],
           [res |-> 1, pw |-> (z * shift) % Q], xs).res

\* The coefficients of the same polynomial.
Coefficients(xs, shift) ==
  FoldLeft(LAMBDA st, x : [cs |-> st.cs \o [k \in DOMAIN st.cs |-> (st.cs[k] * x * st.pw) % Q],
                           pw |-> (st.pw * st.pw) % Q],
           [cs |-> <<1>>, pw |-> shift], xs).cs

\* The quotient by X - z, padded to the length of the dividend.  The remainder
\* is dropped, and with it the value that was subtracted beforehand.
Quotient(cs, z) ==
  LET q[k \in DOMAIN cs] == IF k = Len(cs) THEN 0 ELSE (cs[k + 1] + z * q[k + 1]) % Q
  IN q

KzgOpening(powers, cs, z) ==
  <<Inner(powers[1], Quotient(cs, z)), Inner(powers[2], Quotient(cs, z))>>
OpenV(n, xinvs, z) == KzgOpening(VKey(n), Coefficients(xinvs, 1), z)
OpenW(n, xs, rinv, z) ==
  KzgOpening(PowersFrom(0, 2 * n), [k \in 1 .. n |-> 0] \o Coefficients(xs, rinv), z)

-----------------------------------------------------------------------------
Entry(label, value) == <<<<label, value>>>>
Commitments(p) == Entry("AB-commitment", p.com_ab) \o Entry("C-commitment", p.com_c)
Products(p) == Entry("inner-product-ab", p.ip_ab) \o Entry("comm-c", p.agg_c)
RoundEntries(xinv, rd) ==
  Entry("c_inv", xinv) \o Entry("zab_l", rd.zab_l) \o Entry("zab_r", rd.zab_r)
  \o Entry("zc_l", rd.zc_l) \o Entry("zc_r", rd.zc_r)
  \o Entry("tab_l", rd.tab_l) \o Entry("tab_r", rd.tab_r)
  \o Entry("tuc_l", rd.tuc_l) \o Entry("tuc_r", rd.tuc_r)
FinalKeys(x, vkey, wkey) ==
  Entry("kzg-challenge", x) \o Entry("vkey0", vkey[1]) \o Entry("vkey1", vkey[2])
  \o Entry("wkey0", wkey[1]) \o Entry("wkey1", wkey[2])

\* A challenge enters the transcript it was drawn from.
Drawn(t, label) == t \o Entry(label, "drawn")
Answers(t) == IF t \in DOMAIN oracle THEN {oracle[t]} ELSE Challenges
\* f, and what g says of everything else.
Extended(f, g) ==
  [x \in DOMAIN f \cup DOMAIN g |-> IF x \in DOMAIN f THEN f[x] ELSE g[x]]
Knowing(t, x, known) == Extended([u \in {t} |-> x], known)
Remember(t, x) == oracle' = Knowing(t, x, oracle)

SnarkInit ==
  /\ claim \in Claims
  /\ transcript = Entry("public-inputs", claim.inputs)
  /\ oracle = [t \in {} |-> 0]
  /\ folding = <<>>
  /\ proof = <<>>
  /\ phase = "commit"

Size == Len(claim.proofs)
IsPowerOfTwo(n) == \E k \in 0 .. n : n = 2 ^ k

\* The sizes that are refused.
Refused == Size < 2 \/ ~ IsPowerOfTwo(Size)
Refuse ==
  /\ phase = "commit"
  /\ Refused
  /\ phase' = "refused"
  /\ UNCHANGED <<claim, transcript, oracle, folding, proof>>

\* Commit to the proofs, draw r, take the products, scale B and w by powers of
\* r and of its inverse, and draw the first challenge of the recursion.
Commit ==
  /\ phase = "commit"
  /\ ~ Refused
  /\ LET a == [k \in 1 .. Size |-> claim.proofs[k].a]
         b == [k \in 1 .. Size |-> claim.proofs[k].b]
         c == [k \in 1 .. Size |-> claim.proofs[k].c]
         coms == [com_ab |-> CommitPair(VKey(Size), WKey(Size), a, b),
                  com_c |-> CommitSingle(VKey(Size), c)]
         tr == Drawn(transcript \o Commitments(coms), "r-random-fiatshamir")
     IN \E r \in Answers(tr) :
          LET rs == ScalarPowers(Size, r)
              br == [k \in 1 .. Size |-> (b[k] * rs[k]) % Q]
              products == [ip_ab |-> Inner(a, br), agg_c |-> Inner(c, rs)]
              tx == Drawn(tr \o Products(products), "first-challenge")
          IN \E xinv \in Answers(tx) :
               /\ oracle' = Knowing(tr, r, Knowing(tx, xinv, oracle))
               /\ transcript' = tx
               /\ proof' = Extended(coms, Extended(products, [nproofs |-> Size, rounds |-> <<>>]))
               /\ folding' = [a |-> a, b |-> br, c |-> c, r |-> rs, shift |-> r,
                              vkey |-> VKey(Size),
                              wkey |-> Scale(WKey(Size), [k \in 1 .. Size |-> Inverse1(rs[k])]),
                              xinvs |-> <<xinv>>]
  /\ phase' = "fold"
  /\ UNCHANGED claim

-----------------------------------------------------------------------------
\* The cross terms of one round.
CrossTerms(f) ==
  LET vl == SplitLeft(f.vkey)   vr == SplitRight(f.vkey)
      wl == SplitLeft(f.wkey)   wr == SplitRight(f.wkey)
      al == LeftHalf(f.a)       ar == RightHalf(f.a)
      bl == LeftHalf(f.b)       br == RightHalf(f.b)
      cl == LeftHalf(f.c)       cr == RightHalf(f.c)
  IN [tab_l |-> CommitPair(vl, wr, ar, bl), tab_r |-> CommitPair(vr, wl, al, br),
      zab_l |-> Inner(ar, bl),              zab_r |-> Inner(al, br),
      zc_l |-> Inner(cr, LeftHalf(f.r)),    zc_r |-> Inner(cl, RightHalf(f.r)),
      tuc_l |-> CommitSingle(vl, cr),       tuc_r |-> CommitSingle(vr, cl)]

\* Variant: the two keys are folded with each other's challenge.
FoldedSwapped(f, xinv) ==
  LET x == Inverse1(xinv) IN
  [f EXCEPT !.a = Compress(f.a, x), !.b = Compress(f.b, xinv),
            !.c = Compress(f.c, x), !.r = Compress(f.r, xinv),
            !.vkey = CompressKey(f.vkey, x),
            !.wkey = CompressKey(f.wkey, xinv)]
\* A, C and w are folded with the challenge, B, r and v with its inverse.
Folded(f, xinv) ==
  LET x == Inverse1(xinv) IN
  [f EXCEPT !.a = Compress(f.a, x), !.b = Compress(f.b, xinv),
            !.c = Compress(f.c, x), !.r = Compress(f.r, xinv),
            !.vkey = CompressKey(f.vkey, xinv),
            !.wkey = CompressKey(f.wkey, x)]

\* One round: the first one uses the challenge drawn before the recursion.
FoldRound ==
  /\ phase = "fold"
  /\ Len(folding.a) > 1
  /\ LET rd == CrossTerms(folding)
         asked == Drawn(transcript \o RoundEntries(Last(folding.xinvs), rd), "challenge_i")
     IN /\ proof' = [proof EXCEPT !.rounds = Append(@, rd)]
        /\ IF proof.rounds = <<>>
           THEN /\ folding' = Folded(folding, folding.xinvs[1])
                /\ UNCHANGED <<transcript, oracle>>
           ELSE \E xinv \in Answers(asked) :
                  /\ transcript' = asked
                  /\ Remember(asked, xinv)
                  /\ folding' = [Folded(folding, xinv) EXCEPT !.xinvs = Append(@, xinv)]
  /\ UNCHANGED <<claim, phase>>

\* The openings that show the folded keys to be well formed.
Open ==
  /\ phase = "fold"
  /\ Len(folding.a) = 1
  /\ LET xinvs == Reverse(folding.xinvs)
         xs == [k \in DOMAIN xinvs |-> Inverse1(xinvs[k])]
         vkey == <<folding.vkey[1][1], folding.vkey[2][1]>>
         wkey == <<folding.wkey[1][1], folding.wkey[2][1]>>
         rinv == Inverse1(folding.shift)
         asked == Drawn(transcript \o FinalKeys(xs[1], vkey, wkey), "z-challenge")
     IN \E z \in Answers(asked) :
          /\ transcript' = asked
          /\ Remember(asked, z)
          /\ proof' = Extended(proof,
               [final_a |-> folding.a[1], final_b |-> folding.b[1], final_c |-> folding.c[1],
                vkey |-> vkey, wkey |-> wkey,
                vopening |-> OpenV(Size, xinvs, z),
                wopening |-> OpenW(Size, xs, rinv, z)])
  /\ phase' = "aggregated"
  /\ UNCHANGED <<claim, folding>>

ProverStep == Refuse \/ Commit \/ FoldRound \/ Open

=============================================================================
