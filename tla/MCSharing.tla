------------------------------ MODULE MCSharing ------------------------------
(***************************************************************************)
(* The sharing and what is built on it, one of them in every behaviour: the *)
(* parameters, with a usize of 6 bits, or the primitives, a whole proof and *)
(* the decoder over the field of 17 elements that the code's tests use.    *)
(***************************************************************************)
EXTENDS SharingParams, PrimitiveRounds, GaoDecoder, DistGroth16

Vector(seed) == [i \in 0 .. M - 1 |-> ((seed * (i + 1) * (i + 2) + i * i * 5) % 16) + 1]
MCInputs == {Vector(1), Vector(7)}
MCPoints == {[i \in 0 .. T - 1 |-> 3 + 4 * i]}
MCMasks == {Vector(3), [i \in 0 .. M - 1 |-> 0]}
\* All arrive in time, or all but one.
MCReceived == {0 .. N - 1, (0 .. N - 1) \ {N - 1}, (0 .. N - 1) \ {3}}
MCMessages == {[i \in 0 .. Dimension - 1 |-> 0],
               [i \in 0 .. Dimension - 1 |-> CASE i = 0 -> 1 [] i = 1 -> 4 [] OTHER -> 0],
               [i \in 0 .. Dimension - 1 |-> 3 * i + 2]}
MCNoise == {[i \in 0 .. N - 1 |-> CASE i = j -> v [] i = k /\ k # j -> w [] OTHER -> 0]
              : <<j, k, v, w>> \in (0 .. N - 1) \X (0 .. N - 1) \X {0, 1} \X {0, 9}}

\* The circuit x * x = w, w * y = t, t * x = out, with the variables
\* 1, out, x, y, w, t.
Only(js) == [j \in 0 .. Vars - 1 |-> IF j \in js THEN 1 ELSE 0]
MCA == <<Only({2}), Only({4}), Only({5})>>
MCB == <<Only({2}), Only({3}), Only({2})>>
MCC == <<Only({4}), Only({5}), Only({1})>>
Witness(x, y) ==
  [j \in 0 .. Vars - 1 |-> CASE j = 0 -> 1 [] j = 1 -> (x ^ 3 * y) % Q [] j = 2 -> x
                             [] j = 3 -> y [] j = 4 -> x ^ 2 % Q [] j = 5 -> (x ^ 2 * y) % Q]
\* The last one does not satisfy the constraints.
MCWitnesses == {Witness(2, 3), Witness(5, 16), [Witness(2, 3) EXCEPT ![4] = 5]}
MCToxic == {[tau |-> 5, alpha |-> 2, beta |-> 7, gamma |-> 11, delta |-> 3],
            [tau |-> 12, alpha |-> 9, beta |-> 1, gamma |-> 6, delta |-> 14]}
MCBlinding == {[r |-> 0, s |-> 3], [r |-> 3, s |-> 16], [r |-> 5, s |-> 7], [r |-> 4, s |-> 0]}
MCDeals == {[points |-> [i \in 0 .. T - 1 |-> 3 + 4 * i], mask |-> Vector(3)]}

VARIABLE part
sharingVars == <<part, vars, primVars, decoderVars, groth16Vars>>

InPart(name, Step, others) == part = name /\ Step /\ UNCHANGED <<part, others>>

\* The parts that do not run stay in one state.
NoParams == args = <<>> /\ outcome = "off" /\ pp = Absent
NoPrimitive == task = <<>> /\ dealt = <<>> /\ stage = "off" /\ rows = <<>> /\ rounds = 0
NoDecoder == word = <<>> /\ decoded = NotDecoded
NoProof ==
  job = <<>> /\ phase = "off" /\ key = <<>> /\ held = <<>> /\ hRows = <<>> /\ rShare = <<>> /\ sShare = <<>> /\ pi = <<>>
SharingInit ==
  \/ part = "params" /\ Init /\ NoPrimitive /\ NoDecoder /\ NoProof
  \/ part = "primitives" /\ NoParams /\ PrimInit /\ NoDecoder /\ NoProof
  \/ part = "decoder" /\ NoParams /\ NoPrimitive /\ DecoderInit /\ NoProof
  \/ part = "proof" /\ NoParams /\ NoPrimitive /\ NoDecoder /\ Groth16Init
SharingNext ==
  \/ InPart("params", Next, <<primVars, decoderVars, groth16Vars>>)
  \/ InPart("primitives", PrimNext, <<vars, decoderVars, groth16Vars>>)
  \/ InPart("decoder", Decode, <<vars, primVars, groth16Vars>>)
  \/ InPart("proof", Groth16Next, <<vars, primVars, decoderVars>>)
SharingSpec == SharingInit /\ [][SharingNext]_sharingVars

=============================================================================
