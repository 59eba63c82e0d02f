---------------------------- MODULE MCSnarkPack ----------------------------
(***************************************************************************)
(* Instances of the aggregation: groups of order 7, claims of one to four  *)
(* proofs, some of them good, some bad, some with the wrong inputs.        *)
(***************************************************************************)
EXTENDS SnarkVerifier

MCVk == [alpha |-> 2, beta |-> 3, gamma |-> 4, delta |-> 5, abc |-> <<1, 3>>]

\* The c that makes a proof with this a, b and input good.
GoodC(a, b, x) ==
  (Inverse1(MCVk.delta)
   * (a * b - MCVk.alpha * MCVk.beta - (MCVk.abc[1] + MCVk.abc[2] * x) * MCVk.gamma)) % Q
Good(a, b, x) == [a |-> a, b |-> b, c |-> GoodC(a, b, x)]
Bad(a, b, x) == [a |-> a, b |-> b, c |-> (GoodC(a, b, x) + 1) % Q]

MCClaims ==
  { [proofs |-> <<Good(1, 2, 3)>>, inputs |-> << <<3>> >>],
    [proofs |-> <<Good(1, 2, 3), Good(4, 5, 6)>>, inputs |-> << <<3>>, <<6>> >>],
    [proofs |-> <<Good(1, 2, 3), Bad(4, 5, 6)>>, inputs |-> << <<3>>, <<6>> >>],
    [proofs |-> <<Bad(1, 2, 3), Bad(4, 5, 6)>>, inputs |-> << <<3>>, <<6>> >>],
    [proofs |-> <<Good(1, 2, 3), Good(4, 5, 6)>>, inputs |-> << <<3>>, <<6>>, <<6>> >>],
    [proofs |-> <<Good(1, 2, 3), Good(4, 5, 6)>>, inputs |-> << <<3>>, <<6, 1>> >>],
    [proofs |-> <<Good(1, 2, 3), Good(4, 5, 6), Good(2, 2, 0)>>,
     inputs |-> << <<3>>, <<6>>, <<0>> >>],
    [proofs |-> <<Good(1, 2, 3), Good(4, 5, 6), Good(2, 2, 0), Good(6, 3, 1)>>,
     inputs |-> << <<3>>, <<6>>, <<0>>, <<1>> >>],
    [proofs |-> <<Good(1, 2, 3), Good(4, 5, 6), Bad(2, 2, 0), Good(6, 3, 1)>>,
     inputs |-> << <<3>>, <<6>>, <<0>>, <<1>> >>] }

MCCoeff == [n \in Randomized |->
              CASE n \in {"v1", "t", "z"} -> 1
                [] n \in {"v2", "u", "w1"} -> 3
                [] OTHER -> 5]
=============================================================================
