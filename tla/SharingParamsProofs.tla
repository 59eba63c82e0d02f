------------------------- MODULE SharingParamsProofs -------------------------
(***************************************************************************)
(* Proofs about the parameters of the packed sharing, for every width of   *)
(* usize and every two-adicity of the field.                               *)
(***************************************************************************)
EXTENDS SharingParams, WellFoundedInduction, TLAPS

-----------------------------------------------------------------------------
\* Induction over the natural numbers, for a set.
LEMMA NatInduct ==
  ASSUME NEW S, 0 \in S, \A n \in Nat : n \in S => n + 1 \in S
  PROVE  Nat \subseteq S
  <1>. SUFFICES ASSUME Nat \ S # {} PROVE FALSE
    OBVIOUS
  <1>1. PICK m \in Nat \ S : \A n \in Nat \ S : ~ (<<n, m>> \in OpToRel(<, Nat))
    <2>1. IsWellFoundedOn(OpToRel(<, Nat), Nat)
      BY NatLessThanWellFounded
    <2>. QED
      BY <2>1, WFMin
  <1>2. \A n \in Nat \ S : ~ (n < m)
    BY <1>1 DEF OpToRel
  <1>3. m - 1 \in Nat /\ m - 1 < m /\ (m - 1) + 1 = m
    OBVIOUS
  <1>. QED
    BY <1>2, <1>3

\* The powers of two are well defined.
LEMMA PowerOfTwoDef ==
  PowerOfTwo = [k \in Nat |-> IF k = 0 THEN 1 ELSE 2 * PowerOfTwo[k - 1]]
  <1> DEFINE IsPower(f, n) == f = [k \in 0 .. n |-> IF k = 0 THEN 1 ELSE 2 * f[k - 1]]
             Defined == {n \in Nat : \E f : IsPower(f, n)}
  <1>1. 0 \in Defined
    <2>1. IsPower([k \in 0 .. 0 |-> 1], 0)
      OBVIOUS
    <2>. QED
      BY <2>1
  <1>2. ASSUME NEW n \in Nat, n \in Defined PROVE n + 1 \in Defined
    <2>1. PICK f : IsPower(f, n)
      BY <1>2
    <2> DEFINE h == [k \in 0 .. n + 1 |-> IF k = 0 THEN 1 ELSE 2 * f[k - 1]]
    <2>2. \A k \in 0 .. n : h[k] = f[k]
      BY <2>1
    <2>3. \A k \in 0 .. n + 1 : k # 0 => k - 1 \in 0 .. n
      OBVIOUS
    <2>4. \A k \in 0 .. n + 1 : h[k] = IF k = 0 THEN 1 ELSE 2 * h[k - 1]
      BY <2>2, <2>3
    <2>5. IsPower(h, n + 1)
      BY <2>4
    <2>. QED
      <3>. HIDE DEF h, IsPower
      <3>. QED
        BY <2>5
  <1>3. \A n \in Nat : \E f : IsPower(f, n)
    <2>1. Nat \subseteq Defined
      <3>. HIDE DEF Defined
      <3>. QED
        BY <1>1, <1>2, NatInduct
    <2>. QED
      BY <2>1
  <1> DEFINE F(n) == CHOOSE f : IsPower(f, n)
             g == [k \in Nat |-> F(k)[k]]
  <1>4. \A n \in Nat : IsPower(F(n), n)
    <2>. HIDE DEF IsPower
    <2>. QED
      BY <1>3
  <1>5. \A n \in Nat : F(n + 1)[n] = F(n)[n]
    <2> DEFINE Same(n) == {k \in Nat : k <= n => F(n + 1)[k] = F(n)[k]}
    <2>1. ASSUME NEW n \in Nat PROVE n \in Same(n)
      <3>. HIDE DEF F
      <3>0. IsPower(F(n), n) /\ IsPower(F(n + 1), n + 1)
        <4>1. n + 1 \in Nat
          OBVIOUS
        <4>. HIDE DEF IsPower
        <4>. QED
          BY <1>4, <4>1
      <3>1. /\ F(n) = [k \in 0 .. n |-> IF k = 0 THEN 1 ELSE 2 * F(n)[k - 1]]
            /\ F(n + 1) = [k \in 0 .. n + 1 |-> IF k = 0 THEN 1 ELSE 2 * F(n + 1)[k - 1]]
        BY <3>0
      <3>2. 0 \in Same(n)
        BY <3>1
      <3>3. ASSUME NEW k \in Nat, k \in Same(n) PROVE k + 1 \in Same(n)
        <4>. SUFFICES ASSUME k + 1 <= n PROVE F(n + 1)[k + 1] = F(n)[k + 1]
          OBVIOUS
        <4>1. F(n + 1)[k] = F(n)[k]
          BY <3>3
        <4>2. k + 1 \in 0 .. n /\ k + 1 \in 0 .. n + 1 /\ k + 1 # 0 /\ (k + 1) - 1 = k
          OBVIOUS
        <4>. QED
          BY <3>1, <4>1, <4>2
      <3>. HIDE DEF Same
      <3>. QED
        BY <3>2, <3>3, NatInduct
    <2>. QED
      BY <2>1
  <1>6. ASSUME NEW k \in Nat PROVE g[k] = IF k = 0 THEN 1 ELSE 2 * g[k - 1]
    <2>1. F(k) = [j \in 0 .. k |-> IF j = 0 THEN 1 ELSE 2 * F(k)[j - 1]]
      BY <1>4
    <2>2. g[k] = F(k)[k]
      OBVIOUS
    <2>3. k # 0 => k - 1 \in Nat /\ (k - 1) + 1 = k /\ g[k - 1] = F(k - 1)[k - 1]
      OBVIOUS
    <2>4. k # 0 => F(k)[k - 1] = F(k - 1)[k - 1]
      <3>. HIDE DEF F
      <3>. QED
        BY <1>5, <2>3
    <2>. HIDE DEF F, g
    <2>. QED
      BY <2>1, <2>2, <2>3, <2>4
  <1>7. g = [k \in Nat |-> IF k = 0 THEN 1 ELSE 2 * g[k - 1]]
    <2>1. g = [k \in Nat |-> g[k]]
      OBVIOUS
    <2>. HIDE DEF g
    <2>. QED
      BY <1>6, <2>1
  <1>. HIDE DEF g
  <1>. QED
    BY <1>7 DEF PowerOfTwo

LEMMA PowerOfTwoFacts ==
  /\ PowerOfTwo[0] = 1
  /\ \A k \in Nat : PowerOfTwo[k + 1] = 2 * PowerOfTwo[k]
  /\ \A k \in Nat : PowerOfTwo[k] \in Nat /\ PowerOfTwo[k] >= 1
  <1>1. PowerOfTwo[0] = 1
    BY PowerOfTwoDef
  <1>2. ASSUME NEW k \in Nat PROVE PowerOfTwo[k + 1] = 2 * PowerOfTwo[k]
    <2>1. k + 1 \in Nat /\ k + 1 # 0 /\ (k + 1) - 1 = k
      OBVIOUS
    <2>. QED
      BY <2>1, PowerOfTwoDef
  <1> DEFINE Positive == {k \in Nat : PowerOfTwo[k] \in Nat /\ PowerOfTwo[k] >= 1}
  <1>3. 0 \in Positive
    BY <1>1
  <1>4. \A k \in Nat : k \in Positive => k + 1 \in Positive
    BY <1>2
  <1>5. Nat \subseteq Positive
    <2>. HIDE DEF Positive
    <2>. QED
      BY <1>3, <1>4, NatInduct
  <1>. QED
    BY <1>1, <1>2, <1>5

\* A greater exponent, at least twice the power.
LEMMA PowerOfTwoGrows ==
  ASSUME NEW j \in Nat, NEW k \in Nat, j < k
  PROVE  2 * PowerOfTwo[j] <= PowerOfTwo[k]
  <1> DEFINE Above == {d \in Nat : 2 * PowerOfTwo[j] <= PowerOfTwo[j + 1 + d]}
  <1>1. 0 \in Above
    BY PowerOfTwoFacts
  <1>2. ASSUME NEW d \in Nat, d \in Above PROVE d + 1 \in Above
    <2>1. PICK i \in Nat : i = j + 1 + d
      OBVIOUS
    <2>2. PowerOfTwo[i + 1] = 2 * PowerOfTwo[i] /\ PowerOfTwo[i] \in Nat /\ PowerOfTwo[j] \in Nat
      BY PowerOfTwoFacts
    <2>3. j + 1 + (d + 1) = i + 1 /\ 2 * PowerOfTwo[j] <= PowerOfTwo[i]
      BY <1>2, <2>1
    <2>. QED
      BY <2>2, <2>3
  <1>3. Nat \subseteq Above
    <2>. HIDE DEF Above
    <2>. QED
      BY <1>1, <1>2, NatInduct
  <1>4. k - j - 1 \in Nat /\ j + 1 + (k - j - 1) = k
    OBVIOUS
  <1>. QED
    BY <1>3, <1>4

\* What is known of the powers of two that usize holds.
LEMMA PowersFacts ==
  /\ Word \in Nat /\ Word >= 8
  /\ \A p \in PowersOfTwo : p \in Nat /\ p >= 1 /\ 2 * p <= Word
  /\ \A p \in Subgroups : p \in PowersOfTwo /\ 2 * p \in PowersOfTwo /\ 4 * p <= Word
  /\ \A p, q \in PowersOfTwo : p < q => 2 * p <= q
  /\ 1 \in PowersOfTwo
  /\ \A p \in PowersOfTwo : 2 * p < Word => 2 * p \in PowersOfTwo
  <1>. USE BitsAssumption, TwoAdicityAssumption
  <1>1. Word \in Nat /\ Word >= 8
    <2>1. PowerOfTwo[1] = 2 /\ PowerOfTwo[2] = 4
      <3>1. PowerOfTwo[0 + 1] = 2 * PowerOfTwo[0] /\ PowerOfTwo[1 + 1] = 2 * PowerOfTwo[1]
        BY PowerOfTwoFacts
      <3>. QED
        BY <3>1, PowerOfTwoFacts
    <2>2. 2 * PowerOfTwo[2] <= PowerOfTwo[Bits]
      BY PowerOfTwoGrows
    <2>. QED
      BY <2>1, <2>2, PowerOfTwoFacts DEF Word
  <1>2. ASSUME NEW p \in PowersOfTwo PROVE p \in Nat /\ p >= 1 /\ 2 * p <= Word
    BY PowerOfTwoFacts, PowerOfTwoGrows DEF PowersOfTwo, Word
  <1>3. ASSUME NEW p \in Subgroups
        PROVE  p \in PowersOfTwo /\ 2 * p \in PowersOfTwo /\ 4 * p <= Word
    <2>1. PICK k \in 0 .. TwoAdicity : p = PowerOfTwo[k]
      BY DEF Subgroups
    <2>2. k \in 0 .. Bits - 1 /\ k + 1 \in 0 .. Bits - 1 /\ k \in Nat /\ k + 1 \in Nat
      OBVIOUS
    <2>3. PowerOfTwo[k + 1] = 2 * p /\ p \in Nat
      BY <2>1, <2>2, PowerOfTwoFacts
    <2>4. 2 * PowerOfTwo[k + 1] <= Word
      BY <2>2, PowerOfTwoGrows DEF Word
    <2>. QED
      BY <2>1, <2>2, <2>3, <2>4 DEF PowersOfTwo
  <1>4. ASSUME NEW p \in PowersOfTwo, NEW q \in PowersOfTwo, p < q PROVE 2 * p <= q
    <2>1. PICK j \in 0 .. Bits - 1 : p = PowerOfTwo[j]
      BY DEF PowersOfTwo
    <2>2. PICK k \in 0 .. Bits - 1 : q = PowerOfTwo[k]
      BY DEF PowersOfTwo
    <2>3. j < k
      <3>1. j # k
        BY <1>4, <2>1, <2>2, <1>2
      <3>2. k < j => 2 * q <= p
        BY <2>1, <2>2, PowerOfTwoGrows
      <3>. QED
        BY <1>2, <1>4, <3>1, <3>2
    <2>. QED
      BY <2>1, <2>2, <2>3, PowerOfTwoGrows
  <1>5. 1 \in PowersOfTwo
    BY PowerOfTwoFacts DEF PowersOfTwo
  <1>6. ASSUME NEW p \in PowersOfTwo, 2 * p < Word PROVE 2 * p \in PowersOfTwo
    <2>1. PICK k \in 0 .. Bits - 1 : p = PowerOfTwo[k]
      BY DEF PowersOfTwo
    <2>2. k \in Nat /\ PowerOfTwo[k + 1] = 2 * p
      BY <2>1, PowerOfTwoFacts
    <2>3. k + 1 # Bits
      BY <1>1, <1>6, <2>2 DEF Word
    <2>. QED
      BY <2>2, <2>3 DEF PowersOfTwo
  <1>. QED
    BY <1>1, <1>2, <1>3, <1>4, <1>5, <1>6

\* Rounding a power of two up changes nothing.
LEMMA NextOfPower ==
  ASSUME NEW p \in PowersOfTwo
  PROVE  NextPowerOfTwo(p) = p
  <1>1. \A q \in PowersOfTwo : q \in Nat
    BY PowersFacts
  <1>2. p <= p /\ \A q \in PowersOfTwo : p <= q => p <= q
    BY <1>1
  <1>3. ASSUME NEW q \in PowersOfTwo, p <= q, \A r \in PowersOfTwo : p <= r => q <= r
        PROVE  q = p
    BY <1>1, <1>2, <1>3
  <1>. QED
    BY <1>2, <1>3 DEF NextPowerOfTwo

\* What new_unchecked builds for a number of parties and a sum of packing
\* factor and threshold that are powers of two, when nothing wraps.
LEMMA UncheckedIsExact ==
  ASSUME NEW n \in PowersOfTwo, NEW l \in Nat, NEW t \in Nat,
         l + t \in PowersOfTwo, NewUnchecked(n, l, t), outcome' = "built",
         2 * (l + t) < Word \/ HasDomain(l + t)
  PROVE  /\ Exact'
         /\ pp'.n = n /\ pp'.l = l /\ pp'.t = t
  <1>0. PICK s \in PowersOfTwo : s = l + t /\ s \in Nat
    BY PowersFacts
  <1>1. Word \in Nat /\ Word >= 8 /\ 2 * s <= Word /\ s < Word /\ s >= 1
    BY PowersFacts
  <1>2. 2 * s < Word
    <2>1. CASE HasDomain(s)
      <3>1. s \in Subgroups
        BY <2>1, NextOfPower DEF HasDomain
      <3>. QED
        BY <1>0, <1>1, <3>1, PowersFacts
    <2>. QED
      BY <1>0, <2>1
  <1>3. Plus(l, t) = s
    BY <1>0, <1>1 DEF Plus
  <1>4. Times(2, Plus(l, t)) = 2 * s /\ 2 * s \in PowersOfTwo
    <2>1. (2 * s) % Word = 2 * s
      BY <1>0, <1>1, <1>2
    <2>. QED
      BY <1>2, <1>3, <2>1, PowersFacts DEF Times
  <1>5. DomainSize(n) = n /\ DomainSize(s) = s /\ DomainSize(2 * s) = 2 * s
    BY <1>4, NextOfPower DEF DomainSize
  <1>6. pp' = [n |-> n, l |-> l, t |-> t, share |-> n, secret |-> s, secret2 |-> 2 * s]
    BY <1>3, <1>4, <1>5 DEF NewUnchecked
  <1>. QED
    BY <1>0, <1>6 DEF Exact

-----------------------------------------------------------------------------
\* The command line is one of those that Init admits, and the parameters are
\* either not there yet or what the constructor makes of the command line.
ArgsType ==
  \/ args \in [l : Usize, t : Usize, n : Usize, explicit : {TRUE}]
  \/ args \in [l : 1 .. MaxL, t : {0}, n : {0}, explicit : {FALSE}]

ParamsInv ==
  /\ ArgsType
  /\ ExplicitParamsReconstruct
  /\ ImplicitParamsTolerateOne

\* No constructor runs twice: once built, or panicked, nothing changes.
LEMMA ParamsStutter == ParamsInv /\ UNCHANGED vars => ParamsInv'
  BY DEF ParamsInv, ArgsType, vars, ExplicitParamsReconstruct, ImplicitParamsTolerateOne,
         Built, Exact, Dropouts, Usize, IsPowerOfTwo

\* What new_with_params builds has exact domains and can lose any two shares.
LEMMA WithParamsReconstruct ==
  ASSUME NEW n \in Usize, NEW l \in Usize, NEW t \in Usize,
         2 * l < Word, 2 * t < Word,
         NewWithParams(n, l, t), outcome' = "built"
  PROVE  (Exact /\ Dropouts > 2)' /\ pp'.l = l /\ pp'.t = t
  <1>1. Word \in Nat /\ n \in Nat /\ l \in Nat /\ t \in Nat
    BY PowersFacts DEF Usize
  <1>2. Checks(n, l, t) /\ NewUnchecked(n, l, t)
    BY DEF NewWithParams
  <1>3. PICK s \in Nat : s = l + t /\ s < Word
    BY <1>1
  <1>4. Plus(l, t) = s /\ s \in PowersOfTwo /\ HasDomain(s)
    <2>1. Plus(l, t) = s
      BY <1>1, <1>3 DEF Plus
    <2>. QED
      BY <1>2, <2>1 DEF Checks, IsPowerOfTwo, NewUnchecked
  <1>5. n \in PowersOfTwo
    BY <1>2 DEF Checks, IsPowerOfTwo
  <1>6. s \in Subgroups /\ 4 * s <= Word /\ s >= 1
    BY <1>4, NextOfPower, PowersFacts DEF HasDomain
  <1>7. 2 * s <= n
    <2>1. (2 * s) % Word = 2 * s
      BY <1>1, <1>6
    <2>. QED
      BY <1>2, <1>4, <2>1 DEF Checks, Times
  <1>8. t < n \div 2 - l
    <2>1. n \div 2 - l \in Nat /\ n \div 2 - l < Word
      BY <1>1, <1>3, <1>7 DEF Usize
    <2>2. Minus(n \div 2, l) = n \div 2 - l
      BY <1>1, <2>1 DEF Minus
    <2>. QED
      BY <1>2, <2>2 DEF Checks
  <1>9. 2 * s < n
    BY <1>1, <1>3, <1>8
  <1>10. 4 * s <= n
    <2>1. 2 * s \in PowersOfTwo
      BY <1>6, PowersFacts
    <2>2. 2 * (2 * s) <= n
      BY <1>5, <1>9, <2>1, PowersFacts
    <2>. QED
      BY <2>2
  <1>11. Exact' /\ pp'.n = n /\ pp'.l = l /\ pp'.t = t
    BY <1>1, <1>2, <1>3, <1>4, <1>5, UncheckedIsExact
  <1>12. Dropouts' > 2
    <2>1. Dropouts' = n - (2 * (l + t - 1) + 1)
      BY <1>11 DEF Dropouts
    <2>. QED
      BY <1>1, <1>3, <1>6, <1>10, <2>1
  <1>. QED
    BY <1>11, <1>12

\* What new builds, for a packing factor that is a power of two.
LEMMA NewToleratesOne ==
  ASSUME NEW l \in 1 .. MaxL, l \in PowersOfTwo, New(l), outcome' = "built"
  PROVE  (Exact /\ Dropouts = 1)'
  <1>1. Word \in Nat /\ l \in Nat /\ l >= 1 /\ 4 * l < Word /\ 2 * l < Word
    BY PowersFacts, MaxLAssumption
  <1>2. 2 * l \in PowersOfTwo
    BY <1>1, PowersFacts
  <1>3. 4 * l \in PowersOfTwo
    <2>1. 2 * (2 * l) \in PowersOfTwo
      BY <1>1, <1>2, PowersFacts
    <2>. QED
      BY <1>1, <2>1
  <1>4. NewUnchecked(4 * l, l, l)
    <2>1. (4 * l) % Word = 4 * l
      BY <1>1
    <2>. QED
      BY <2>1 DEF New, Times
  <1>5. l + l = 2 * l /\ 2 * (l + l) < Word
    BY <1>1
  <1>6. Exact' /\ pp'.n = 4 * l /\ pp'.l = l /\ pp'.t = l
    BY <1>1, <1>2, <1>3, <1>4, <1>5, UncheckedIsExact
  <1>7. Dropouts' = 4 * l - (2 * (l + l - 1) + 1)
    BY <1>6 DEF Dropouts
  <1>. QED
    BY <1>1, <1>6, <1>7

\* Every step of the program keeps the invariant.
LEMMA ChooseKeepsParams == ParamsInv /\ Choose => ParamsInv'
  <1>. SUFFICES ASSUME ParamsInv, Choose PROVE ParamsInv'
    OBVIOUS
  <1>. Word \in Nat
    BY PowersFacts
  <1>1. ArgsType' /\ args' = args
    BY DEF ParamsInv, Choose, ArgsType, Usize
  <1>2. CASE args.explicit
    <2>1. args.l \in Usize /\ args.t \in Usize /\ args.n \in Usize
      BY <1>2 DEF ParamsInv, ArgsType
    <2>2. NewWithParams(args.n, args.l, args.t)
      BY <1>2 DEF Choose
    <2>3. ExplicitParamsReconstruct'
      <3>. SUFFICES ASSUME outcome' = "built", 2 * pp'.l < Word, 2 * pp'.t < Word
                    PROVE  (Exact /\ Dropouts > 2)'
        BY DEF ExplicitParamsReconstruct, Built
      <3>1. pp'.l = args.l /\ pp'.t = args.t
        BY <2>2 DEF NewWithParams, NewUnchecked
      <3>. QED
        BY <2>1, <2>2, <3>1, WithParamsReconstruct
    <2>4. ImplicitParamsTolerateOne'
      BY <1>1, <1>2 DEF ImplicitParamsTolerateOne
    <2>. QED
      BY <1>1, <2>3, <2>4 DEF ParamsInv
  <1>3. CASE ~ args.explicit
    <2>1. args.l \in 1 .. MaxL
      BY <1>3 DEF ParamsInv, ArgsType
    <2>2. New(args.l)
      BY <1>3 DEF Choose
    <2>3. ExplicitParamsReconstruct'
      BY <1>1, <1>3 DEF ExplicitParamsReconstruct
    <2>4. ImplicitParamsTolerateOne'
      <3>. SUFFICES ASSUME outcome' = "built", args.l \in PowersOfTwo
                    PROVE  (Exact /\ Dropouts = 1)'
        BY <1>1 DEF ImplicitParamsTolerateOne, Built, IsPowerOfTwo
      <3>. QED
        BY <2>1, <2>2, NewToleratesOne
    <2>. QED
      BY <1>1, <2>3, <2>4 DEF ParamsInv
  <1>. QED
    BY <1>2, <1>3

LEMMA InitParams == Init => ParamsInv
  BY DEF Init, ParamsInv, ArgsType, ExplicitParamsReconstruct, ImplicitParamsTolerateOne, Built

LEMMA ParamsInvariant == Spec => []ParamsInv
  <1>1. ParamsInv /\ [Next]_vars => ParamsInv'
    BY ParamsStutter, ChooseKeepsParams DEF Next
  <1>. QED
    BY InitParams, <1>1, PTL DEF Spec

\* Explicit parameters (secret-sharing/src/pss.rs:51): for every width of usize
\* and every two-adicity of the field, and for every packing factor and
\* threshold below half of the range of usize, nothing that new_with_params
\* accepts has wrapped: its domains are exact, and shares of a product survive
\* the loss of any two parties.
THEOREM ExplicitParamsAreSound == Spec => []ExplicitParamsReconstruct
  <1>1. ParamsInv => ExplicitParamsReconstruct
    BY DEF ParamsInv
  <1>. QED
    BY ParamsInvariant, <1>1, PTL

\* Implicit parameters (secret-sharing/src/pss.rs:11): whatever the width of
\* usize, for every packing factor that is a power of two and whose fourfold
\* usize holds, the domains are exact and shares of a product survive the loss
\* of one party, and of no more.
THEOREM ImplicitParamsAreSound == Spec => []ImplicitParamsTolerateOne
  <1>1. ParamsInv => ImplicitParamsTolerateOne
    BY DEF ParamsInv
  <1>. QED
    BY ParamsInvariant, <1>1, PTL

=============================================================================
