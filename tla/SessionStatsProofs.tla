-------------------------- MODULE SessionStatsProofs --------------------------
(***************************************************************************)
(* Proofs about the communication counters: the snapshot that a party      *)
(* returns is the whole traffic of the session.                            *)
(***************************************************************************)
EXTENDS SessionStats, ProofSessionAnswers, FiniteSetTheorems, WellFoundedInduction

-----------------------------------------------------------------------------
\* Totals over finite sets.

\* Induction over the natural numbers, for a set.
LEMMA NatInduct ==
  ASSUME NEW S, 0 \in S, \A n \in Nat : n \in S => n + 1 \in S
  PROVE  Nat \subseteq S
  <1>. SUFFICES ASSUME Nat \ S # {} PROVE FALSE
    OBVIOUS
  <1>1. PICK m \in Nat \ S : \A n \in Nat \ S : ~ (<<n, m>> \in OpToRel(<, Nat))
    <2>1. IsWellFoundedOn(OpToRel(<, Nat), Nat)
      BY NatLessThanWellFounded
    <2>. QED
      BY <2>1, WFMin
  <1>2. \A n \in Nat \ S : ~ (n < m)
    BY <1>1 DEF OpToRel
  <1>3. m - 1 \in Nat /\ m - 1 < m /\ (m - 1) + 1 = m
    OBVIOUS
  <1>. QED
    BY <1>2, <1>3

AnyOf(s) == CHOOSE x \in s : TRUE

\* What a sum over a set is: a function of its subsets that takes one chosen
\* element out at a time.
IsSum(g, f, S) ==
  g = [s \in SUBSET S |-> IF s = {} THEN 0 ELSE f[AnyOf(s)] + g[s \ {AnyOf(s)}]]

LEMMA SubsetFacts ==
  ASSUME NEW S, IsFiniteSet(S), NEW s, s \subseteq S
  PROVE  /\ IsFiniteSet(s) /\ Cardinality(s) \in Nat /\ Cardinality(s) <= Cardinality(S)
         /\ Cardinality(s) = 0 <=> s = {}
  <1>1. IsFiniteSet(s) /\ Cardinality(s) <= Cardinality(S)
    BY FS_Subset
  <1>. QED
    BY <1>1, FS_CardinalityType, FS_EmptySet

LEMMA OneOut ==
  ASSUME NEW S, IsFiniteSet(S), NEW s, s \subseteq S, NEW x \in s, NEW n \in Nat, Cardinality(s) <= n + 1
  PROVE  s \ {x} \subseteq S /\ Cardinality(s \ {x}) <= n
  <1>1. IsFiniteSet(s) /\ Cardinality(s) \in Nat
    BY SubsetFacts
  <1>2. Cardinality(s \ {x}) = Cardinality(s) - 1
    BY <1>1, FS_RemoveElement
  <1>. QED
    BY <1>1, <1>2

LEMMA SumIsDefined ==
  ASSUME NEW S, IsFiniteSet(S), NEW f
  PROVE  \E g : IsSum(g, f, S)
  <1> DEFINE Small(n) == {s \in SUBSET S : Cardinality(s) <= n}
             IsSumUpTo(g, n) ==
               g = [s \in Small(n) |-> IF s = {} THEN 0 ELSE f[AnyOf(s)] + g[s \ {AnyOf(s)}]]
             Defined == {n \in Nat : \E g : IsSumUpTo(g, n)}
  <1>0. \A s : s # {} => AnyOf(s) \in s
    BY DEF AnyOf
  <1>1. 0 \in Defined
    <2>1. ASSUME NEW s \in SUBSET S PROVE Cardinality(s) <= 0 <=> s = {}
      BY SubsetFacts
    <2>2. Small(0) = {{}}
      BY <2>1
    <2>3. IsSumUpTo([s \in {{}} |-> 0], 0)
      BY <2>2
    <2>. QED
      BY <2>3
  <1>2. ASSUME NEW n \in Nat, n \in Defined PROVE n + 1 \in Defined
    <2>1. PICK g : IsSumUpTo(g, n)
      BY <1>2
    <2> DEFINE h == [s \in Small(n + 1) |->
                       IF s = {} THEN 0 ELSE f[AnyOf(s)] + g[s \ {AnyOf(s)}]]
    <2>2. ASSUME NEW s \in Small(n) PROVE s \in Small(n + 1) /\ h[s] = g[s]
      <3>0. Cardinality(s) \in Nat /\ Cardinality(s) <= n /\ s \subseteq S
        BY SubsetFacts
      <3>1. s \in Small(n + 1)
        BY <3>0
      <3>2. g[s] = IF s = {} THEN 0 ELSE f[AnyOf(s)] + g[s \ {AnyOf(s)}]
        BY <2>1
      <3>. QED
        BY <3>1, <3>2
    <2>3. ASSUME NEW s \in Small(n + 1), s # {}
          PROVE  s \ {AnyOf(s)} \in Small(n)
      BY <1>0, <2>3, OneOut
    <2>4. \A s \in Small(n + 1) : s # {} => h[s \ {AnyOf(s)}] = g[s \ {AnyOf(s)}]
      <3>. HIDE DEF h, Small
      <3>. QED
        BY <2>2, <2>3
    <2>5. IsSumUpTo(h, n + 1)
      <3>1. h = [s \in Small(n + 1) |-> IF s = {} THEN 0 ELSE f[AnyOf(s)] + h[s \ {AnyOf(s)}]]
        <4>1. \A s \in Small(n + 1) :
                (IF s = {} THEN 0 ELSE f[AnyOf(s)] + g[s \ {AnyOf(s)}])
                = (IF s = {} THEN 0 ELSE f[AnyOf(s)] + h[s \ {AnyOf(s)}])
          <5>. HIDE DEF h, Small
          <5>. QED
            BY <2>4
        <4>. HIDE DEF Small
        <4>. QED
          BY <4>1
      <3>. HIDE DEF h, Small
      <3>. QED
        BY <3>1
    <2>. QED
      <3>. HIDE DEF h, IsSumUpTo
      <3>. QED
        BY <2>5
  <1>3. Cardinality(S) \in Defined
    <2>1. Nat \subseteq Defined
      <3>. HIDE DEF Defined
      <3>. QED
        BY <1>1, <1>2, NatInduct
    <2>. QED
      BY <2>1, SubsetFacts
  <1>4. PICK g : IsSumUpTo(g, Cardinality(S))
    BY <1>3
  <1>5. Small(Cardinality(S)) = SUBSET S
    <2>1. ASSUME NEW s \in SUBSET S PROVE Cardinality(s) <= Cardinality(S)
      BY SubsetFacts
    <2>. QED
      BY <2>1
  <1>6. IsSum(g, f, S)
    <2>. HIDE DEF Small
    <2>. QED
      BY <1>4, <1>5 DEF IsSum
  <1>. QED
    BY <1>6

\* One element is taken out of a sum, whichever it is.
Adds(g, f, S) ==
  /\ g[{}] = 0
  /\ \A s : s \subseteq S => g[s] \in Int
  /\ \A s, x : s \subseteq S /\ x \in s => g[s] = f[x] + g[s \ {x}]

LEMMA SumAdds ==
  ASSUME NEW S, IsFiniteSet(S), NEW f, \A x \in S : f[x] \in Int,
         NEW g, IsSum(g, f, S)
  PROVE  Adds(g, f, S)
  <1> DEFINE Good(s) == g[s] \in Int /\ \A x \in s : g[s] = f[x] + g[s \ {x}]
             Held == {n \in Nat : \A s \in SUBSET S : Cardinality(s) <= n => Good(s)}
  <1>1. \A s : s \subseteq S => g[s] = IF s = {} THEN 0 ELSE f[AnyOf(s)] + g[s \ {AnyOf(s)}]
    BY DEF IsSum
  <1>2. g[{}] = 0
    BY <1>1
  <1>3. 0 \in Held
    <2>1. ASSUME NEW s \in SUBSET S, Cardinality(s) <= 0 PROVE Good(s)
      <3>1. s = {}
        BY <2>1, SubsetFacts
      <3>. QED
        BY <1>2, <3>1
    <2>. QED
      BY <2>1
  <1>4. ASSUME NEW n \in Nat, n \in Held PROVE n + 1 \in Held
    <2>1. ASSUME NEW s \in SUBSET S, Cardinality(s) <= n + 1, s # {} PROVE Good(s)
      <3>1. PICK a : a = AnyOf(s)
        OBVIOUS
      <3>2. a \in s
        BY <2>1, <3>1 DEF AnyOf
      <3>3. g[s] = f[a] + g[s \ {a}]
        BY <1>1, <2>1, <3>1
      <3>4. ASSUME NEW x \in s PROVE f[x] \in Int /\ Good(s \ {x})
        <4>1. Cardinality(s \ {x}) <= n /\ s \ {x} \subseteq S
          BY <2>1, OneOut
        <4>. QED
          BY <1>4, <4>1
      <3>5. g[s] \in Int
        BY <3>2, <3>3, <3>4
      <3>6. ASSUME NEW x \in s, x # a PROVE g[s] = f[x] + g[s \ {x}]
        <4>1. g[s \ {a}] = f[x] + g[(s \ {a}) \ {x}]
          BY <3>2, <3>4, <3>6
        <4>2. g[s \ {x}] = f[a] + g[(s \ {x}) \ {a}]
          BY <3>2, <3>4, <3>6
        <4>3. (s \ {a}) \ {x} = (s \ {x}) \ {a}
          OBVIOUS
        <4>4. PICK r : r = g[(s \ {x}) \ {a}]
          OBVIOUS
        <4>5. r \in Int
          <5>1. s \ {x} \in SUBSET S /\ IsFiniteSet(s \ {x}) /\ Cardinality(s \ {x}) <= n
            BY <2>1, OneOut, SubsetFacts
          <5>2. Cardinality((s \ {x}) \ {a}) <= n /\ (s \ {x}) \ {a} \in SUBSET S
            <6>1. IsFiniteSet((s \ {x}) \ {a}) /\ Cardinality((s \ {x}) \ {a}) <= Cardinality(s \ {x})
              BY <5>1, FS_Subset
            <6>2. Cardinality((s \ {x}) \ {a}) \in Nat /\ Cardinality(s \ {x}) \in Nat
              BY <5>1, <6>1, FS_CardinalityType
            <6>. QED
              BY <5>1, <6>1, <6>2
          <5>. QED
            BY <1>4, <4>4, <5>2
        <4>6. f[x] \in Int /\ f[a] \in Int
          BY <3>2, <3>4
        <4>7. g[s \ {a}] = f[x] + r /\ g[s \ {x}] = f[a] + r
          BY <4>1, <4>2, <4>3, <4>4
        <4>8. f[a] + (f[x] + r) = f[x] + (f[a] + r)
          BY <4>5, <4>6
        <4>. QED
          BY <3>3, <4>7, <4>8
      <3>. QED
        BY <3>3, <3>5, <3>6
    <2>2. ASSUME NEW s \in SUBSET S, s = {} PROVE Good(s)
      BY <1>2, <2>2
    <2>. QED
      <3>. HIDE DEF Good
      <3>. QED
        BY <2>1, <2>2
  <1>5. ASSUME NEW s, s \subseteq S PROVE Good(s)
    <2>1. Cardinality(s) \in Nat
      BY <1>5, SubsetFacts
    <2>2. Cardinality(s) \in Held
      <3>. HIDE DEF Held
      <3>. QED
        BY <1>3, <1>4, <2>1, NatInduct
    <2>. QED
      <3>. HIDE DEF Good
      <3>. QED
        BY <1>5, <2>1, <2>2
  <1>. QED
    BY <1>2, <1>5 DEF Adds

\* The sum of a counter is such a function's value.
LEMMA TotalIsSum ==
  ASSUME NEW f, IsFiniteSet(DOMAIN f)
  PROVE  \E g : IsSum(g, f, DOMAIN f) /\ Total(f) = g[DOMAIN f]
  <1> DEFINE h == CHOOSE g : IsSum(g, f, DOMAIN f)
  <1>1. IsSum(h, f, DOMAIN f)
    BY SumIsDefined
  <1>2. Total(f) = h[DOMAIN f]
    BY DEF Total, MapThenSumSet, MapThenFoldSet, IsSum, AnyOf
  <1>. QED
    BY <1>1, <1>2

\* Two counters that differ in one place differ by as much in their totals.
LEMMA TotalOneChange ==
  ASSUME NEW f, NEW h, NEW S, IsFiniteSet(S), DOMAIN f = S, DOMAIN h = S,
         \A x \in S : f[x] \in Int /\ h[x] \in Int,
         NEW a \in S, \A x \in S \ {a} : h[x] = f[x]
  PROVE  Total(h) - Total(f) = h[a] - f[a]
  <1>1. PICK g : IsSum(g, f, S) /\ Total(f) = g[S]
    BY TotalIsSum
  <1>2. PICK k : IsSum(k, h, S) /\ Total(h) = k[S]
    BY TotalIsSum
  <1>3. /\ g[{}] = 0 /\ k[{}] = 0
        /\ \A s : s \subseteq S => g[s] \in Int /\ k[s] \in Int
        /\ \A s, x : s \subseteq S /\ x \in s => g[s] = f[x] + g[s \ {x}] /\ k[s] = h[x] + k[s \ {x}]
    <2>1. Adds(g, f, S)
      BY <1>1, SumAdds
    <2>2. Adds(k, h, S)
      BY <1>2, SumAdds
    <2>. QED
      BY <2>1, <2>2 DEF Adds
  <1> DEFINE Held == {n \in Nat : \A s : s \subseteq S \ {a} /\ Cardinality(s) <= n => g[s] = k[s]}
  <1>4. 0 \in Held
    <2>1. ASSUME NEW s, s \subseteq S \ {a}, Cardinality(s) <= 0 PROVE g[s] = k[s]
      <3>1. s = {}
        <4>1. s \subseteq S
          BY <2>1
        <4>. QED
          BY <2>1, <4>1, SubsetFacts
      <3>. QED
        BY <1>3, <3>1
    <2>. QED
      BY <2>1
  <1>5. ASSUME NEW n \in Nat, n \in Held PROVE n + 1 \in Held
    <2>1. ASSUME NEW s, s \subseteq S \ {a}, Cardinality(s) <= n + 1, NEW x \in s PROVE g[s] = k[s]
      <3>0. s \subseteq S
        BY <2>1
      <3>1. s \ {x} \subseteq S \ {a} /\ Cardinality(s \ {x}) <= n
        BY <2>1, <3>0, OneOut
      <3>2. g[s \ {x}] = k[s \ {x}]
        BY <1>5, <3>1
      <3>3. f[x] = h[x]
        BY <2>1
      <3>. QED
        BY <1>3, <3>0, <3>2, <3>3
    <2>2. \A s : s \subseteq S \ {a} /\ Cardinality(s) <= n + 1 => g[s] = k[s]
      BY <1>3, <2>1
    <2>. QED
      BY <2>2
  <1>6. g[S \ {a}] = k[S \ {a}]
    <2>1. Cardinality(S \ {a}) \in Nat
      BY SubsetFacts
    <2>2. Cardinality(S \ {a}) \in Held
      <3>. HIDE DEF Held
      <3>. QED
        BY <1>4, <1>5, <2>1, NatInduct
    <2>3. S \ {a} \subseteq S \ {a} /\ Cardinality(S \ {a}) <= Cardinality(S \ {a})
      BY <2>1
    <2>. QED
      BY <2>2, <2>3
  <1>7. g[S] = f[a] + g[S \ {a}] /\ k[S] = h[a] + k[S \ {a}] /\ g[S \ {a}] \in Int
    BY <1>3
  <1>8. f[a] \in Int /\ h[a] \in Int
    OBVIOUS
  <1>9. PICK r \in Int : r = g[S \ {a}]
    BY <1>7
  <1>. QED
    BY <1>1, <1>2, <1>6, <1>7, <1>8, <1>9

\* The total of a counter that is the same everywhere but in one place.
LEMMA TotalOfEqual ==
  ASSUME NEW f, NEW S, IsFiniteSet(S), DOMAIN f = S, NEW a \in S, NEW m \in Int, f[a] \in Int,
         \A x \in S \ {a} : f[x] = m
  PROVE  Total(f) = f[a] + (Cardinality(S) - 1) * m
  <1>0. \A x \in S : f[x] \in Int
    OBVIOUS
  <1>1. PICK g : IsSum(g, f, S) /\ Total(f) = g[S]
    BY TotalIsSum
  <1>2. /\ g[{}] = 0
        /\ \A s : s \subseteq S => g[s] \in Int
        /\ \A s, x : s \subseteq S /\ x \in s => g[s] = f[x] + g[s \ {x}]
    <2>1. Adds(g, f, S)
      BY <1>0, <1>1, SumAdds
    <2>. QED
      BY <2>1 DEF Adds
  <1> DEFINE Held == {n \in Nat : \A s : s \subseteq S \ {a} /\ Cardinality(s) <= n
                                         => g[s] = Cardinality(s) * m}
  <1>3. ASSUME NEW s, s = {} PROVE g[s] = Cardinality(s) * m
    BY <1>2, <1>3, FS_EmptySet
  <1>4. 0 \in Held
    <2>1. ASSUME NEW s, s \subseteq S \ {a}, Cardinality(s) <= 0 PROVE g[s] = Cardinality(s) * m
      <3>1. s \subseteq S
        BY <2>1
      <3>. QED
        BY <1>3, <2>1, <3>1, SubsetFacts
    <2>. QED
      BY <2>1
  <1>5. ASSUME NEW n \in Nat, n \in Held PROVE n + 1 \in Held
    <2>1. ASSUME NEW s, s \subseteq S \ {a}, Cardinality(s) <= n + 1, NEW x \in s
          PROVE  g[s] = Cardinality(s) * m
      <3>0. s \subseteq S
        BY <2>1
      <3>1. s \ {x} \subseteq S \ {a} /\ Cardinality(s \ {x}) <= n
        BY <2>1, <3>0, OneOut
      <3>2. g[s \ {x}] = Cardinality(s \ {x}) * m
        BY <1>5, <3>1
      <3>3. f[x] = m
        BY <2>1
      <3>4. PICK c \in Nat : c = Cardinality(s)
        BY <3>0, SubsetFacts
      <3>5. Cardinality(s \ {x}) = c - 1
        BY <3>0, <3>4, SubsetFacts, FS_RemoveElement
      <3>6. g[s] = m + (c - 1) * m
        BY <1>2, <3>0, <3>2, <3>3, <3>5
      <3>7. m + (c - 1) * m = c * m
        OBVIOUS
      <3>. QED
        BY <3>4, <3>6, <3>7
    <2>2. \A s : s \subseteq S \ {a} /\ Cardinality(s) <= n + 1 => g[s] = Cardinality(s) * m
      BY <1>3, <2>1
    <2>. QED
      BY <2>2
  <1>6. g[S \ {a}] = Cardinality(S \ {a}) * m
    <2>1. Cardinality(S \ {a}) \in Nat
      BY SubsetFacts
    <2>2. Cardinality(S \ {a}) \in Held
      <3>. HIDE DEF Held
      <3>. QED
        BY <1>4, <1>5, <2>1, NatInduct
    <2>3. S \ {a} \subseteq S \ {a} /\ Cardinality(S \ {a}) <= Cardinality(S \ {a})
      BY <2>1
    <2>. QED
      BY <2>2, <2>3
  <1>7. Cardinality(S \ {a}) = Cardinality(S) - 1
    BY FS_RemoveElement
  <1>8. g[S] = f[a] + g[S \ {a}]
    BY <1>2
  <1>. QED
    BY <1>1, <1>6, <1>7, <1>8

\* The total of a counter that is zero everywhere.
LEMMA TotalOfZeros ==
  ASSUME NEW f, NEW S, IsFiniteSet(S), DOMAIN f = S, \A x \in S : f[x] = 0
  PROVE  Total(f) = 0
  <1>1. CASE S = {}
    <2>1. PICK g : IsSum(g, f, S) /\ Total(f) = g[S]
      BY TotalIsSum
    <2>2. Adds(g, f, S)
      BY <2>1, SumAdds
    <2>. QED
      BY <1>1, <2>1, <2>2 DEF Adds
  <1>2. CASE S # {}
    <2>1. PICK a \in S : TRUE
      BY <1>2
    <2>2. Cardinality(S) \in Nat
      BY FS_CardinalityType
    <2>3. Total(f) = f[a] + (Cardinality(S) - 1) * 0
      <3>1. f[a] \in Int /\ \A x \in S \ {a} : f[x] = 0
        OBVIOUS
      <3>. QED
        BY <2>1, <3>1, TotalOfEqual
    <2>. QED
      BY <2>1, <2>2, <2>3
  <1>. QED
    BY <1>1, <1>2

\* A total of natural numbers is an integer.
LEMMA TotalType ==
  ASSUME NEW f, NEW S, IsFiniteSet(S), DOMAIN f = S, \A x \in S : f[x] \in Int
  PROVE  Total(f) \in Int
  <1>1. PICK g : IsSum(g, f, S) /\ Total(f) = g[S]
    BY TotalIsSum
  <1>2. Adds(g, f, S)
    BY <1>1, SumAdds
  <1>. QED
    BY <1>1, <1>2 DEF Adds

-----------------------------------------------------------------------------
\* The sets that are counted are finite.
LEMMA RoundsFinite ==
  /\ IsFiniteSet(Rounds)
  /\ IsFiniteSet(Rounds \X Client)
  /\ IsFiniteSet(Client \X Sid)
  /\ IsFiniteSet(Party)
  /\ Cardinality(Rounds) \in Nat
  /\ Cardinality(Rounds \X Client) = (N - 1) * Cardinality(Rounds)
  /\ Cardinality(Party) = N
  <1>1. IsFiniteSet(StageNo \X Sid)
    <2>1. Len(Stages) \in Int
      BY StagesAssumption
    <2>2. IsFiniteSet(StageNo)
      BY <2>1, FS_Interval DEF StageNo
    <2>. QED
      BY <2>2, SidAssumption, FS_Product
  <1>2. IsFiniteSet(Rounds)
    BY <1>1, FS_Subset DEF Rounds
  <1>3. N \in Nat /\ N >= 2
    BY NAssumption
  <1>4. IsFiniteSet(Client) /\ Cardinality(Client) = N - 1
    BY <1>3, FS_Interval DEF Client
  <1>5. IsFiniteSet(Party) /\ Cardinality(Party) = N
    BY <1>3, FS_Interval DEF Party
  <1>6. Cardinality(Rounds) \in Nat
    BY <1>2, FS_CardinalityType
  <1>7. IsFiniteSet(Rounds \X Client) /\ Cardinality(Rounds \X Client) = Cardinality(Rounds) * (N - 1)
    BY <1>2, <1>4, FS_Product
  <1>8. Cardinality(Rounds) * (N - 1) = (N - 1) * Cardinality(Rounds)
    BY <1>3, <1>6
  <1>. QED
    BY <1>2, <1>4, <1>5, <1>6, <1>7, <1>8, SidAssumption, FS_Product

LEMMA OneMore ==
  ASSUME NEW U, IsFiniteSet(U), NEW S, S \subseteq U, NEW x, x \notin S
  PROVE  Cardinality(S \cup {x}) = Cardinality(S) + 1
  <1>1. IsFiniteSet(S)
    BY FS_Subset
  <1>. QED
    BY <1>1, FS_AddElement

\* A step of the counters is a step of the session.
LEMMA StatsStepIsNext == [StatsNext]_statsVars => [Next]_vars
  <1>1. CASE UNCHANGED statsVars
    BY <1>1 DEF statsVars
  <1>2. ASSUME NEW p \in Party, StatsPartyStep(p) PROVE [Next]_vars
    <2>1. ASSUME NEW s \in Sid, CountSent(p, s) PROVE UNCHANGED vars
      BY <2>1 DEF CountSent
    <2>. QED
      BY <1>2, <2>1 DEF StatsPartyStep, Next, PartyStep
  <1>3. ASSUME NEW s \in Sid, StatsKingStep(s) PROVE [Next]_vars
    BY <1>3 DEF StatsKingStep, Next, KingStep, Combine
  <1>. QED
    BY <1>1, <1>2, <1>3 DEF StatsNext, Next

\* The sets of a party that does nothing.
LEMMA SameClient ==
  ASSUME NEW c \in Client, stage'[c] = stage[c], phase'[c] = phase[c],
         \A s \in Sid : Sending(c, s)' <=> Sending(c, s)
  PROVE  Shared(c)' = Shared(c) /\ Counted(c)' = Counted(c) /\ Read(c)' = Read(c)
  BY DEF Shared, Counted, Read, Past, Sent, Got, Rounds

LEMMA SameKing ==
  ASSUME stage'[King] = stage[King], phase'[King] = phase[King], answerTo' = answerTo,
         \A s \in Sid : Sending(King, s)' <=> Sending(King, s)
  PROVE  Answers' = Answers
  BY DEF Answers, Answered, Rounds

LEMMA SameShares ==
  ASSUME \A c \in Client : Shared(c)' = Shared(c)
  PROVE  Shares' = Shares
  BY DEF Shares, Rounds

LEMMA SameUnread ==
  ASSUME up' = up
  PROVE  Unread' = Unread
  BY DEF Unread

LEMMA SetsType ==
  /\ \A c \in Client : Shared(c) \subseteq Rounds /\ Counted(c) \subseteq Rounds /\ Read(c) \subseteq Rounds
  /\ Answers \subseteq Rounds \X Client
  /\ Shares \subseteq Rounds \X Client
  BY DEF Shared, Counted, Read, Answers, Shares

\* The traffic of one party changes the unread frames as it changes its stream.
LEMMA UnreadOneChange ==
  ASSUME TypeOK, TypeOK', NEW c \in Client, NEW s \in Sid, NEW frames,
         up' = [up EXCEPT ![c][s] = frames]
  PROVE  /\ Unread \in Int
         /\ Unread' = Unread + Len(frames) - Len(up[c][s])
  <1> DEFINE f == [cs \in Client \X Sid |-> Len(up[cs[1]][cs[2]])]
             h == [cs \in Client \X Sid |-> Len(up'[cs[1]][cs[2]])]
  <1>1. up \in [Client -> [Sid -> Seq(StageNo)]] /\ up' \in [Client -> [Sid -> Seq(StageNo)]]
    BY DEF TypeOK
  <1>2. DOMAIN f = Client \X Sid /\ DOMAIN h = Client \X Sid
    OBVIOUS
  <1>3. \A x \in Client \X Sid : f[x] \in Int /\ h[x] \in Int
    BY <1>1
  <1>4. <<c, s>> \in Client \X Sid /\ h[<<c, s>>] = Len(frames) /\ f[<<c, s>>] = Len(up[c][s])
    BY <1>1
  <1>5. \A x \in (Client \X Sid) \ {<<c, s>>} : h[x] = f[x]
    BY <1>1
  <1>6. Total(f) \in Int /\ Total(h) \in Int
    <2>. HIDE DEF f, h
    <2>. QED
      BY <1>2, <1>3, RoundsFinite, TotalType
  <1>7. Total(h) - Total(f) = h[<<c, s>>] - f[<<c, s>>]
    <2>. HIDE DEF f, h
    <2>. QED
      BY <1>2, <1>3, <1>4, <1>5, RoundsFinite, TotalOneChange
  <1>8. Unread = Total(f) /\ Unread' = Total(h)
    BY DEF Unread
  <1>9. f[<<c, s>>] \in Int /\ h[<<c, s>>] \in Int
    BY <1>3, <1>4
  <1>. HIDE DEF f, h
  <1>. QED
    BY <1>4, <1>6, <1>7, <1>8, <1>9

-----------------------------------------------------------------------------
\* Once a snapshot is taken nothing runs, and nothing changes it.
LEMMA SnapshotStays ==
  ASSUME TypeOK, ReturnInv, StatsInv, UNCHANGED snapshot,
         \A p \in Party : status[p] = "returned" => status'[p] = "returned",
         \/ up' = up
         \/ \E p \in Party, s \in Sid : Active(p, s)
  PROVE  SnapshotInv' /\ SnapshotIsAllTraffic'
  <1>1. SnapshotInv'
    BY DEF StatsInv, SnapshotInv
  <1>2. ASSUME NEW p \in Party, snapshot[p] # NoSnapshot
        PROVE  /\ snapshot'[p].sent = 2 * (N - 1) * Cardinality(Rounds)'
               /\ snapshot'[p].received = snapshot'[p].sent - Unread'
    <2>1. status[p] = "returned"
      BY <1>2 DEF StatsInv, SnapshotInv
    <2>2. \A q \in Party : stage[q] = AfterLast
      BY <2>1 DEF ReturnInv
    <2>3. \A q \in Party, s \in Sid : ~ Active(q, s)
      BY <2>2, StageFacts DEF Active, StageNo, AfterLast
    <2>4. up' = up
      BY <2>3
    <2>5. Unread' = Unread
      BY <2>4, SameUnread
    <2>6. Rounds' = Rounds
      BY DEF Rounds
    <2>. QED
      BY <1>2, <2>5, <2>6 DEF StatsInv, SnapshotIsAllTraffic
  <1>. QED
    BY <1>1, <1>2 DEF SnapshotIsAllTraffic

LEMMA ClientSendStats ==
  ASSUME TypeOK, TypeOK', ReturnInv, StatsInv, NEW c \in Client, NEW s \in Sid,
         ClientSend(c, s), Flush(c, s)
  PROVE  StatsInv'
  <1>0. c \in Party /\ c # King /\ King \in Party
    BY PartyFacts
  <1>. USE <1>0
  <1> DEFINE r == <<stage[c], s>>
  <1>1. /\ stage' = stage /\ answerTo' = answerTo /\ status' = status
        /\ phase[c][s] = "send" /\ Uses(c, s) /\ Active(c, s)
        /\ phase' = [phase EXCEPT ![c][s] = "await"]
        /\ up' = [up EXCEPT ![c][s] = Append(up[c][s], stage[c])]
        /\ sent' = sent /\ received' = received /\ snapshot' = snapshot
        /\ uncounted' = uncounted \cup {<<c, s>>}
    BY DEF ClientSend, Flush, Active, Uses
  <1>2. phase \in [Party -> [Sid -> Phase]] /\ up \in [Client -> [Sid -> Seq(StageNo)]] /\ stage[c] \in StageNo
    BY <1>1 DEF TypeOK, Uses
  <1>3. \A p \in Party, z \in Sid :
          <<p, z>> # <<c, s>> => phase'[p][z] = phase[p][z] /\ (Sending(p, z)' <=> Sending(p, z))
    BY <1>1, <1>2 DEF Sending
  <1>4. phase'[c][s] = "await" /\ Sending(c, s)'
    BY <1>1, <1>2 DEF Sending
  <1>5. \A p \in Party : p # c => phase'[p] = phase[p]
    BY <1>1, <1>2
  <1>6. ASSUME NEW d \in Client, d # c
        PROVE  Shared(d)' = Shared(d) /\ Counted(d)' = Counted(d) /\ Read(d)' = Read(d)
    BY <1>1, <1>3, <1>5, <1>6, PartyFacts, SameClient
  <1>7. Answers' = Answers
    BY <1>1, <1>3, <1>5, SameKing
  <1>8. Counted(c)' = Counted(c) /\ Read(c)' = Read(c)
    BY <1>1, <1>3, <1>4 DEF Counted, Read, Past, Sent, Got, Rounds
  <1>9. r \in Rounds /\ r \notin Shared(c) /\ Shared(c)' = Shared(c) \cup {r}
    <2>1. r \in Rounds /\ r \notin Shared(c)
      BY <1>1, <1>2 DEF Rounds, Uses, Shared, Past, Sent, StageNo
    <2>2. \A x \in Rounds : x \in Shared(c)' <=> x \in Shared(c) \/ x = r
      BY <1>1, <1>3, <1>4 DEF Shared, Past, Sent, Rounds
    <2>3. Shared(c)' \subseteq Rounds /\ Shared(c) \subseteq Rounds
      BY DEF Shared, Rounds
    <2>. QED
      BY <2>1, <2>2, <2>3
  <1>10. Cardinality(Shares') = Cardinality(Shares) + 1
    <2>1. Shares' = Shares \cup {<<r, c>>} /\ <<r, c>> \notin Shares
      <3>. HIDE DEF r
      <3>. QED
        BY <1>6, <1>9 DEF Shares, Rounds
    <2>. QED
      BY <2>1, SetsType, RoundsFinite, OneMore
  <1>11. Unread \in Int /\ Unread' = Unread + 1
    <2>1. up[c][s] \in Seq(StageNo)
      BY <1>2
    <2>2. Len(Append(up[c][s], stage[c])) = Len(up[c][s]) + 1 /\ Len(up[c][s]) \in Nat
      BY <1>2, <2>1
    <2>3. /\ Unread \in Int
          /\ Unread' = Unread + Len(Append(up[c][s], stage[c])) - Len(up[c][s])
      BY <1>1, UnreadOneChange
    <2>. QED
      BY <2>2, <2>3
  <1>12. CountersInv'
    <2>1. Cardinality(Shares) \in Nat /\ received[King] \in Nat
      BY SetsType, RoundsFinite, FS_Subset, FS_CardinalityType DEF StatsInv, CountersType
    <2>. QED
      BY <1>1, <1>6, <1>7, <1>8, <1>10, <1>11, <2>1 DEF StatsInv, CountersInv
  <1>13. UncountedInv'
    <2>. SUFFICES ASSUME NEW p \in Party, NEW z \in Sid, Sending(p, z)'
                  PROVE  /\ Uses(p, z)'
                         /\ p # King => phase'[p][z] = "await"
                         /\ p = King => phase'[King][z] \in {"reply", "done"} /\ answerTo'[z] \in 2 .. N
      BY DEF UncountedInv
    <2>1. Uses(p, z)' <=> Uses(p, z)
      BY <1>1 DEF Uses
    <2>. QED
      BY <1>1, <1>3, <1>4, <2>1 DEF StatsInv, UncountedInv
  <1>14. CountersType'
    BY <1>1 DEF StatsInv, CountersType
  <1>. QED
    BY <1>1, <1>12, <1>13, <1>14, SnapshotStays DEF StatsInv

LEMMA ClientReceiveStats ==
  ASSUME TypeOK, TypeOK', ReturnInv, StatsInv, NEW c \in Client, NEW s \in Sid,
         ~ Sending(c, s), ClientReceive(c, s), CountReceived(c)
  PROVE  StatsInv'
  <1>0. c \in Party /\ c # King /\ King \in Party
    BY PartyFacts
  <1>. USE <1>0
  <1> DEFINE r == <<stage[c], s>>
  <1>1. /\ stage' = stage /\ answerTo' = answerTo /\ up' = up
        /\ phase[c][s] = "await" /\ Uses(c, s) /\ Active(c, s)
        /\ phase' = [phase EXCEPT ![c][s] = "done"]
        /\ \A p \in Party : status[p] = "returned" => status'[p] = "returned"
        /\ received' = [received EXCEPT ![c] = @ + 1]
        /\ sent' = sent /\ uncounted' = uncounted /\ snapshot' = snapshot
    BY DEF ClientReceive, CountReceived, Active, Uses, TypeOK
  <1>2. phase \in [Party -> [Sid -> Phase]] /\ stage[c] \in StageNo
    BY <1>1 DEF TypeOK, Uses
  <1>3. \A p \in Party, z \in Sid :
          /\ <<p, z>> # <<c, s>> => phase'[p][z] = phase[p][z]
          /\ Sending(p, z)' <=> Sending(p, z)
    BY <1>1, <1>2 DEF Sending
  <1>4. phase'[c][s] = "done"
    BY <1>1, <1>2
  <1>5. \A p \in Party : p # c => phase'[p] = phase[p]
    BY <1>1, <1>2
  <1>6. ASSUME NEW d \in Client, d # c
        PROVE  Shared(d)' = Shared(d) /\ Counted(d)' = Counted(d) /\ Read(d)' = Read(d)
    BY <1>1, <1>3, <1>5, <1>6, PartyFacts, SameClient
  <1>7. Answers' = Answers
    BY <1>1, <1>3, <1>5, SameKing
  <1>8. Shared(c)' = Shared(c) /\ Counted(c)' = Counted(c)
    BY <1>1, <1>3, <1>4 DEF Shared, Counted, Past, Sent, Rounds
  <1>9. Shares' = Shares
    BY <1>6, <1>8, SameShares
  <1>10. Cardinality(Read(c)') = Cardinality(Read(c)) + 1
    <2>1. r \in Rounds /\ r \notin Read(c)
      BY <1>1, <1>2 DEF Rounds, Uses, Read, Past, Got, StageNo
    <2>2. \A x \in Rounds : x \in Read(c)' <=> x \in Read(c) \/ x = r
      BY <1>1, <1>3, <1>4 DEF Read, Past, Got, Rounds
    <2>3. Read(c)' \subseteq Rounds /\ Read(c) \subseteq Rounds
      BY DEF Read, Rounds
    <2>4. Read(c)' = Read(c) \cup {r}
      BY <2>1, <2>2, <2>3
    <2>. QED
      BY <2>1, <2>3, <2>4, RoundsFinite, OneMore
  <1>11. Unread' = Unread
    BY <1>1, SameUnread
  <1>12. CountersInv'
    <2>1. received'[King] = received[King] /\ received'[c] = received[c] + 1
      BY <1>1 DEF StatsInv, CountersType
    <2>2. \A d \in Client : d # c => received'[d] = received[d]
      BY <1>1, PartyFacts DEF StatsInv, CountersType
    <2>. QED
      BY <1>1, <1>6, <1>7, <1>8, <1>9, <1>10, <1>11, <2>1, <2>2 DEF StatsInv, CountersInv
  <1>13. UncountedInv'
    <2>. SUFFICES ASSUME NEW p \in Party, NEW z \in Sid, Sending(p, z)'
                  PROVE  /\ Uses(p, z)'
                         /\ p # King => phase'[p][z] = "await"
                         /\ p = King => phase'[King][z] \in {"reply", "done"} /\ answerTo'[z] \in 2 .. N
      BY DEF UncountedInv
    <2>1. Uses(p, z)' <=> Uses(p, z)
      BY <1>1 DEF Uses
    <2>2. Sending(p, z) /\ <<p, z>> # <<c, s>>
      BY <1>3
    <2>. QED
      BY <1>1, <1>3, <2>1, <2>2 DEF StatsInv, UncountedInv
  <1>14. CountersType'
    BY <1>1 DEF StatsInv, CountersType
  <1>15. SnapshotInv' /\ SnapshotIsAllTraffic'
    BY <1>1, SnapshotStays
  <1>. QED
    BY <1>12, <1>13, <1>14, <1>15 DEF StatsInv

\* What is uncounted belongs to the round that its party is in.
LEMMA CountSentStats ==
  ASSUME TypeOK, TypeOK', ReturnInv, StatsInv, NEW p \in Party, NEW s \in Sid, CountSent(p, s)
  PROVE  StatsInv'
  <1> DEFINE r == <<stage[p], s>>
  <1>1. /\ stage' = stage /\ phase' = phase /\ answerTo' = answerTo /\ up' = up /\ status' = status
        /\ received' = received /\ snapshot' = snapshot
        /\ Sending(p, s) /\ Uses(p, s)
        /\ sent' = [sent EXCEPT ![p] = @ + 1]
        /\ uncounted' = uncounted \ {<<p, s>>}
    BY DEF CountSent, vars, Sending, StatsInv, UncountedInv
  <1>2. \A q \in Party, z \in Sid :
          Sending(q, z)' <=> Sending(q, z) /\ <<q, z>> # <<p, s>>
    BY <1>1 DEF Sending
  <1>3. ASSUME NEW d \in Client, d # p
        PROVE  Shared(d)' = Shared(d) /\ Counted(d)' = Counted(d) /\ Read(d)' = Read(d)
    BY <1>1, <1>2, <1>3, PartyFacts, SameClient
  <1>4. ASSUME NEW d \in Client
        PROVE  Shared(d)' = Shared(d) /\ Read(d)' = Read(d)
    BY <1>1 DEF Shared, Read, Past, Sent, Got, Rounds
  <1>5. Shares' = Shares
    BY <1>4, SameShares
  <1>6. Unread' = Unread
    BY <1>1, SameUnread
  <1>7. stage[p] \in StageNo /\ r \in Rounds
    BY <1>1 DEF Uses, Rounds
  <1>8. \A q \in Party : sent'[q] = IF q = p THEN sent[q] + 1 ELSE sent[q]
    BY <1>1 DEF StatsInv, CountersType
  <1>9. ASSUME p \in Client PROVE CountersInv'
    <2>0. p # King /\ King \in Party
      BY <1>9, PartyFacts
    <2>1. Answers' = Answers
      BY <1>1, <1>2, <2>0, SameKing
    <2>2. phase[p][s] = "await"
      BY <1>1, <2>0 DEF StatsInv, UncountedInv
    <2>3. r \notin Counted(p)
      BY <1>1, <1>7 DEF Counted, Past, StageNo
    <2>4. \A x \in Rounds : x \in Counted(p)' <=> x \in Counted(p) \/ x = r
      BY <1>1, <1>2, <1>7, <2>2 DEF Counted, Past, Sent, Rounds
    <2>5. Counted(p)' \subseteq Rounds /\ Counted(p) \subseteq Rounds
      BY DEF Counted, Rounds
    <2>6. Counted(p)' = Counted(p) \cup {r}
      BY <1>7, <2>4, <2>5
    <2>7. Cardinality(Counted(p)') = Cardinality(Counted(p)) + 1
      BY <2>3, <2>5, <2>6, RoundsFinite, OneMore
    <2>. QED
      BY <1>1, <1>3, <1>4, <1>5, <1>6, <1>8, <2>0, <2>1, <2>7, PartyFacts DEF StatsInv, CountersInv
  <1>10. ASSUME p = King PROVE CountersInv'
    <2>0. \A d \in Client : d \in Party /\ d # p
      BY <1>10, PartyFacts
    <2> DEFINE a == <<r, answerTo[s] - 1>>
    <2>1. phase[King][s] \in {"reply", "done"} /\ answerTo[s] \in 2 .. N
      BY <1>1, <1>10 DEF StatsInv, UncountedInv
    <2>2. N \in Nat /\ answerTo[s] - 1 \in Client /\ answerTo[s] - 1 < answerTo[s]
          /\ answerTo[s] = (answerTo[s] - 1) + 1
      BY <2>1, NAssumption DEF Client
    <2>3. a \in Rounds \X Client /\ a \notin Answers
      BY <1>1, <1>7, <1>10, <2>2 DEF Answers
    <2>4. \A x \in Rounds \X Client : x \in Answers' <=> x \in Answers \/ x = a
      <3>. TAKE x \in Rounds \X Client
      <3>1. x = <<x[1], x[2]>> /\ x[1] = <<x[1][1], x[1][2]>> /\ x[2] \in Client /\ x[1][2] \in Sid
        BY DEF Rounds
      <3>2. x[2] \in Int /\ answerTo[s] \in Int
        BY <2>1, <3>1, NAssumption DEF Client
      <3>3. Answered(x[1][1], x[1][2], x[2])' <=> Answered(x[1][1], x[1][2], x[2])
        BY <1>1 DEF Answered
      <3>4. Answered(stage[King], s, answerTo[s] - 1)
        BY <2>1, <2>2 DEF Answered
      <3>5. x = a <=> x[1][1] = stage[King] /\ x[1][2] = s /\ answerTo[s] = x[2] + 1
        BY <1>10, <3>1, <3>2
      <3>6. Sending(King, x[1][2])' <=> Sending(King, x[1][2]) /\ x[1][2] # s
        BY <1>2, <1>10, <3>1
      <3>7. x \in Answers <=>
              /\ Answered(x[1][1], x[1][2], x[2])
              /\ ~ (x[1][1] = stage[King] /\ Sending(King, x[1][2]) /\ answerTo[x[1][2]] = x[2] + 1)
        BY DEF Answers
      <3>8. x \in Answers' <=>
              /\ Answered(x[1][1], x[1][2], x[2])'
              /\ ~ (x[1][1] = stage[King] /\ Sending(King, x[1][2])' /\ answerTo[x[1][2]] = x[2] + 1)
        BY <1>1 DEF Answers, Rounds
      <3>9. CASE x = a
        <4>1. x[2] = answerTo[s] - 1
          BY <3>9
        <4>. QED
          BY <1>10, <3>3, <3>4, <3>5, <3>6, <3>8, <3>9, <4>1
      <3>10. CASE x # a
        <4>. HIDE DEF a
        <4>. QED
          BY <3>3, <3>5, <3>6, <3>7, <3>8, <3>10
      <3>. QED
        BY <3>9, <3>10
    <2>5. Answers' \subseteq Rounds \X Client /\ Answers \subseteq Rounds \X Client
      BY DEF Answers, Rounds
    <2>6. Answers' = Answers \cup {a}
      <3>. HIDE DEF a
      <3>. QED
        BY <2>3, <2>4, <2>5
    <2>7. Cardinality(Answers') = Cardinality(Answers) + 1
      <3>. HIDE DEF a
      <3>. QED
        BY <2>3, <2>5, <2>6, RoundsFinite, OneMore
    <2>8. \A d \in Client : Counted(d)' = Counted(d)
      BY <1>3, <2>0
    <2>. QED
      BY <1>1, <1>4, <1>5, <1>6, <1>8, <1>10, <2>0, <2>7, <2>8 DEF StatsInv, CountersInv
  <1>11. CountersInv'
    BY <1>9, <1>10, PartyFacts
  <1>12. UncountedInv'
    <2>. SUFFICES ASSUME NEW q \in Party, NEW z \in Sid, Sending(q, z)'
                  PROVE  /\ Uses(q, z)'
                         /\ q # King => phase'[q][z] = "await"
                         /\ q = King => phase'[King][z] \in {"reply", "done"} /\ answerTo'[z] \in 2 .. N
      BY DEF UncountedInv
    <2>1. (Uses(q, z)' <=> Uses(q, z)) /\ Sending(q, z)
      BY <1>1, <1>2 DEF Uses
    <2>. QED
      BY <1>1, <2>1 DEF StatsInv, UncountedInv
  <1>13. CountersType'
    BY <1>1 DEF StatsInv, CountersType
  <1>14. SnapshotInv' /\ SnapshotIsAllTraffic'
    BY <1>1, SnapshotStays
  <1>. QED
    BY <1>11, <1>12, <1>13, <1>14 DEF StatsInv

LEMMA KingReceiveStats ==
  ASSUME TypeOK, TypeOK', ReturnInv, StatsInv, NEW c \in Client, NEW s \in Sid,
         KingReceive(c, s), CountReceived(King)
  PROVE  StatsInv'
  <1>0. King \in Party /\ \A d \in Client : d \in Party /\ d # King
    BY PartyFacts
  <1>1. /\ stage' = stage /\ phase' = phase /\ answerTo' = answerTo /\ status' = status
        /\ Active(King, s) /\ up[c][s] # <<>>
        /\ up' = [up EXCEPT ![c][s] = Tail(up[c][s])]
        /\ received' = [received EXCEPT ![King] = @ + 1]
        /\ sent' = sent /\ uncounted' = uncounted /\ snapshot' = snapshot
    BY DEF KingReceive, CountReceived
  <1>2. \A p \in Party, z \in Sid : Sending(p, z)' <=> Sending(p, z)
    BY <1>1 DEF Sending
  <1>3. ASSUME NEW d \in Client
        PROVE  Shared(d)' = Shared(d) /\ Counted(d)' = Counted(d) /\ Read(d)' = Read(d)
    BY <1>0, <1>1, <1>2, SameClient
  <1>4. Answers' = Answers
    BY <1>0, <1>1, <1>2, SameKing
  <1>5. Shares' = Shares
    BY <1>3, SameShares
  <1>6. Unread \in Int /\ Unread' = Unread - 1
    <2>1. up[c][s] \in Seq(StageNo)
      BY DEF TypeOK
    <2>2. Len(Tail(up[c][s])) = Len(up[c][s]) - 1 /\ Len(up[c][s]) \in Nat
      BY <1>1, <2>1
    <2>3. /\ Unread \in Int
          /\ Unread' = Unread + Len(Tail(up[c][s])) - Len(up[c][s])
      BY <1>1, UnreadOneChange
    <2>. QED
      BY <2>2, <2>3
  <1>7. CountersInv'
    <2>1. received'[King] = received[King] + 1 /\ received[King] \in Nat
      BY <1>0, <1>1 DEF StatsInv, CountersType
    <2>2. \A d \in Client : received'[d] = received[d]
      BY <1>0, <1>1 DEF StatsInv, CountersType
    <2>3. received'[King] + Unread' = received[King] + Unread
      BY <1>6, <2>1
    <2>. QED
      BY <1>1, <1>3, <1>4, <1>5, <2>2, <2>3 DEF StatsInv, CountersInv
  <1>8. UncountedInv'
    BY <1>1 DEF StatsInv, UncountedInv, Sending, Uses
  <1>9. CountersType'
    BY <1>0, <1>1 DEF StatsInv, CountersType
  <1>10. SnapshotInv' /\ SnapshotIsAllTraffic'
    BY <1>0, <1>1, SnapshotStays
  <1>. QED
    BY <1>7, <1>8, <1>9, <1>10 DEF StatsInv

\* Combining a round answers nobody yet, and follows on no uncounted answer.
LEMMA CombineStats ==
  ASSUME TypeOK, TypeOK', ReturnInv, StatsInv, NEW s \in Sid,
         Collecting(s), CombineFull(s) \/ CombinePartial(s), UNCHANGED counters
  PROVE  StatsInv'
  <1>0. King \in Party /\ \A d \in Client : d \in Party /\ d # King
    BY PartyFacts
  <1>1. /\ stage' = stage /\ up' = up
        /\ Active(King, s) /\ phase[King][s] = "collect"
        /\ sent' = sent /\ received' = received /\ uncounted' = uncounted /\ snapshot' = snapshot
    BY DEF Collecting, CombineFull, CombinePartial, counters
  <1>2. \/ phase' = phase /\ answerTo' = answerTo
        \/ /\ phase' = [phase EXCEPT ![King][s] = "reply"]
           /\ answerTo' = [answerTo EXCEPT ![s] = 1]
    BY DEF CombineFull, CombinePartial
  <1>3. status' = status \/ status' = [status EXCEPT ![King] = "panicked"]
    BY DEF CombineFull, CombinePartial
  <1>4. \A p \in Party : status[p] = "returned" => status'[p] = "returned"
    BY <1>0, <1>1, <1>3 DEF TypeOK, Active
  <1>5. phase \in [Party -> [Sid -> Phase]] /\ answerTo \in [Sid -> 1 .. N]
    BY DEF TypeOK
  <1>6. \A p \in Party, z \in Sid : Sending(p, z)' <=> Sending(p, z)
    BY <1>1 DEF Sending
  <1>7. ~ Sending(King, s)
    BY <1>0, <1>1 DEF StatsInv, UncountedInv
  <1>8. \A d \in Client : phase'[d] = phase[d]
    BY <1>0, <1>2, <1>5
  <1>9. ASSUME NEW d \in Client
        PROVE  Shared(d)' = Shared(d) /\ Counted(d)' = Counted(d) /\ Read(d)' = Read(d)
    BY <1>0, <1>1, <1>6, <1>8, SameClient
  <1>10. Answers' = Answers
    <2>1. CASE phase' = phase /\ answerTo' = answerTo
      BY <1>0, <1>1, <1>6, <2>1, SameKing
    <2>2. CASE /\ phase' = [phase EXCEPT ![King][s] = "reply"]
               /\ answerTo' = [answerTo EXCEPT ![s] = 1]
      <3>1. \A z \in Sid : z # s => phase'[King][z] = phase[King][z] /\ answerTo'[z] = answerTo[z]
        BY <1>0, <1>5, <2>2
      <3>2. phase'[King][s] = "reply" /\ answerTo'[s] = 1
        BY <1>0, <1>5, <2>2
      <3>3. \A d \in Client : d \in Int /\ ~ (d < 1)
        BY PartyFacts DEF Client
      <3>4. \A k \in StageNo, z \in Sid, d \in Client : Answered(k, z, d)' <=> Answered(k, z, d)
        BY <1>1, <3>1, <3>2, <3>3 DEF Answered
      <3>5. \A z \in Sid : Sending(King, z) => answerTo'[z] = answerTo[z]
        BY <1>7, <3>1
      <3>. QED
        BY <1>0, <1>1, <1>6, <3>4, <3>5 DEF Answers, Rounds
    <2>. QED
      BY <1>2, <2>1, <2>2
  <1>11. Shares' = Shares
    BY <1>9, SameShares
  <1>12. Unread' = Unread
    BY <1>1, SameUnread
  <1>13. CountersInv'
    BY <1>1, <1>9, <1>10, <1>11, <1>12 DEF StatsInv, CountersInv
  <1>14. UncountedInv'
    <2>. SUFFICES ASSUME NEW q \in Party, NEW z \in Sid, Sending(q, z)'
                  PROVE  /\ Uses(q, z)'
                         /\ q # King => phase'[q][z] = "await"
                         /\ q = King => phase'[King][z] \in {"reply", "done"} /\ answerTo'[z] \in 2 .. N
      BY DEF UncountedInv
    <2>1. (Uses(q, z)' <=> Uses(q, z)) /\ Sending(q, z)
      BY <1>1, <1>6 DEF Uses
    <2>2. q = King => z # s
      BY <1>7, <2>1
    <2>3. q = King => phase'[King][z] = phase[King][z] /\ answerTo'[z] = answerTo[z]
      BY <1>2, <1>5, <2>2
    <2>4. q # King => phase'[q] = phase[q]
      BY <1>8, PartyFacts
    <2>. QED
      BY <2>1, <2>3, <2>4 DEF StatsInv, UncountedInv
  <1>15. CountersType'
    BY <1>1 DEF StatsInv, CountersType
  <1>16. SnapshotInv' /\ SnapshotIsAllTraffic'
    BY <1>1, <1>4, SnapshotStays
  <1>. QED
    BY <1>13, <1>14, <1>15, <1>16 DEF StatsInv

\* An answer is flushed: it is given, and not yet counted.
LEMMA KingReplyStats ==
  ASSUME TypeOK, TypeOK', ReturnInv, StatsInv, NEW s \in Sid,
         ~ Sending(King, s), KingReply(s), Flush(King, s)
  PROVE  StatsInv'
  <1>0. King \in Party /\ \A d \in Client : d \in Party /\ d # King
    BY PartyFacts
  <1>1. PICK c \in Client :
          /\ c = answerTo[s] /\ Active(King, s) /\ phase[King][s] = "reply"
          /\ answerTo' = [answerTo EXCEPT ![s] = c + 1]
          /\ phase' = [phase EXCEPT ![King][s] = IF c = N - 1 THEN "done" ELSE @]
          /\ stage' = stage /\ up' = up /\ status' = status
          /\ sent' = sent /\ received' = received /\ snapshot' = snapshot
          /\ uncounted' = uncounted \cup {<<King, s>>}
    BY DEF KingReply, Flush
  <1>2. phase \in [Party -> [Sid -> Phase]] /\ answerTo \in [Sid -> 1 .. N]
    BY DEF TypeOK
  <1>3. \A z \in Sid : z # s => phase'[King][z] = phase[King][z] /\ answerTo'[z] = answerTo[z]
    BY <1>0, <1>1, <1>2
  <1>4. phase'[King][s] = (IF c = N - 1 THEN "done" ELSE "reply") /\ answerTo'[s] = c + 1
    BY <1>0, <1>1, <1>2
  <1>5. \A q \in Party, z \in Sid : Sending(q, z)' <=> Sending(q, z) \/ <<q, z>> = <<King, s>>
    BY <1>1 DEF Sending
  <1>6. \A d \in Client : phase'[d] = phase[d]
    BY <1>0, <1>1, <1>2
  <1>7. ASSUME NEW d \in Client
        PROVE  Shared(d)' = Shared(d) /\ Counted(d)' = Counted(d) /\ Read(d)' = Read(d)
    BY <1>0, <1>1, <1>5, <1>6, SameClient
  <1>8. \A d \in Client : d \in Int /\ d <= N - 1 /\ N \in Int
    BY NAssumption DEF Client
  <1>9. ASSUME NEW a \in Rounds \X Client
        PROVE  a \in Answers' <=> a \in Answers
    <2>1. a[2] \in Client /\ a[2] \in Int /\ a[1][2] \in Sid /\ c \in Int
      BY <1>8 DEF Rounds
    <2>2. a \in Answers <=>
            /\ Answered(a[1][1], a[1][2], a[2])
            /\ ~ (a[1][1] = stage[King] /\ Sending(King, a[1][2]) /\ answerTo[a[1][2]] = a[2] + 1)
      BY DEF Answers
    <2>3. a \in Answers' <=>
            /\ Answered(a[1][1], a[1][2], a[2])'
            /\ ~ (a[1][1] = stage[King] /\ Sending(King, a[1][2])' /\ answerTo'[a[1][2]] = a[2] + 1)
      BY <1>1 DEF Answers, Rounds
    <2>4. CASE a[1][1] = stage[King] /\ a[1][2] = s
      <3>1. stage[King] \in Int /\ ~ (stage[King] < stage[King])
        BY <1>0, StageFacts DEF TypeOK, AfterLast
      <3>2. Answered(a[1][1], a[1][2], a[2]) <=> a[2] < c
        BY <1>1, <2>4, <3>1 DEF Answered
      <3>3. Answered(a[1][1], a[1][2], a[2])' <=> c = N - 1 \/ a[2] < c + 1
        BY <1>1, <1>4, <2>4, <3>1 DEF Answered
      <3>4. answerTo'[s] = a[2] + 1 <=> a[2] = c
        BY <1>4, <2>1
      <3>5. Sending(King, s)' /\ ~ Sending(King, s)
        BY <1>0, <1>5
      <3>6. a[2] <= N - 1 /\ c <= N - 1 /\ N \in Int
        BY <1>8, <2>1
      <3>. QED
        BY <2>1, <2>2, <2>3, <2>4, <3>2, <3>3, <3>4, <3>5, <3>6
    <2>5. CASE ~ (a[1][1] = stage[King] /\ a[1][2] = s)
      <3>1. Answered(a[1][1], a[1][2], a[2])' <=> Answered(a[1][1], a[1][2], a[2])
        BY <1>1, <1>3, <2>1, <2>5 DEF Answered
      <3>2. a[1][1] = stage[King] => (Sending(King, a[1][2])' <=> Sending(King, a[1][2]))
                                     /\ answerTo'[a[1][2]] = answerTo[a[1][2]]
        BY <1>0, <1>3, <1>5, <2>1, <2>5
      <3>. QED
        BY <2>2, <2>3, <3>1, <3>2
    <2>. QED
      BY <2>4, <2>5
  <1>10. Answers' = Answers
    <2>1. Answers' \subseteq Rounds \X Client /\ Answers \subseteq Rounds \X Client
      BY DEF Answers, Rounds
    <2>. QED
      BY <1>9, <2>1
  <1>11. Shares' = Shares
    BY <1>7, SameShares
  <1>12. Unread' = Unread
    BY <1>1, SameUnread
  <1>13. CountersInv'
    BY <1>1, <1>7, <1>10, <1>11, <1>12 DEF StatsInv, CountersInv
  <1>14. UncountedInv'
    <2>. SUFFICES ASSUME NEW q \in Party, NEW z \in Sid, Sending(q, z)'
                  PROVE  /\ Uses(q, z)'
                         /\ q # King => phase'[q][z] = "await"
                         /\ q = King => phase'[King][z] \in {"reply", "done"} /\ answerTo'[z] \in 2 .. N
      BY DEF UncountedInv
    <2>1. Uses(q, z)' <=> Uses(q, z)
      BY <1>1 DEF Uses
    <2>2. CASE <<q, z>> = <<King, s>>
      <3>1. Uses(q, z)
        BY <1>1, <2>2 DEF Active, Uses
      <3>2. c + 1 \in 2 .. N
        BY NAssumption DEF Client
      <3>. QED
        BY <1>4, <2>1, <2>2, <3>1, <3>2
    <2>3. CASE <<q, z>> # <<King, s>>
      <3>1. Sending(q, z)
        BY <1>5, <2>3
      <3>2. q # King => phase'[q] = phase[q]
        BY <1>6, PartyFacts
      <3>. QED
        BY <1>3, <2>1, <2>3, <3>1, <3>2 DEF StatsInv, UncountedInv
    <2>. QED
      BY <2>2, <2>3
  <1>15. CountersType'
    BY <1>0, <1>1 DEF StatsInv, CountersType
  <1>16. SnapshotInv' /\ SnapshotIsAllTraffic'
    BY <1>1, SnapshotStays
  <1>. QED
    BY <1>13, <1>14, <1>15, <1>16 DEF StatsInv

\* The rounds of a stage are all done when its party goes on, and counted.
LEMMA AdvanceStats ==
  ASSUME TypeOK, TypeOK', ReturnInv, StatsInv, NEW p \in Party,
         \A s \in Sid : ~ Sending(p, s), Advance(p), UNCHANGED counters
  PROVE  StatsInv'
  <1>0. King \in Party /\ \A d \in Client : d \in Party /\ d # King
    BY PartyFacts
  <1>1. PICK k \in StageNo :
          /\ k = stage[p]
          /\ \A s \in Stages[k].sids : phase[p][s] = "done"
          /\ stage' = [stage EXCEPT ![p] = k + 1]
          /\ phase' = [phase EXCEPT ![p] = Enter(p, k + 1)]
          /\ up' = up /\ answerTo' = answerTo /\ status' = status
    BY DEF Advance
  <1>2. sent' = sent /\ received' = received /\ uncounted' = uncounted /\ snapshot' = snapshot
    BY DEF counters
  <1>3. /\ stage'[p] = k + 1 /\ phase'[p] = Enter(p, k + 1)
        /\ \A q \in Party : q # p => stage'[q] = stage[q] /\ phase'[q] = phase[q]
    BY <1>1 DEF TypeOK
  <1>4. \A q \in Party, z \in Sid : Sending(q, z)' <=> Sending(q, z)
    BY <1>2 DEF Sending
  <1>5. k \in Int /\ \A x \in Rounds : x[1] \in Int /\ x[2] \in Stages[x[1]].sids /\ x[2] \in Sid
    BY DEF StageNo, Rounds
  <1>6. ASSUME NEW d \in Client, d # p
        PROVE  Shared(d)' = Shared(d) /\ Counted(d)' = Counted(d) /\ Read(d)' = Read(d)
    BY <1>0, <1>3, <1>4, <1>6, SameClient
  <1>7. ASSUME p \in Client
        PROVE  Shared(p)' = Shared(p) /\ Counted(p)' = Counted(p) /\ Read(p)' = Read(p)
    <2>1. p # King
      BY <1>0, <1>7
    <2>2. \A s \in Sid : phase'[p][s] \in {"send", "idle"}
      BY <1>3, <2>1 DEF Enter
    <2>3. \A s \in Sid : ~ Sent(p, s)' /\ ~ Got(p, s)'
      BY <2>2 DEF Sent, Got
    <2>4. \A s \in Stages[k].sids : Sent(p, s) /\ Got(p, s)
      BY <1>1 DEF Sent, Got
    <2>5. \A x \in Rounds : Past(p, x)' <=> Past(p, x) \/ x[1] = stage[p]
      BY <1>1, <1>3, <1>5 DEF Past
    <2>6. Rounds' = Rounds
      BY DEF Rounds
    <2>7. \A x \in Rounds :
            /\ x \in Shared(p)' <=> x \in Shared(p)
            /\ x \in Counted(p)' <=> x \in Counted(p)
            /\ x \in Read(p)' <=> x \in Read(p)
      BY <1>1, <1>4, <1>5, <2>3, <2>4, <2>5, <2>6 DEF Shared, Counted, Read
    <2>8. /\ Shared(p)' \subseteq Rounds /\ Counted(p)' \subseteq Rounds /\ Read(p)' \subseteq Rounds
          /\ Shared(p) \subseteq Rounds /\ Counted(p) \subseteq Rounds /\ Read(p) \subseteq Rounds
      BY <2>6 DEF Shared, Counted, Read
    <2>. QED
      BY <2>7, <2>8
  <1>8. \A d \in Client : Shared(d)' = Shared(d) /\ Counted(d)' = Counted(d) /\ Read(d)' = Read(d)
    BY <1>6, <1>7
  <1>9. Answers' = Answers
    <2>1. CASE p # King
      BY <1>0, <1>1, <1>3, <1>4, <2>1, SameKing
    <2>2. CASE p = King
      <3>1. \A s \in Sid : phase'[King][s] \in {"collect", "idle"}
        BY <1>3, <2>2 DEF Enter
      <3>2. ASSUME NEW x \in Rounds, NEW d \in Client
            PROVE  Answered(x[1], x[2], d)' <=> Answered(x[1], x[2], d)
        BY <1>1, <1>3, <1>5, <2>2, <3>1 DEF Answered
      <3>3. \A s \in Sid : ~ Sending(King, s) /\ ~ Sending(King, s)'
        BY <1>4, <2>2, <1>0
      <3>4. \A a \in Rounds \X Client : a[1] \in Rounds /\ a[2] \in Client /\ a[1][2] \in Sid
        BY <1>5
      <3>5. Rounds' = Rounds
        BY DEF Rounds
      <3>6. \A a \in Rounds \X Client : a \in Answers' <=> a \in Answers
        BY <3>2, <3>3, <3>4, <3>5 DEF Answers
      <3>7. Answers' \subseteq Rounds \X Client /\ Answers \subseteq Rounds \X Client
        BY <3>5 DEF Answers
      <3>. QED
        BY <3>6, <3>7
    <2>. QED
      BY <2>1, <2>2
  <1>10. Shares' = Shares
    BY <1>8, SameShares
  <1>11. Unread' = Unread
    BY <1>1, SameUnread
  <1>12. CountersInv'
    BY <1>2, <1>8, <1>9, <1>10, <1>11 DEF StatsInv, CountersInv
  <1>13. UncountedInv'
    <2>. SUFFICES ASSUME NEW q \in Party, NEW z \in Sid, Sending(q, z)'
                  PROVE  /\ Uses(q, z)'
                         /\ q # King => phase'[q][z] = "await"
                         /\ q = King => phase'[King][z] \in {"reply", "done"} /\ answerTo'[z] \in 2 .. N
      BY DEF UncountedInv
    <2>1. Sending(q, z) /\ q # p
      BY <1>4
    <2>2. Uses(q, z)' <=> Uses(q, z)
      BY <1>3, <2>1 DEF Uses
    <2>. QED
      BY <1>1, <1>3, <2>1, <2>2 DEF StatsInv, UncountedInv
  <1>14. CountersType'
    BY <1>2 DEF StatsInv, CountersType
  <1>15. SnapshotInv' /\ SnapshotIsAllTraffic'
    BY <1>1, <1>2, SnapshotStays
  <1>. QED
    BY <1>12, <1>13, <1>14, <1>15 DEF StatsInv

\* At the barrier every frame is flushed and counted, and the totals are those
\* of all the rounds.
LEMMA TotalsAtBarrier ==
  ASSUME TypeOK, StatsInv, \A q \in Party : stage[q] = AfterLast
  PROVE  /\ Total(sent) = 2 * (N - 1) * Cardinality(Rounds)
         /\ Total(received) = Total(sent) - Unread
  <1>0. King \in Party /\ N \in Nat /\ N >= 2 /\ \A d \in Client : d \in Party /\ d # King
    BY PartyFacts
  <1>1. \A x \in Rounds : x[1] \in Int /\ x[1] < AfterLast /\ x[2] \in Sid
    BY StageFacts DEF Rounds, StageNo, AfterLast
  <1>2. \A q \in Party, s \in Sid : ~ Sending(q, s)
    BY StageFacts DEF StatsInv, UncountedInv, Uses, StageNo, AfterLast
  <1>3. ASSUME NEW c \in Client PROVE Counted(c) = Rounds /\ Read(c) = Rounds /\ Shared(c) = Rounds
    BY <1>0, <1>1 DEF Counted, Read, Shared, Past
  <1>4. Shares = Rounds \X Client
    BY <1>3 DEF Shares
  <1>5. Answers = Rounds \X Client
    BY <1>0, <1>1, <1>2 DEF Answers, Answered
  <1>6. PICK R \in Nat : R = Cardinality(Rounds)
    BY RoundsFinite
  <1>7. PICK all \in Int : all = (N - 1) * R
    BY <1>0
  <1>8. Cardinality(Rounds \X Client) = all
    BY <1>6, <1>7, RoundsFinite
  <1>9. \A c \in Client : sent[c] = R /\ received[c] = R
    BY <1>3, <1>6 DEF StatsInv, CountersInv
  <1>10. sent[King] = all /\ received[King] + Unread = all
    BY <1>4, <1>5, <1>8 DEF StatsInv, CountersInv
  <1>11. /\ sent[King] \in Int /\ received[King] \in Int
         /\ DOMAIN sent = Party /\ DOMAIN received = Party
    BY <1>0 DEF StatsInv, CountersType
  <1>12. IsFiniteSet(Party) /\ Cardinality(Party) = N
    BY RoundsFinite
  <1>13. \A q \in Party \ {King} : sent[q] = R /\ received[q] = R
    BY <1>9, PartyFacts
  <1>14. Total(sent) = sent[King] + (Cardinality(Party) - 1) * R
    BY <1>0, <1>6, <1>11, <1>12, <1>13, TotalOfEqual
  <1>15. Total(received) = received[King] + (Cardinality(Party) - 1) * R
    BY <1>0, <1>6, <1>11, <1>12, <1>13, TotalOfEqual
  <1>16. Unread \in Int
    <2> DEFINE f == [cs \in Client \X Sid |-> Len(up[cs[1]][cs[2]])]
    <2>1. \A x \in Client \X Sid : f[x] \in Int
      BY DEF TypeOK
    <2>2. DOMAIN f = Client \X Sid
      OBVIOUS
    <2>3. Total(f) \in Int
      <3>. HIDE DEF f
      <3>. QED
        BY <2>1, <2>2, RoundsFinite, TotalType
    <2>. QED
      BY <2>3 DEF Unread
  <1>17. Total(sent) = all + all /\ Total(received) = received[King] + all
    BY <1>7, <1>10, <1>12, <1>14, <1>15
  <1>18. 2 * (N - 1) * R = 2 * ((N - 1) * R)
    BY <1>0, <1>6
  <1>19. Total(sent) = 2 * (N - 1) * Cardinality(Rounds)
    BY <1>6, <1>7, <1>17, <1>18
  <1>20. Total(received) = Total(sent) - Unread
    BY <1>10, <1>11, <1>16, <1>17
  <1>. QED
    BY <1>19, <1>20

LEMMA ReturnStats ==
  ASSUME TypeOK, TypeOK', ReturnInv, StatsInv, NEW p \in Party, Return(p), TakeSnapshot(p)
  PROVE  StatsInv'
  <1>0. King \in Party /\ \A d \in Client : d \in Party /\ d # King
    BY PartyFacts
  <1>1. /\ stage' = stage /\ phase' = phase /\ answerTo' = answerTo /\ up' = up
        /\ status' = [status EXCEPT ![p] = "returned"]
        /\ sent' = sent /\ received' = received /\ uncounted' = uncounted
        /\ snapshot' = [snapshot EXCEPT ![p] = [sent |-> Total(sent), received |-> Total(received)]]
        /\ \A q \in Party : stage[q] = AfterLast
    BY DEF Return, TakeSnapshot
  <1>2. \A q \in Party, z \in Sid : Sending(q, z)' <=> Sending(q, z)
    BY <1>1 DEF Sending
  <1>3. ASSUME NEW d \in Client
        PROVE  Shared(d)' = Shared(d) /\ Counted(d)' = Counted(d) /\ Read(d)' = Read(d)
    BY <1>0, <1>1, <1>2, SameClient
  <1>4. Answers' = Answers
    BY <1>0, <1>1, <1>2, SameKing
  <1>5. Shares' = Shares
    BY <1>3, SameShares
  <1>6. Unread' = Unread /\ Rounds' = Rounds
    BY <1>1, SameUnread DEF Rounds
  <1>7. CountersInv'
    BY <1>1, <1>3, <1>4, <1>5, <1>6 DEF StatsInv, CountersInv
  <1>8. UncountedInv'
    BY <1>1 DEF StatsInv, UncountedInv, Sending, Uses
  <1>9. /\ Total(sent) = 2 * (N - 1) * Cardinality(Rounds)
        /\ Total(received) = Total(sent) - Unread
    BY <1>1, TotalsAtBarrier
  <1>10. Total(sent) \in Int /\ Total(received) \in Int
    <2>1. /\ DOMAIN sent = Party /\ \A q \in Party : sent[q] \in Int
          /\ DOMAIN received = Party /\ \A q \in Party : received[q] \in Int
      BY DEF StatsInv, CountersType
    <2>. QED
      BY <2>1, RoundsFinite, TotalType
  <1>11. CountersType'
    BY <1>1, <1>10 DEF StatsInv, CountersType
  <1>12. snapshot \in [Party -> [sent : Int, received : Int]] /\ status \in [Party -> {"running", "returned", "panicked"}]
    BY DEF StatsInv, CountersType, TypeOK
  <1>13. /\ snapshot'[p] = [sent |-> Total(sent), received |-> Total(received)]
         /\ status'[p] = "returned"
         /\ \A q \in Party : q # p => snapshot'[q] = snapshot[q] /\ status'[q] = status[q]
    BY <1>1, <1>12
  <1>14. SnapshotInv'
    BY <1>13 DEF StatsInv, SnapshotInv
  <1>15. SnapshotIsAllTraffic'
    <2>. SUFFICES ASSUME NEW q \in Party, snapshot'[q] # NoSnapshot
                  PROVE  /\ snapshot'[q].sent = 2 * (N - 1) * Cardinality(Rounds)
                         /\ snapshot'[q].received = snapshot'[q].sent - Unread
      BY <1>6 DEF SnapshotIsAllTraffic, NoSnapshot
    <2>1. CASE q = p
      BY <1>9, <1>13, <2>1
    <2>2. CASE q # p
      BY <1>13, <2>2 DEF StatsInv, SnapshotIsAllTraffic
    <2>. QED
      BY <2>1, <2>2
  <1>. QED
    BY <1>7, <1>8, <1>11, <1>14, <1>15 DEF StatsInv

LEMMA IdleStats ==
  ASSUME StatsInv, UNCHANGED statsVars
  PROVE  StatsInv'
  <1>1. /\ stage' = stage /\ phase' = phase /\ answerTo' = answerTo /\ up' = up /\ status' = status
        /\ sent' = sent /\ received' = received /\ uncounted' = uncounted /\ snapshot' = snapshot
    BY DEF statsVars, vars, counters
  <1>2. \A q \in Party, z \in Sid : Sending(q, z)' <=> Sending(q, z)
    BY <1>1 DEF Sending
  <1>3. ASSUME NEW d \in Client
        PROVE  Shared(d)' = Shared(d) /\ Counted(d)' = Counted(d) /\ Read(d)' = Read(d)
    BY <1>1, <1>2, PartyFacts, SameClient
  <1>4. Answers' = Answers
    BY <1>1, <1>2, PartyFacts, SameKing
  <1>5. Shares' = Shares
    BY <1>3, SameShares
  <1>6. Unread' = Unread /\ Rounds' = Rounds
    BY <1>1, SameUnread DEF Rounds
  <1>7. CountersInv'
    BY <1>1, <1>3, <1>4, <1>5, <1>6 DEF StatsInv, CountersInv
  <1>8. UncountedInv'
    BY <1>1 DEF StatsInv, UncountedInv, Sending, Uses
  <1>9. CountersType' /\ SnapshotInv' /\ SnapshotIsAllTraffic'
    BY <1>1, <1>6 DEF StatsInv, CountersType, SnapshotInv, SnapshotIsAllTraffic, NoSnapshot
  <1>. QED
    BY <1>7, <1>8, <1>9 DEF StatsInv

LEMMA InitStats == StatsInit => StatsInv
  <1>. SUFFICES ASSUME StatsInit PROVE StatsInv
    OBVIOUS
  <1>0. King \in Party /\ \A d \in Client : d \in Party /\ d # King /\ d \in Int /\ d >= 1
    BY PartyFacts DEF Client
  <1>1. /\ stage = [p \in Party |-> 1] /\ phase = [p \in Party |-> Enter(p, 1)]
        /\ up = [c \in Client |-> [s \in Sid |-> <<>>]]
        /\ sent = [p \in Party |-> 0] /\ received = [p \in Party |-> 0]
        /\ uncounted = {} /\ snapshot = [p \in Party |-> NoSnapshot]
    BY DEF StatsInit, Init
  <1>2. CountersType
    BY <1>1 DEF CountersType, NoSnapshot
  <1>3. UncountedInv
    BY <1>1 DEF UncountedInv, Sending
  <1>4. \A x \in Rounds : x[1] \in Int /\ x[1] >= 1 /\ x[2] \in Sid
    BY StageFacts DEF Rounds, StageNo
  <1>5. \A c \in Client, s \in Sid : phase[c][s] \in {"send", "idle"}
    BY <1>0, <1>1 DEF Enter
  <1>6. ASSUME NEW c \in Client PROVE Shared(c) = {} /\ Counted(c) = {} /\ Read(c) = {}
    <2>1. stage[c] = 1 /\ \A s \in Sid : ~ Sent(c, s) /\ ~ Got(c, s)
      BY <1>0, <1>1, <1>5 DEF Sent, Got
    <2>2. \A x \in Rounds : ~ Past(c, x) /\ ~ Sent(c, x[2]) /\ ~ Got(c, x[2])
      BY <1>4, <2>1 DEF Past
    <2>. QED
      BY <2>2 DEF Shared, Counted, Read
  <1>7. Shares = {}
    BY <1>6 DEF Shares
  <1>8. \A s \in Sid : phase[King][s] \in {"collect", "idle"}
    BY <1>0, <1>1 DEF Enter
  <1>9. Answers = {}
    BY <1>0, <1>1, <1>4, <1>8 DEF Answers, Answered
  <1>10. Unread = 0
    <2> DEFINE f == [cs \in Client \X Sid |-> Len(up[cs[1]][cs[2]])]
    <2>1. \A x \in Client \X Sid : f[x] = 0
      BY <1>1
    <2>2. DOMAIN f = Client \X Sid
      OBVIOUS
    <2>3. Total(f) = 0
      <3>. HIDE DEF f
      <3>. QED
        BY <2>1, <2>2, RoundsFinite, TotalOfZeros
    <2>. QED
      BY <2>3 DEF Unread
  <1>11. CountersInv
    <2>1. Cardinality({}) = 0
      BY FS_EmptySet
    <2>2. \A q \in Party : sent[q] = 0 /\ received[q] = 0
      BY <1>1
    <2>3. ASSUME NEW c \in Client
          PROVE  sent[c] = Cardinality(Counted(c)) /\ received[c] = Cardinality(Read(c))
      BY <1>0, <1>6, <2>1, <2>2
    <2>4. sent[King] = Cardinality(Answers)
      BY <1>0, <1>9, <2>1, <2>2
    <2>5. received[King] + Unread = Cardinality(Shares)
      BY <1>0, <1>7, <1>10, <2>1, <2>2
    <2>. QED
      BY <2>3, <2>4, <2>5 DEF CountersInv
  <1>12. SnapshotInv /\ SnapshotIsAllTraffic
    BY <1>1 DEF SnapshotInv, SnapshotIsAllTraffic
  <1>. QED
    BY <1>2, <1>3, <1>11, <1>12 DEF StatsInv

LEMMA NextStats ==
  TypeOK /\ TypeOK' /\ ReturnInv /\ StatsInv /\ [StatsNext]_statsVars => StatsInv'
  <1>. SUFFICES ASSUME TypeOK, TypeOK', ReturnInv, StatsInv, [StatsNext]_statsVars
                PROVE  StatsInv'
    OBVIOUS
  <1>1. ASSUME NEW p \in Party, StatsPartyStep(p) PROVE StatsInv'
    <2>1. ASSUME NEW s \in Sid, p \in Client, ClientSend(p, s), Flush(p, s) PROVE StatsInv'
      BY <2>1, ClientSendStats
    <2>2. ASSUME NEW s \in Sid, p \in Client, ~ Sending(p, s), ClientReceive(p, s), CountReceived(p)
          PROVE  StatsInv'
      BY <2>2, ClientReceiveStats
    <2>3. ASSUME NEW s \in Sid, CountSent(p, s) PROVE StatsInv'
      BY <2>3, CountSentStats
    <2>4. ASSUME \A s \in Sid : ~ Sending(p, s), Advance(p), UNCHANGED counters PROVE StatsInv'
      BY <2>4, AdvanceStats
    <2>5. ASSUME Return(p), TakeSnapshot(p) PROVE StatsInv'
      BY <2>5, ReturnStats
    <2>. QED
      BY <1>1, <2>1, <2>2, <2>3, <2>4, <2>5 DEF StatsPartyStep
  <1>2. ASSUME NEW s \in Sid, StatsKingStep(s) PROVE StatsInv'
    <2>1. ASSUME NEW c \in Client, KingReceive(c, s), CountReceived(King) PROVE StatsInv'
      BY <2>1, KingReceiveStats
    <2>2. ASSUME Collecting(s), CombineFull(s) \/ CombinePartial(s), UNCHANGED counters PROVE StatsInv'
      BY <2>2, CombineStats
    <2>3. ASSUME ~ Sending(King, s), KingReply(s), Flush(King, s) PROVE StatsInv'
      BY <2>3, KingReplyStats
    <2>. QED
      BY <1>2, <2>1, <2>2, <2>3 DEF StatsKingStep
  <1>3. ASSUME Over, UNCHANGED counters PROVE StatsInv'
    <2>1. UNCHANGED statsVars
      BY <1>3 DEF Over, statsVars
    <2>. QED
      BY <2>1, IdleStats
  <1>4. ASSUME UNCHANGED statsVars PROVE StatsInv'
    BY <1>4, IdleStats
  <1>. QED
    BY <1>1, <1>2, <1>3, <1>4 DEF StatsNext

\* Every counter is at all times the number of the frames it stands for, those
\* that are flushed and not yet counted aside.
THEOREM CountersAreExact == StatsSpec => []StatsInv
  <1>1. StatsInit => TypeOK /\ ReturnInv /\ AInv /\ StatsInv
    BY InitTypeOK, InitAInv, InitStats DEF StatsInit, AInv
  <1>2. TypeOK /\ AInv /\ StatsInv /\ [StatsNext]_statsVars => (TypeOK /\ AInv /\ StatsInv)'
    BY StatsStepIsNext, NextTypeOK, NextAInv, NextStats DEF AInv
  <1>. QED
    BY <1>1, <1>2, PTL DEF StatsSpec

\* No snapshot misses a frame, although a frame is counted only after it may
\* have been read and answered.
THEOREM SnapshotsAreComplete == StatsSpec => []SnapshotIsAllTraffic
  <1>1. StatsInv => SnapshotIsAllTraffic
    BY DEF StatsInv
  <1>. QED
    BY <1>1, CountersAreExact, PTL

===============================================================================
