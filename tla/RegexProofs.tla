---------------------------- MODULE RegexProofs ----------------------------
(***************************************************************************)
(* Proofs about the regex compiler and its circuit, for every automaton    *)
(* that regex-automata can print, every decomposed regex and every policy. *)
(*                                                                         *)
(* In order: the breadth-first search and the graphs it numbers; the type  *)
(* of the regexes and the rows as one run; the circuit between ^ and $,    *)
(* which follows the runs of its automaton; the circuit without anchors,   *)
(* which searches; what the wrapper of a policy makes of them; and regexes *)
(* of several parts, what their states mean and what is accepted.          *)
(***************************************************************************)
EXTENDS LookaheadPolicy, FiniteSetTheorems, WellFoundedInduction, TLAPS

-----------------------------------------------------------------------------
\* Induction over the natural numbers, for a set.
LEMMA NatInduct ==
  ASSUME NEW S, 0 \in S, \A n \in Nat : n \in S => n + 1 \in S
  PROVE  Nat \subseteq S
  <1>. SUFFICES ASSUME Nat \ S # {} PROVE FALSE
    OBVIOUS
  <1>1. PICK m \in Nat \ S : \A n \in Nat \ S : ~ (<<n, m>> \in OpToRel(<, Nat))
    <2>1. IsWellFoundedOn(OpToRel(<, Nat), Nat)
      BY NatLessThanWellFounded
    <2>. QED
      BY <2>1, WFMin
  <1>2. \A n \in Nat \ S : ~ (n < m)
    BY <1>1 DEF OpToRel
  <1>3. m - 1 \in Nat /\ m - 1 < m /\ (m - 1) + 1 = m
    OBVIOUS
  <1>. QED
    BY <1>2, <1>3

\* The search is well defined.
LEMMA SearchDef ==
  ASSUME NEW d
  PROVE  Search(d) = [k \in Nat |-> IF k = 0 THEN SearchBegin(d) ELSE Visit(d, Search(d)[k - 1])]
  <1> DEFINE Turn(k, s) == IF k = 0 THEN SearchBegin(d) ELSE Visit(d, s)
  <1> DEFINE IsSearch(f, n) == f = [k \in 0 .. n |-> Turn(k, f[k - 1])]
             Defined == {n \in Nat : \E f : IsSearch(f, n)}
  <1>1. 0 \in Defined
    <2>1. IsSearch([k \in 0 .. 0 |-> SearchBegin(d)], 0)
      OBVIOUS
    <2>. QED
      BY <2>1
  <1>2. ASSUME NEW n \in Nat, n \in Defined PROVE n + 1 \in Defined
    <2>1. PICK f : IsSearch(f, n)
      BY <1>2
    <2> DEFINE h == [k \in 0 .. n + 1 |-> Turn(k, f[k - 1])]
    <2>2. \A k \in 0 .. n : h[k] = f[k]
      BY <2>1
    <2>3. \A k \in 0 .. n + 1 : k # 0 => k - 1 \in 0 .. n
      OBVIOUS
    <2>4. \A k \in 0 .. n + 1 : h[k] = Turn(k, h[k - 1])
      BY <2>2, <2>3
    <2>5. IsSearch(h, n + 1)
      BY <2>4
    <2>. QED
      <3>. HIDE DEF h, IsSearch
      <3>. QED
        BY <2>5
  <1>3. \A n \in Nat : \E f : IsSearch(f, n)
    <2>1. Nat \subseteq Defined
      <3>. HIDE DEF Defined
      <3>. QED
        BY <1>1, <1>2, NatInduct
    <2>. QED
      BY <2>1
  <1> DEFINE F(n) == CHOOSE f : IsSearch(f, n)
             g == [k \in Nat |-> F(k)[k]]
  <1>4. \A n \in Nat : IsSearch(F(n), n)
    <2>. HIDE DEF IsSearch
    <2>. QED
      BY <1>3
  <1>5. \A n \in Nat : F(n + 1)[n] = F(n)[n]
    <2> DEFINE Same(n) == {k \in Nat : k <= n => F(n + 1)[k] = F(n)[k]}
    <2>1. ASSUME NEW n \in Nat PROVE n \in Same(n)
      <3>. HIDE DEF F
      <3>0. IsSearch(F(n), n) /\ IsSearch(F(n + 1), n + 1)
        <4>1. n + 1 \in Nat
          OBVIOUS
        <4>. HIDE DEF IsSearch
        <4>. QED
          BY <1>4, <4>1
      <3>1. /\ F(n) = [k \in 0 .. n |-> Turn(k, F(n)[k - 1])]
            /\ F(n + 1) = [k \in 0 .. n + 1 |-> Turn(k, F(n + 1)[k - 1])]
        BY <3>0
      <3>2. 0 \in Same(n)
        BY <3>1
      <3>3. ASSUME NEW k \in Nat, k \in Same(n) PROVE k + 1 \in Same(n)
        <4>. SUFFICES ASSUME k + 1 <= n PROVE F(n + 1)[k + 1] = F(n)[k + 1]
          OBVIOUS
        <4>1. F(n + 1)[k] = F(n)[k]
          BY <3>3
        <4>2. k + 1 \in 0 .. n /\ k + 1 \in 0 .. n + 1 /\ k + 1 # 0 /\ (k + 1) - 1 = k
          OBVIOUS
        <4>. QED
          BY <3>1, <4>1, <4>2
      <3>. HIDE DEF Same
      <3>. QED
        BY <3>2, <3>3, NatInduct
    <2>. HIDE DEF F
    <2>. QED
      BY <2>1
  <1>6. ASSUME NEW k \in Nat PROVE g[k] = Turn(k, g[k - 1])
    <2>1. F(k) = [j \in 0 .. k |-> Turn(j, F(k)[j - 1])]
      BY <1>4
    <2>2. g[k] = F(k)[k]
      OBVIOUS
    <2>3. k # 0 => k - 1 \in Nat /\ (k - 1) + 1 = k /\ g[k - 1] = F(k - 1)[k - 1]
      OBVIOUS
    <2>4. k # 0 => F(k)[k - 1] = F(k - 1)[k - 1]
      <3>. HIDE DEF F
      <3>. QED
        BY <1>5, <2>3
    <2>. HIDE DEF F, g
    <2>. QED
      BY <2>1, <2>2, <2>3, <2>4
  <1>7. g = [k \in Nat |-> Turn(k, g[k - 1])]
    <2>1. g = [k \in Nat |-> g[k]]
      OBVIOUS
    <2>. HIDE DEF g
    <2>. QED
      BY <1>6, <2>1
  <1>. HIDE DEF g
  <1>. QED
    BY <1>7 DEF Search

-----------------------------------------------------------------------------
\* The least element of a set of naturals.
LEMMA MinFacts ==
  ASSUME NEW S \in SUBSET Nat, S # {}
  PROVE  Min(S) \in S
  <1>1. PICK m \in S : \A n \in S : ~ (<<n, m>> \in OpToRel(<, Nat))
    BY NatLessThanWellFounded, WFMin
  <1>2. ASSUME NEW n \in S PROVE m <= n
    <2>1. m \in Nat /\ n \in Nat
      OBVIOUS
    <2>2. ~ (n < m)
      BY <1>1, <2>1 DEF OpToRel
    <2>. QED
      BY ONLY <2>1, <2>2
  <1>. QED
    BY <1>2 DEF Min

\* The destinations of a state, in whatever order the labels are.
LEMMA DestinationsFacts ==
  ASSUME NEW d \in Automaton, NEW s
  PROVE  /\ IsFiniteSet(Leaving(d, s))
         /\ Destinations(d, s) \in Seq(Int)
         /\ Len(Destinations(d, s)) = Cardinality(Leaving(d, s))
         /\ \A e \in Leaving(d, s) :
              \E k \in 1 .. Len(Destinations(d, s)) : Destinations(d, s)[k] = e[3]
  <1> DEFINE L == Leaving(d, s)
             n == Cardinality(L)
             labels == SetToSeq(L)
  <1>1. /\ d.edges \in SUBSET (Int \X Bytes \X Int)
        /\ IsFiniteSet(d.edges)
    BY DEF Automaton
  <1>2. L \in SUBSET d.edges
    BY DEF Leaving
  <1>3. IsFiniteSet(L)
    <2>. HIDE DEF L
    <2>. QED
      BY <1>1, <1>2, FS_Subset
  <1>4. n \in Nat /\ ExistsBijection(1 .. n, L)
    BY <1>3, FS_CardinalityType
  <1>5. \E f \in [1 .. n -> L] : IsInjective(f)
    <2>1. PICK f : f \in Bijection(1 .. n, L)
      BY <1>4 DEF ExistsBijection
    <2>2. f \in [1 .. n -> L] /\ \A i, j \in 1 .. n : f[i] = f[j] => i = j
      BY <2>1 DEF Bijection, Injection, IsInjective
    <2>. QED
      BY <2>2 DEF IsInjective
  <1>6. labels \in [1 .. n -> L] /\ IsInjective(labels)
    BY <1>5 DEF SetToSeq
  <1>7. \A e \in L : \E k \in 1 .. n : labels[k] = e
    <2>1. labels \in Injection(1 .. n, L)
      BY <1>6 DEF Injection, IsInjective
    <2>2. IsFiniteSet(1 .. n) /\ Cardinality(1 .. n) = n
      BY <1>4, FS_Interval
    <2>3. labels \in Surjection(1 .. n, L)
      <3>. HIDE DEF n, L, labels
      <3>1. n = Cardinality(L)
        BY DEF n
      <3>. QED
        BY <1>3, <2>1, <2>2, <3>1, FS_Injection
    <2>. QED
      BY <2>3 DEF Surjection
  <1> DEFINE q == [k \in 1 .. n |-> labels[k][3]]
  <1>8. Destinations(d, s) = q
    <2>1. DOMAIN labels = 1 .. n
      BY <1>6
    <2>. HIDE DEF n
    <2>. QED
      BY <2>1 DEF Destinations
  <1>9. \A e \in L : e[3] \in Int
    BY <1>1, <1>2
  <1>10. q \in [1 .. n -> Int]
    <2>. HIDE DEF n, L, labels
    <2>. QED
      BY <1>6, <1>9
  <1>11. q \in Seq(Int) /\ Len(q) = n
    <2>. HIDE DEF n, L, labels, q
    <2>. QED
      BY <1>4, <1>10
  <1>12. \A e \in L : \E k \in 1 .. n : q[k] = e[3]
    <2>. HIDE DEF n, L, labels
    <2>. QED
      BY <1>7
  <1>. HIDE DEF q
  <1>. QED
    BY <1>3, <1>8, <1>11, <1>12

-----------------------------------------------------------------------------
LEMMA ElementsOfAppend ==
  ASSUME NEW q \in Seq(Int), NEW x \in Int
  PROVE  /\ Append(q, x) \in Seq(Int)
         /\ ToSet(Append(q, x)) = ToSet(q) \cup {x}
  <1> DEFINE p == Append(q, x)
  <1>1. /\ p \in Seq(Int) /\ Len(p) = Len(q) + 1
        /\ \A k \in 1 .. Len(q) : p[k] = q[k]
        /\ p[Len(q) + 1] = x
    OBVIOUS
  <1>. HIDE DEF p
  <1>2. Len(q) \in Nat /\ DOMAIN q = 1 .. Len(q) /\ DOMAIN p = 1 .. Len(p)
    BY <1>1
  <1>3. \A y \in ToSet(p) : y \in ToSet(q) \cup {x}
    BY <1>1, <1>2 DEF ToSet
  <1>4. \A y \in ToSet(q) : y \in ToSet(p)
    BY <1>1, <1>2 DEF ToSet
  <1>5. x \in ToSet(p)
    BY <1>1, <1>2 DEF ToSet
  <1>6. ToSet(p) = ToSet(q) \cup {x}
    BY <1>3, <1>4, <1>5
  <1>. QED
    BY <1>1, <1>6 DEF p

LEMMA Concatenated ==
  ASSUME NEW S, NEW q \in Seq(S), NEW r \in Seq(S)
  PROVE  /\ q \o r \in Seq(S) /\ Len(q \o r) = Len(q) + Len(r)
         /\ \A k \in 1 .. Len(q) + Len(r) :
              (q \o r)[k] = IF k <= Len(q) THEN q[k] ELSE r[k - Len(q)]
  OBVIOUS

LEMMA ElementsOfConcat ==
  ASSUME NEW q \in Seq(Int), NEW r \in Seq(Int)
  PROVE  /\ q \o r \in Seq(Int) /\ Len(q \o r) = Len(q) + Len(r)
         /\ ToSet(q \o r) = ToSet(q) \cup ToSet(r)
  <1> DEFINE p == q \o r
  <1>1. /\ p \in Seq(Int) /\ Len(p) = Len(q) + Len(r)
        /\ \A k \in 1 .. Len(p) : p[k] = IF k <= Len(q) THEN q[k] ELSE r[k - Len(q)]
    OBVIOUS
  <1>. HIDE DEF p
  <1>2. /\ Len(q) \in Nat /\ DOMAIN q = 1 .. Len(q) /\ Len(r) \in Nat /\ DOMAIN r = 1 .. Len(r)
        /\ DOMAIN p = 1 .. Len(p)
    BY <1>1
  <1>3. ASSUME NEW k \in 1 .. Len(p) PROVE p[k] \in ToSet(q) \cup ToSet(r)
    <2>1. CASE k <= Len(q)
      <3>1. k \in 1 .. Len(q) /\ p[k] = q[k]
        BY <1>1, <1>2, <2>1
      <3>2. q[k] \in ToSet(q)
        BY <1>2, <3>1 DEF ToSet
      <3>. QED
        BY <3>1, <3>2
    <2>2. CASE ~ (k <= Len(q))
      <3>0. k - Len(q) \in 1 .. Len(r)
        BY <1>1, <1>2, <2>2
      <3>1. PICK j \in 1 .. Len(r) : j = k - Len(q)
        BY <3>0
      <3>2. p[k] = r[j]
        BY <1>1, <2>2, <3>1
      <3>. QED
        <4>1. r[j] \in ToSet(r)
          BY <1>2 DEF ToSet
        <4>. QED
          BY <3>2, <4>1
    <2>. QED
      BY <2>1, <2>2
  <1>4. ASSUME NEW k \in 1 .. Len(q) PROVE q[k] \in ToSet(p)
    <2>1. k \in 1 .. Len(p) /\ k <= Len(q)
      BY <1>1, <1>2
    <2>. QED
      BY <1>1, <1>2, <2>1 DEF ToSet
  <1>5. ASSUME NEW k \in 1 .. Len(r) PROVE r[k] \in ToSet(p)
    <2>1. Len(q) + k \in 1 .. Len(p) /\ ~ (Len(q) + k <= Len(q)) /\ (Len(q) + k) - Len(q) = k
      BY <1>1, <1>2
    <2>2. p[Len(q) + k] = r[k]
      BY <1>1, <2>1
    <2>. QED
      BY <1>1, <1>2, <2>1, <2>2 DEF ToSet
  <1>6. ToSet(p) = ToSet(q) \cup ToSet(r)
    <2>1. /\ \A y \in ToSet(p) : \E k \in 1 .. Len(p) : y = p[k]
          /\ \A y \in ToSet(q) : \E k \in 1 .. Len(q) : y = q[k]
          /\ \A y \in ToSet(r) : \E k \in 1 .. Len(r) : y = r[k]
      BY <1>2 DEF ToSet
    <2>2. \A y \in ToSet(p) : y \in ToSet(q) \cup ToSet(r)
      BY ONLY <1>3, <2>1
    <2>3. \A y \in ToSet(q) \cup ToSet(r) : y \in ToSet(p)
      BY ONLY <1>4, <1>5, <2>1
    <2>. QED
      BY ONLY <2>2, <2>3
  <1>. QED
    BY <1>1, <1>6 DEF p

LEMMA ElementsOfTail ==
  ASSUME NEW q \in Seq(Int), q # <<>>
  PROVE  /\ Head(q) \in Int /\ Tail(q) \in Seq(Int) /\ Len(Tail(q)) = Len(q) - 1
         /\ ToSet(q) = {Head(q)} \cup ToSet(Tail(q))
  <1> DEFINE p == Tail(q)
  <1>1. /\ Len(q) \in Nat /\ Len(q) >= 1 /\ DOMAIN q = 1 .. Len(q) /\ q[1] = Head(q)
        /\ \A k \in 1 .. Len(q) : q[k] \in Int
    OBVIOUS
  <1>2. /\ p \in Seq(Int) /\ Len(p) = Len(q) - 1 /\ DOMAIN p = 1 .. Len(p)
        /\ \A k \in 1 .. Len(p) : p[k] = q[k + 1]
    OBVIOUS
  <1>. HIDE DEF p
  <1>3. ASSUME NEW k \in 1 .. Len(q) PROVE q[k] \in {q[1]} \cup ToSet(p)
    <2>1. CASE k = 1
      BY <2>1
    <2>2. CASE k # 1
      <3>1. k - 1 \in 1 .. Len(p) /\ (k - 1) + 1 = k
        BY <1>1, <1>2, <2>2
      <3>2. p[k - 1] = q[k]
        BY <1>2, <3>1
      <3>. QED
        BY <1>2, <3>1, <3>2 DEF ToSet
    <2>. QED
      BY <2>1, <2>2
  <1>4. ASSUME NEW k \in 1 .. Len(p) PROVE p[k] \in ToSet(q)
    <2>1. k + 1 \in 1 .. Len(q) /\ p[k] = q[k + 1]
      BY <1>1, <1>2
    <2>. QED
      BY <1>1, <2>1 DEF ToSet
  <1>5. q[1] \in ToSet(q)
    BY <1>1 DEF ToSet
  <1>6. ToSet(q) = {q[1]} \cup ToSet(p)
    <2>1. /\ \A y \in ToSet(p) : \E k \in 1 .. Len(p) : y = p[k]
          /\ \A y \in ToSet(q) : \E k \in 1 .. Len(q) : y = q[k]
      BY <1>1, <1>2 DEF ToSet
    <2>. QED
      BY <1>3, <1>4, <1>5, <2>1
  <1>. QED
    BY <1>1, <1>2, <1>6 DEF p

-----------------------------------------------------------------------------
Unvisited(d, visited) == {e \in d.edges : e[1] \notin ToSet(visited)}

\* The search after n turns: every transition from a visited state leads to
\* one that is visited or waits, and each turn takes a transition or a state
\* from those that are left.
SearchInv(d, n, search) ==
  /\ search.queue \in Seq(Int)
  /\ search.visited \in Seq(Int)
  /\ d.start \in ToSet(search.visited) \cup ToSet(search.queue)
  /\ \A s \in ToSet(search.visited) : \A e \in Leaving(d, s) :
       e[3] \in ToSet(search.visited) \cup ToSet(search.queue)
  /\ \A j, k \in 1 .. Len(search.visited) : search.visited[j] = search.visited[k] => j = k
  /\ IF search.visited = <<>> THEN search.queue = <<d.start>> ELSE search.visited[1] = d.start
  /\ search.queue # <<>> =>
       Len(search.queue) + Cardinality(Unvisited(d, search.visited)) + n
         <= Cardinality(d.edges) + 1

LEMMA UnvisitedFacts ==
  ASSUME NEW d \in Automaton, NEW visited
  PROVE  /\ IsFiniteSet(Unvisited(d, visited))
         /\ Cardinality(Unvisited(d, visited)) \in Nat
         /\ Cardinality(Unvisited(d, visited)) <= Cardinality(d.edges)
         /\ Cardinality(d.edges) \in Nat
  <1>1. IsFiniteSet(d.edges)
    BY DEF Automaton
  <1>2. Unvisited(d, visited) \in SUBSET d.edges
    BY DEF Unvisited
  <1>. QED
    BY <1>1, <1>2, FS_Subset, FS_CardinalityType

LEMMA SearchBegins ==
  ASSUME NEW d \in Automaton
  PROVE  SearchInv(d, 0, SearchBegin(d))
  <1> DEFINE q == <<d.start>>
  <1>1. d.start \in Int
    BY DEF Automaton
  <1>2. q \in Seq(Int) /\ Len(q) = 1 /\ DOMAIN q = 1 .. 1 /\ q[1] = d.start
    BY <1>1
  <1>3. d.start \in ToSet(q)
    BY <1>2 DEF ToSet
  <1>4. <<>> \in Seq(Int) /\ ToSet(<<>>) = {}
    BY DEF ToSet
  <1>. HIDE DEF q
  <1>5. SearchBegin(d) = [queue |-> q, visited |-> <<>>]
    BY DEF SearchBegin, q
  <1>6. Cardinality(Unvisited(d, <<>>)) \in Nat /\ Cardinality(d.edges) \in Nat
        /\ Cardinality(Unvisited(d, <<>>)) <= Cardinality(d.edges)
    BY UnvisitedFacts
  <1>7. Len(q) + Cardinality(Unvisited(d, <<>>)) + 0 <= Cardinality(d.edges) + 1
    BY <1>2, <1>6
  <1> DEFINE begin == SearchBegin(d)
  <1>8. begin.queue = q /\ begin.visited = <<>>
    BY <1>5
  <1>. HIDE DEF begin
  <1>9. begin.queue = <<d.start>> /\ Len(<<>>) = 0
    BY <1>8 DEF q
  <1>10. SearchInv(d, 0, begin)
    BY <1>2, <1>3, <1>4, <1>7, <1>8, <1>9 DEF SearchInv
  <1>. QED
    BY <1>10 DEF begin

LEMMA SearchTurns ==
  ASSUME NEW d \in Automaton, NEW n \in Nat, NEW search, SearchInv(d, n, search)
  PROVE  SearchInv(d, n + 1, Visit(d, search))
  <1> DEFINE queue == search.queue
             visited == search.visited
             s == Head(queue)
             after == Visit(d, search)
             rest == Tail(queue)
             to == Destinations(d, s)
             old == Unvisited(d, visited)
  <1>1. /\ queue \in Seq(Int) /\ visited \in Seq(Int)
        /\ d.start \in ToSet(visited) \cup ToSet(queue)
        /\ \A x \in ToSet(visited) : \A e \in Leaving(d, x) : e[3] \in ToSet(visited) \cup ToSet(queue)
        /\ \A j, k \in 1 .. Len(visited) : visited[j] = visited[k] => j = k
        /\ IF visited = <<>> THEN queue = <<d.start>> ELSE visited[1] = d.start
        /\ queue # <<>> => Len(queue) + Cardinality(old) + n <= Cardinality(d.edges) + 1
    BY DEF SearchInv
  <1>2. CASE queue = <<>>
    <2>1. after = search
      BY <1>2 DEF Visit
    <2>. QED
      BY <1>1, <1>2, <2>1 DEF SearchInv
  <1>3. ASSUME queue # <<>>
        PROVE  /\ s \in Int /\ rest \in Seq(Int) /\ Len(rest) = Len(queue) - 1
               /\ ToSet(queue) = {s} \cup ToSet(rest)
    BY <1>1, <1>3, ElementsOfTail
  <1>4. Contains(visited, s) <=> s \in ToSet(visited)
    <2>1. DOMAIN visited = 1 .. Len(visited)
      BY <1>1
    <2>. QED
      BY <2>1 DEF Contains, ToSet
  <1>5. Len(queue) \in Nat /\ Cardinality(old) \in Nat /\ Cardinality(d.edges) \in Nat /\ IsFiniteSet(old)
    BY <1>1, UnvisitedFacts
  <1>6. CASE queue # <<>> /\ Contains(visited, s)
    <2>1. after = [queue |-> rest, visited |-> visited]
      BY <1>6 DEF Visit
    <2>2. ToSet(visited) \cup ToSet(queue) = ToSet(visited) \cup ToSet(rest)
      BY <1>3, <1>4, <1>6
    <2>3. Len(rest) + Cardinality(old) + (n + 1) <= Cardinality(d.edges) + 1
      BY <1>1, <1>3, <1>5, <1>6
    <2>5. visited # <<>>
      BY <1>4, <1>6 DEF ToSet
    <2>. HIDE DEF after, rest, visited, queue, s, old
    <2>4. after.queue = rest /\ after.visited = visited
      BY <2>1
    <2>. QED
      BY <1>1, <1>3, <1>6, <2>2, <2>3, <2>4, <2>5 DEF SearchInv, old, after
  <1>7. CASE queue # <<>> /\ ~ Contains(visited, s)
    <2> DEFINE more == rest \o to
               seen == Append(visited, s)
               new == Unvisited(d, seen)
               L == Leaving(d, s)
    <2>1. after = [queue |-> more, visited |-> seen]
      BY <1>7 DEF Visit
    <2>2. /\ to \in Seq(Int) /\ Len(to) = Cardinality(L) /\ IsFiniteSet(L)
          /\ \A e \in L : \E k \in 1 .. Len(to) : to[k] = e[3]
      BY DestinationsFacts
    <2>3. \A e \in L : e[3] \in ToSet(to)
      <3>1. DOMAIN to = 1 .. Len(to)
        BY <2>2
      <3>. HIDE DEF to, L
      <3>. QED
        BY <2>2, <3>1 DEF ToSet
    <2>4. s \in Int /\ rest \in Seq(Int) /\ Len(rest) = Len(queue) - 1
      BY <1>3, <1>7
    <2>5. /\ more \in Seq(Int) /\ Len(more) = Len(rest) + Len(to)
          /\ ToSet(more) = ToSet(rest) \cup ToSet(to)
      <3>. HIDE DEF rest, to
      <3>. QED
        BY <2>2, <2>4, ElementsOfConcat
    <2>6. seen \in Seq(Int) /\ ToSet(seen) = ToSet(visited) \cup {s}
      <3>. HIDE DEF visited, s
      <3>. QED
        BY <1>1, <2>4, ElementsOfAppend
    <2>7. ToSet(visited) \cup ToSet(queue) \subseteq ToSet(seen) \cup ToSet(more)
      <3>. HIDE DEF visited, queue, seen, more, s, rest, to
      <3>. QED
        BY <1>3, <1>7, <2>5, <2>6
    <2>8. \A x \in ToSet(seen) : \A e \in Leaving(d, x) : e[3] \in ToSet(seen) \cup ToSet(more)
      <3>. HIDE DEF visited, queue, seen, more, s, rest, to
      <3>. QED
        BY <1>1, <2>3, <2>5, <2>6, <2>7
    <2>9. Cardinality(old) = Cardinality(new) + Cardinality(L)
      <3>1. L \subseteq old
        BY <1>4, <1>7 DEF Leaving, Unvisited
      <3>2. new = old \ L
        <4>. HIDE DEF seen, visited, s
        <4>. QED
          BY <2>6 DEF Leaving, Unvisited
      <3>3. old \cap L = L
        BY <3>1
      <3>4. Cardinality(new) = Cardinality(old) - Cardinality(old \cap L)
        <4>. HIDE DEF new, old, L
        <4>. QED
          BY <1>5, <3>2, FS_Difference
      <3>5. Cardinality(L) \in Nat
        <4>. HIDE DEF L
        <4>. QED
          BY <2>2, FS_CardinalityType
      <3>6. Cardinality(old \cap L) = Cardinality(L)
        BY <3>3
      <3>. HIDE DEF new, old, L
      <3>. QED
        BY ONLY <1>5, <3>4, <3>5, <3>6
    <2>10. Len(more) + Cardinality(new) + (n + 1) <= Cardinality(d.edges) + 1
      <3>1. Cardinality(L) \in Nat /\ Cardinality(new) \in Nat
        <4>1. Cardinality(L) \in Nat
          <5>. HIDE DEF L
          <5>. QED
            BY <2>2, FS_CardinalityType
        <4>. QED
          BY <4>1, UnvisitedFacts
      <3>2. Len(queue) + Cardinality(old) + n <= Cardinality(d.edges) + 1
        BY <1>1, <1>7
      <3>. HIDE DEF queue, more, new, old, L, rest, to, s, after, seen, visited
      <3>3. Len(more) = (Len(queue) - 1) + Cardinality(L)
        BY <2>2, <2>4, <2>5
      <3>4. Len(queue) \in Nat /\ Cardinality(d.edges) \in Nat
        BY <1>5
      <3>. QED
        BY ONLY n \in Nat, <2>9, <3>1, <3>2, <3>3, <3>4
    <2>13. /\ Len(visited) \in Nat /\ DOMAIN visited = 1 .. Len(visited)
           /\ Len(seen) = Len(visited) + 1 /\ seen[Len(visited) + 1] = s
           /\ \A k \in 1 .. Len(visited) : seen[k] = visited[k]
      <3>. HIDE DEF visited, s
      <3>. QED
        BY <1>1, <2>4
    <2>14. \A k \in 1 .. Len(visited) : visited[k] # s
      BY <1>7, <2>13 DEF Contains
    <2>15. ASSUME NEW j \in 1 .. Len(seen), NEW k \in 1 .. Len(seen), seen[j] = seen[k] PROVE j = k
      <3>. HIDE DEF seen, visited, s
      <3>1. CASE j \in 1 .. Len(visited) /\ k \in 1 .. Len(visited)
        BY <1>1, <2>13, <2>15, <3>1
      <3>2. CASE j \in 1 .. Len(visited) /\ k = Len(visited) + 1
        BY <2>13, <2>14, <2>15, <3>2
      <3>3. CASE k \in 1 .. Len(visited) /\ j = Len(visited) + 1
        BY <2>13, <2>14, <2>15, <3>3
      <3>. QED
        BY <2>13, <3>1, <3>2, <3>3
    <2>16. seen # <<>> /\ seen[1] = d.start
      <3>1. CASE visited = <<>>
        <4>1. queue = <<d.start>> /\ Len(visited) = 0
          BY <1>1, <3>1
        <4>2. s = d.start
          BY <4>1
        <4>. HIDE DEF seen, visited, s, queue
        <4>. QED
          BY <2>13, <4>1, <4>2
      <3>2. CASE visited # <<>>
        <4>1. 1 \in 1 .. Len(visited) /\ visited[1] = d.start
          <5>1. Len(visited) >= 1
            BY <1>1, <3>2
          <5>. HIDE DEF visited
          <5>. QED
            BY <1>1, <2>13, <3>2, <5>1
        <4>. HIDE DEF seen, visited
        <4>. QED
          BY <2>13, <4>1
      <3>. QED
        BY <3>1, <3>2
    <2>. HIDE DEF after, more, seen, visited, queue
    <2>11. after.queue = more /\ after.visited = seen
      BY <2>1
    <2>12. d.start \in ToSet(seen) \cup ToSet(more)
      BY <1>1, <2>7
    <2>. QED
      BY <2>5, <2>6, <2>8, <2>10, <2>11, <2>12, <2>15, <2>16 DEF SearchInv, after
  <1>. QED
    BY <1>2, <1>6, <1>7

\* The search ends, and what it has visited is closed under transitions.
LEMMA BreadthFirstFacts ==
  ASSUME NEW d \in Automaton
  PROVE  /\ BreadthFirst(d) \in Seq(Int) /\ Len(BreadthFirst(d)) >= 1
         /\ BreadthFirst(d)[1] = d.start
         /\ \A j, k \in 1 .. Len(BreadthFirst(d)) : BreadthFirst(d)[j] = BreadthFirst(d)[k] => j = k
         /\ \A s \in ToSet(BreadthFirst(d)) : \A e \in Leaving(d, s) : e[3] \in ToSet(BreadthFirst(d))
  <1> DEFINE Good == {n \in Nat : SearchInv(d, n, Search(d)[n])}
             N == Cardinality(d.edges) + 1
             last == Search(d)[N]
             order == BreadthFirst(d)
  <1>1. 0 \in Good
    <2>1. Search(d)[0] = SearchBegin(d)
      BY SearchDef
    <2>. QED
      BY <2>1, SearchBegins
  <1>2. ASSUME NEW n \in Nat, n \in Good PROVE n + 1 \in Good
    <2>1. n + 1 \in Nat /\ n + 1 # 0 /\ (n + 1) - 1 = n
      OBVIOUS
    <2>2. Search(d)[n + 1] = Visit(d, Search(d)[n])
      BY <2>1, SearchDef
    <2>3. SearchInv(d, n + 1, Visit(d, Search(d)[n]))
      BY <1>2, SearchTurns
    <2>. QED
      BY <2>1, <2>2, <2>3
  <1>3. Nat \subseteq Good
    <2>. HIDE DEF Good
    <2>. QED
      BY <1>1, <1>2, NatInduct
  <1>4. N \in Nat /\ Cardinality(d.edges) \in Nat
    BY UnvisitedFacts
  <1>5. SearchInv(d, N, last)
    <2>. HIDE DEF N
    <2>. QED
      BY <1>3, <1>4
  <1>6. last.queue = <<>>
    <2>1. Cardinality(Unvisited(d, last.visited)) \in Nat
      BY UnvisitedFacts
    <2>2. last.queue \in Seq(Int)
      BY <1>5 DEF SearchInv
    <2>3. ASSUME last.queue # <<>> PROVE FALSE
      <3>1. Len(last.queue) \in Nat /\ Len(last.queue) >= 1
        BY <2>2, <2>3
      <3>2. Len(last.queue) + Cardinality(Unvisited(d, last.visited)) + N <= N
        BY <1>5, <2>3 DEF SearchInv
      <3>. HIDE DEF last
      <3>. QED
        BY <1>4, <2>1, <3>1, <3>2
    <2>. QED
      BY <2>3
  <1>7. order = last.visited
    BY DEF BreadthFirst
  <1>8. ToSet(last.queue) = {}
    BY <1>6 DEF ToSet
  <1>. HIDE DEF last, order
  <1>9. /\ order \in Seq(Int) /\ d.start \in ToSet(order)
        /\ \A s \in ToSet(order) : \A e \in Leaving(d, s) : e[3] \in ToSet(order)
        /\ \A j, k \in 1 .. Len(order) : order[j] = order[k] => j = k
        /\ order # <<>> => order[1] = d.start
    BY <1>5, <1>7, <1>8 DEF SearchInv
  <1>10. Len(order) >= 1
    <2>1. Len(order) \in Nat /\ DOMAIN order = 1 .. Len(order)
      BY <1>9
    <2>. QED
      BY <1>9, <2>1 DEF ToSet
  <1>11. order # <<>>
    BY <1>9, <1>10
  <1>. QED
    BY <1>9, <1>10, <1>11 DEF order

-----------------------------------------------------------------------------
IsSequence(q) == q \in Seq(ToSet(q))

\* The edges of a node lead to nodes, and no byte is on two of them.
GoodEdges(edges, first, last) ==
  /\ DOMAIN edges \subseteq first .. last
  /\ \A t \in DOMAIN edges : edges[t] \subseteq 0 .. StartByte
  /\ \A t, u \in DOMAIN edges : t # u => edges[t] \cap edges[u] = {}

\* The nodes of a graph are numbered by position, from base on.
GoodGraph(g, base) ==
  /\ IsSequence(g)
  /\ Len(g) >= 1
  /\ \A k \in 1 .. Len(g) :
       /\ g[k].id = base + k - 1
       /\ g[k].accept \in BOOLEAN
       /\ GoodEdges(g[k].edges, base, base + Len(g) - 1)

WithoutStart(g) ==
  \A k \in 1 .. Len(g) : \A t \in DOMAIN g[k].edges : StartByte \notin g[k].edges[t]

LEMMA Listed ==
  ASSUME NEW n \in Nat, NEW q, q = [k \in 1 .. n |-> q[k]]
  PROVE  IsSequence(q) /\ Len(q) = n /\ DOMAIN q = 1 .. n
  <1>1. DOMAIN q = 1 .. n
    OBVIOUS
  <1>2. \A k \in 1 .. n : q[k] \in ToSet(q)
    BY <1>1 DEF ToSet
  <1> DEFINE S == ToSet(q)
  <1>3. q \in [1 .. n -> S]
    <2>. HIDE DEF S
    <2>1. \A k \in 1 .. n : q[k] \in S
      BY <1>2 DEF S
    <2>. QED
      BY <2>1
  <1>4. q \in Seq(S) /\ Len(q) = n
    <2>. HIDE DEF S
    <2>. QED
      BY <1>3
  <1>. QED
    BY <1>1, <1>4 DEF IsSequence

LEMMA SequenceFacts ==
  ASSUME NEW q, IsSequence(q)
  PROVE  Len(q) \in Nat /\ DOMAIN q = 1 .. Len(q) /\ q = [k \in 1 .. Len(q) |-> q[k]]
  <1> DEFINE S == ToSet(q)
  <1>1. q \in Seq(S)
    BY DEF IsSequence
  <1>. HIDE DEF S
  <1>. QED
    BY <1>1

\* The edges of a state of an automaton, however its states are numbered.
LEMMA StateEdgesAreGood ==
  ASSUME NEW d \in Automaton, NEW s, NEW number, NEW last \in Nat,
         \A e \in Leaving(d, s) : number[e[3]] \in 0 .. last
  PROVE  /\ GoodEdges(ProcessStateEdges(d, s, number), 0, last)
         /\ \A t \in DOMAIN ProcessStateEdges(d, s, number) :
              StartByte \notin ProcessStateEdges(d, s, number)[t]
  <1> DEFINE L == Leaving(d, s)
             K == {number[e[3]] : e \in L}
             To(k) == UNION {e[2] : e \in {x \in L : number[x[3]] = k}}
             edges == ProcessStateEdges(d, s, number)
  <1>1. edges = [k \in K |-> To(k)]
    BY DEF ProcessStateEdges
  <1>2. /\ \A e \in L : e[2] \subseteq 0 .. StartByte - 1
        /\ \A e, f \in L : e[2] \cap f[2] # {} => e = f
    <2>1. /\ d.edges \in SUBSET (Int \X Bytes \X Int)
          /\ IsDeterministic(d.edges)
      BY DEF Automaton
    <2>2. \A e \in L : e \in d.edges /\ e[1] = s
      BY DEF Leaving
    <2>3. \A e \in d.edges : e[2] \in Bytes
      BY <2>1
    <2>. HIDE DEF L
    <2>4. \A e \in L : e[2] \subseteq 0 .. StartByte - 1
      BY <2>2, <2>3 DEF Bytes
    <2>5. \A e, f \in L : e[2] \cap f[2] # {} => e = f
      BY <2>1, <2>2 DEF IsDeterministic
    <2>. QED
      BY <2>4, <2>5
  <1>3. \A k : \A b \in To(k) : \E e \in L : number[e[3]] = k /\ b \in e[2]
    OBVIOUS
  <1>. HIDE DEF L, To
  <1>4. DOMAIN edges = K /\ \A k \in K : edges[k] = To(k)
    BY <1>1
  <1>5. K \subseteq 0 .. last
    BY DEF L
  <1>. HIDE DEF K, edges
  <1>6. \A k : \A b \in To(k) : b \in 0 .. StartByte - 1
    BY <1>2, <1>3
  <1>7. ASSUME NEW t \in K, NEW u \in K, t # u PROVE To(t) \cap To(u) = {}
    <2>1. SUFFICES ASSUME NEW b \in To(t), b \in To(u) PROVE FALSE
      OBVIOUS
    <2>2. PICK e \in L : number[e[3]] = t /\ b \in e[2]
      BY <1>3
    <2>3. PICK f \in L : number[f[3]] = u /\ b \in f[2]
      BY <1>3, <2>1
    <2>4. e = f
      BY <1>2, <2>2, <2>3
    <2>. QED
      BY <1>7, <2>2, <2>3, <2>4
  <1>8. \A k \in K : To(k) \subseteq 0 .. StartByte /\ StartByte \notin To(k)
    BY <1>6 DEF StartByte
  <1>. QED
    BY <1>4, <1>5, <1>7, <1>8 DEF GoodEdges, edges

LEMMA ConvertedIsGood ==
  ASSUME NEW d \in Automaton
  PROVE  GoodGraph(ConvertDfaToGraph(d), 0) /\ WithoutStart(ConvertDfaToGraph(d))
  <1> DEFINE order == BreadthFirst(d)
             n == Len(order)
             At(s) == CHOOSE k \in DOMAIN order : order[k] = s
             number == [s \in ToSet(order) |-> At(s) - 1]
             g == [k \in DOMAIN order |->
                     Node(k - 1, order[k] \in AcceptStates(d), ProcessStateEdges(d, order[k], number))]
  <1>1. /\ order \in Seq(Int) /\ n >= 1
        /\ \A s \in ToSet(order) : \A e \in Leaving(d, s) : e[3] \in ToSet(order)
    BY BreadthFirstFacts
  <1>2. ConvertDfaToGraph(d) = g
    BY DEF ConvertDfaToGraph
  <1>. HIDE DEF order
  <1>3. n \in Nat /\ n >= 1 /\ DOMAIN order = 1 .. n
    BY <1>1
  <1>4. \A s \in ToSet(order) : At(s) \in 1 .. n
    BY <1>3 DEF ToSet
  <1>. HIDE DEF At, n
  <1>5. \A s \in ToSet(order) : number[s] \in 0 .. n - 1
    BY <1>3, <1>4
  <1>. HIDE DEF number
  <1>6. /\ g = [k \in 1 .. n |-> g[k]]
        /\ \A k \in 1 .. n : g[k] = Node(k - 1, order[k] \in AcceptStates(d),
                                         ProcessStateEdges(d, order[k], number))
    BY <1>3
  <1>. HIDE DEF g
  <1>7. IsSequence(g) /\ Len(g) = n /\ DOMAIN g = 1 .. n
    BY <1>3, <1>6, Listed
  <1>8. ASSUME NEW k \in 1 .. n
        PROVE  /\ g[k].id = 0 + k - 1
               /\ g[k].accept \in BOOLEAN
               /\ GoodEdges(g[k].edges, 0, 0 + n - 1)
               /\ \A t \in DOMAIN g[k].edges : StartByte \notin g[k].edges[t]
    <2>1. order[k] \in ToSet(order)
      BY <1>3 DEF ToSet
    <2>2. PICK last \in Nat : last = n - 1
      BY <1>3
    <2>3. \A e \in Leaving(d, order[k]) : number[e[3]] \in 0 .. last
      BY <1>1, <1>5, <2>1, <2>2
    <2>4. /\ GoodEdges(ProcessStateEdges(d, order[k], number), 0, last)
          /\ \A t \in DOMAIN ProcessStateEdges(d, order[k], number) :
               StartByte \notin ProcessStateEdges(d, order[k], number)[t]
      BY <2>3, StateEdgesAreGood
    <2>5. /\ g[k].id = k - 1
          /\ g[k].accept = (order[k] \in AcceptStates(d))
          /\ g[k].edges = ProcessStateEdges(d, order[k], number)
      BY <1>6 DEF Node
    <2>6. 0 + k - 1 = k - 1 /\ 0 + n - 1 = last
      BY <1>3, <2>2
    <2>. QED
      BY <2>4, <2>5, <2>6
  <1>9. GoodGraph(g, 0) /\ WithoutStart(g)
    BY <1>3, <1>7, <1>8 DEF GoodGraph, WithoutStart
  <1>. QED
    BY <1>2, <1>9

\* The nodes of a graph at their positions.
LEMMA GraphFacts ==
  ASSUME NEW g, NEW base \in Nat, GoodGraph(g, base)
  PROVE  /\ Len(g) \in Nat /\ Len(g) >= 1 /\ DOMAIN g = 1 .. Len(g)
         /\ g = [k \in 1 .. Len(g) |-> g[k]]
         /\ AcceptNodes(g) \subseteq 1 .. Len(g)
         /\ \A k \in 1 .. Len(g) :
              /\ g[k].id = base + k - 1
              /\ g[k].accept \in BOOLEAN
              /\ GoodEdges(g[k].edges, base, base + Len(g) - 1)
  <1>1. IsSequence(g)
    BY DEF GoodGraph
  <1>2. Len(g) \in Nat /\ DOMAIN g = 1 .. Len(g) /\ g = [k \in 1 .. Len(g) |-> g[k]]
    BY <1>1, SequenceFacts
  <1>. QED
    BY <1>2 DEF GoodGraph, AcceptNodes

LEMMA CaretIsGood == GoodGraph(CaretGraph, 0)
  <1> DEFINE first == Node(0, FALSE, [k \in {1} |-> {StartByte}])
             second == Node(1, TRUE, NoEdges)
             q == <<first, second>>
  <1>1. q \in Seq({first, second}) /\ Len(q) = 2 /\ q[1] = first /\ q[2] = second
    <2>. HIDE DEF first, second
    <2>. QED
      OBVIOUS
  <1>2. q = [k \in 1 .. 2 |-> q[k]]
    <2>. HIDE DEF first, second
    <2>. QED
      BY <1>1
  <1>3. GoodEdges(first.edges, 0, 1) /\ GoodEdges(second.edges, 0, 1)
    <2>1. DOMAIN NoEdges = {}
      BY DEF NoEdges
    <2>. QED
      BY <2>1 DEF GoodEdges, Node, StartByte
  <1>4. /\ first.id = 0 /\ first.accept \in BOOLEAN
        /\ second.id = 1 /\ second.accept \in BOOLEAN
    BY DEF Node
  <1>. HIDE DEF first, second
  <1>5. q[1].id = 0 + 1 - 1 /\ q[2].id = 0 + 2 - 1 /\ 0 + 2 - 1 = 1
    BY <1>1, <1>4
  <1>6. CaretGraph = q
    BY DEF CaretGraph, first, second
  <1>. HIDE DEF q
  <1>7. IsSequence(q)
    BY <1>2, Listed
  <1>8. \A k \in 1 .. 2 : k = 1 \/ k = 2
    OBVIOUS
  <1>9. \A k \in 1 .. Len(q) : /\ q[k].id = 0 + k - 1
                               /\ q[k].accept \in BOOLEAN
                               /\ GoodEdges(q[k].edges, 0, 0 + Len(q) - 1)
    BY <1>1, <1>3, <1>4, <1>5, <1>8
  <1>10. GoodGraph(q, 0)
    BY <1>1, <1>7, <1>9 DEF GoodGraph
  <1>. QED
    BY <1>6, <1>10

\* The start byte is on no edge yet when it is added.
LEMMA ModifiedIsGood ==
  ASSUME NEW g, GoodGraph(g, 0), WithoutStart(g), CanModifyForCaret(g)
  PROVE  GoodGraph(ModifyGraphForCaret(g), 0)
  <1> DEFINE n == Len(g)
             k1 == Min(AcceptNodes(g) \ {1})
             to == g[k1].id
             old == g[1].edges
             Label(k) == (IF k \in DOMAIN old THEN old[k] ELSE {})
                         \cup (IF k = to THEN {StartByte} ELSE {})
             edges == [k \in DOMAIN old \cup {to} |-> Label(k)]
             first == Node(0, FALSE, edges)
             h == [g EXCEPT ![1] = first]
  <1>1. /\ n \in Nat /\ n >= 1 /\ DOMAIN g = 1 .. n
        /\ g = [k \in 1 .. n |-> g[k]]
        /\ AcceptNodes(g) \subseteq 1 .. n
        /\ \A k \in 1 .. n : /\ g[k].id = 0 + k - 1
                             /\ g[k].accept \in BOOLEAN
                             /\ GoodEdges(g[k].edges, 0, 0 + n - 1)
    BY GraphFacts
  <1>2. k1 \in 1 .. n
    <2> DEFINE S == AcceptNodes(g) \ {1}
    <2>1. S # {}
      BY DEF CanModifyForCaret
    <2>2. S \in SUBSET Nat
      BY <1>1
    <2>3. Min(S) \in S
      <3>. HIDE DEF S
      <3>. QED
        BY <2>1, <2>2, MinFacts
    <2>. QED
      BY <1>1, <2>3
  <1>3. to \in 0 .. n - 1
    <2>. HIDE DEF k1
    <2>. QED
      BY <1>1, <1>2
  <1>4. ModifyGraphForCaret(g) = h
    BY DEF ModifyGraphForCaret
  <1>5. /\ DOMAIN old \subseteq 0 .. n - 1
        /\ \A t \in DOMAIN old : old[t] \subseteq 0 .. StartByte /\ StartByte \notin old[t]
        /\ \A t, u \in DOMAIN old : t # u => old[t] \cap old[u] = {}
    <2>1. 1 \in 1 .. n /\ 0 + n - 1 = n - 1
      BY <1>1
    <2>2. GoodEdges(old, 0, n - 1)
      BY <1>1, <2>1
    <2>. QED
      BY <2>1, <2>2 DEF GoodEdges, WithoutStart
  <1>. HIDE DEF old, to
  <1>6. /\ \A k : Label(k) \subseteq 0 .. StartByte \/ k \in DOMAIN old
        /\ \A k \in DOMAIN old : Label(k) \subseteq 0 .. StartByte
    <2>1. StartByte \in 0 .. StartByte
      BY DEF StartByte
    <2>. QED
      BY <1>5, <2>1
  <1>7. \A t, u : t # u => Label(t) \cap Label(u) = {}
    <2>1. SUFFICES ASSUME NEW t, NEW u, t # u, NEW b \in Label(t), b \in Label(u) PROVE FALSE
      OBVIOUS
    <2>2. CASE b = StartByte
      <3>1. t = to /\ u = to
        BY <1>5, <2>1, <2>2
      <3>. QED
        BY <2>1, <3>1
    <2>3. CASE b # StartByte
      <3>1. t \in DOMAIN old /\ u \in DOMAIN old /\ b \in old[t] /\ b \in old[u]
        BY <2>1, <2>3
      <3>. QED
        BY <1>5, <2>1, <3>1
    <2>. QED
      BY <2>2, <2>3
  <1>8. GoodEdges(edges, 0, n - 1)
    <2>1. DOMAIN edges = DOMAIN old \cup {to} /\ \A k \in DOMAIN edges : edges[k] = Label(k)
      OBVIOUS
    <2>2. DOMAIN edges \subseteq 0 .. n - 1
      BY <1>3, <1>5, <2>1
    <2>. HIDE DEF edges, Label
    <2>3. /\ \A k \in DOMAIN edges : edges[k] \subseteq 0 .. StartByte
      <3>1. \A k \in DOMAIN edges : Label(k) \subseteq 0 .. StartByte
        BY <1>6
      <3>. QED
        BY <2>1, <3>1
    <2>4. \A t, u \in DOMAIN edges : t # u => edges[t] \cap edges[u] = {}
      BY <1>7, <2>1
    <2>. QED
      BY <2>2, <2>3, <2>4 DEF GoodEdges
  <1>. HIDE DEF edges
  <1>9. first.id = 0 /\ first.accept \in BOOLEAN /\ first.edges = edges
    BY DEF Node
  <1>. HIDE DEF first
  <1>10. /\ h = [k \in 1 .. n |-> IF k = 1 THEN first ELSE g[k]]
    BY <1>1
  <1>11. h = [k \in 1 .. n |-> h[k]] /\ \A k \in 1 .. n : h[k] = IF k = 1 THEN first ELSE g[k]
    BY <1>10
  <1>. HIDE DEF h
  <1>12. IsSequence(h) /\ Len(h) = n
    <2>. HIDE DEF n
    <2>. QED
      BY <1>1, <1>11, Listed
  <1>13. ASSUME NEW k \in 1 .. n
         PROVE  /\ h[k].id = 0 + k - 1
                /\ h[k].accept \in BOOLEAN
                /\ GoodEdges(h[k].edges, 0, 0 + n - 1)
    <2>1. CASE k = 1
      <3>1. h[k] = first /\ 0 + k - 1 = 0 /\ 0 + n - 1 = n - 1
        BY <1>1, <1>11, <2>1
      <3>. QED
        BY <1>8, <1>9, <3>1
    <2>2. CASE k # 1
      <3>1. h[k] = g[k]
        BY <1>11, <2>2
      <3>. QED
        BY <1>1, <3>1
    <2>. QED
      BY <2>1, <2>2
  <1>. QED
    BY <1>1, <1>4, <1>12, <1>13 DEF GoodGraph

LEMMA RenamedIsGood ==
  ASSUME NEW g, GoodGraph(g, 0), NEW base \in Nat
  PROVE  GoodGraph(RenameStates(g, base), base)
  <1> DEFINE n == Len(g)
             Edges(old) == [j \in {base + i : i \in DOMAIN old} |-> old[j - base]]
             h == RenameStates(g, base)
  <1>1. /\ n \in Nat /\ n >= 1 /\ DOMAIN g = 1 .. n
        /\ \A k \in 1 .. n : /\ g[k].accept \in BOOLEAN
                             /\ GoodEdges(g[k].edges, 0, 0 + n - 1)
    BY GraphFacts
  <1>2. /\ h = [k \in 1 .. n |-> h[k]]
        /\ \A k \in 1 .. n : h[k] = Node(base + k - 1, g[k].accept, Edges(g[k].edges))
    <2>1. h = [k \in 1 .. n |-> Node(base + k - 1, g[k].accept, Edges(g[k].edges))]
      BY <1>1 DEF RenameStates
    <2>. HIDE DEF h, Edges
    <2>. QED
      BY <2>1
  <1>. HIDE DEF h
  <1>3. IsSequence(h) /\ Len(h) = n
    <2>. HIDE DEF n
    <2>. QED
      BY <1>1, <1>2, Listed
  <1>4. ASSUME NEW old, GoodEdges(old, 0, 0 + n - 1)
        PROVE  GoodEdges(Edges(old), base, base + n - 1)
    <2> DEFINE J == {base + i : i \in DOMAIN old}
               new == Edges(old)
    <2>1. DOMAIN old \subseteq 0 .. n - 1
      <3>1. 0 + n - 1 = n - 1
        BY <1>1
      <3>. QED
        BY <1>4, <3>1 DEF GoodEdges
    <2>2. ASSUME NEW j \in J PROVE j \in base .. base + n - 1 /\ j - base \in DOMAIN old /\ j \in Int
      <3>1. PICK i \in DOMAIN old : j = base + i
        OBVIOUS
      <3>2. i \in 0 .. n - 1
        BY <2>1
      <3>. HIDE DEF n, J
      <3>3. j - base = i /\ j \in base .. base + n - 1
        BY <1>1, <3>1, <3>2
      <3>. QED
        BY <3>1, <3>3
    <2>3. DOMAIN new = J /\ \A j \in J : new[j] = old[j - base]
      OBVIOUS
    <2>. HIDE DEF J, new
    <2>4. \A t \in J : old[t - base] \subseteq 0 .. StartByte
      BY <1>4, <2>2 DEF GoodEdges
    <2>5. \A t, u \in J : t # u => old[t - base] \cap old[u - base] = {}
      <3>1. \A t, u \in J : t # u => t - base # u - base
        BY <2>2
      <3>. QED
        BY <1>4, <2>2, <3>1 DEF GoodEdges
    <2>6. \A t \in J : t \in base .. base + n - 1
      BY <2>2
    <2>7. GoodEdges(new, base, base + n - 1)
      BY <2>3, <2>4, <2>5, <2>6 DEF GoodEdges
    <2>. QED
      BY <2>7 DEF new
  <1>. HIDE DEF Edges
  <1>5. ASSUME NEW k \in 1 .. n
        PROVE  /\ h[k].id = base + k - 1
               /\ h[k].accept \in BOOLEAN
               /\ GoodEdges(h[k].edges, base, base + n - 1)
    <2>1. /\ h[k].id = base + k - 1 /\ h[k].accept = g[k].accept
          /\ h[k].edges = Edges(g[k].edges)
      BY <1>2 DEF Node
    <2>. QED
      BY <1>1, <1>4, <2>1
  <1>6. GoodGraph(h, base)
    BY <1>1, <1>3, <1>5 DEF GoodGraph
  <1>. QED
    BY <1>6 DEF h

LEMMA LastIndex ==
  ASSUME NEW g, GoodGraph(g, 0)
  PROVE  MaxStateIndex(g) = Len(g) - 1
  <1> DEFINE n == Len(g)
             ids == {g[k].id : k \in DOMAIN g}
  <1>1. /\ n \in Nat /\ n >= 1 /\ DOMAIN g = 1 .. n
        /\ \A k \in 1 .. n : g[k].id = 0 + k - 1
    BY GraphFacts
  <1>2. g # <<>>
    <2>1. 1 \in DOMAIN g
      BY <1>1
    <2>. QED
      BY <2>1
  <1>3. n - 1 \in ids
    <2>1. n \in DOMAIN g /\ g[n].id = n - 1
      BY <1>1
    <2>. HIDE DEF n
    <2>. QED
      BY <2>1
  <1>4. \A i \in ids : i \in Int /\ i <= n - 1
    BY <1>1
  <1>. HIDE DEF ids, n
  <1>5. \A x \in ids : (\A y \in ids : x >= y) <=> x = n - 1
    BY <1>1, <1>3, <1>4
  <1>6. Max(ids) = n - 1
    BY <1>3, <1>5 DEF Max
  <1>. QED
    BY <1>2, <1>6 DEF MaxStateIndex, ids, n

\* An accepting state takes over the edges of a start without ambiguity.
LEMMA MergedAreGood ==
  ASSUME NEW target, NEW source, NEW i, NEW j, NEW last,
         GoodEdges(target, 0, i), GoodEdges(source, j, last),
         0 .. i \subseteq 0 .. last, j .. last \subseteq 0 .. last
  PROVE  GoodEdges(MergeEdges(target, source), 0, last)
  <1> DEFINE taken == UNION {source[t] : t \in DOMAIN source}
             T == DOMAIN target \cup DOMAIN source
             Label(t) == IF t \in DOMAIN source THEN source[t] ELSE target[t] \ taken
             merged == MergeEdges(target, source)
  <1>1. /\ T \subseteq 0 .. last
        /\ \A t \in DOMAIN source : source[t] \subseteq 0 .. StartByte
        /\ \A t \in DOMAIN target : target[t] \subseteq 0 .. StartByte
        /\ \A t, u \in DOMAIN source : t # u => source[t] \cap source[u] = {}
        /\ \A t, u \in DOMAIN target : t # u => target[t] \cap target[u] = {}
    BY DEF GoodEdges
  <1>2. DOMAIN merged = T /\ \A t \in T : merged[t] = Label(t)
    <2>1. merged = [t \in T |-> Label(t)]
      BY DEF MergeEdges
    <2>. HIDE DEF T, merged, Label
    <2>. QED
      BY <2>1
  <1>3. \A t \in DOMAIN source : source[t] \subseteq taken
    OBVIOUS
  <1>. HIDE DEF taken, merged
  <1>4. \A t \in T : Label(t) \subseteq 0 .. StartByte
    BY <1>1
  <1>5. ASSUME NEW t \in T, NEW u \in T, t # u PROVE Label(t) \cap Label(u) = {}
    <2>1. CASE t \in DOMAIN source /\ u \in DOMAIN source
      BY <1>1, <1>5, <2>1
    <2>2. CASE t \in DOMAIN source /\ u \notin DOMAIN source
      BY <1>3, <2>2
    <2>3. CASE t \notin DOMAIN source /\ u \in DOMAIN source
      BY <1>3, <2>3
    <2>4. CASE t \notin DOMAIN source /\ u \notin DOMAIN source
      <3>1. target[t] \cap target[u] = {}
        BY <1>1, <1>5, <2>4
      <3>. QED
        BY <2>4, <3>1
    <2>. QED
      BY <2>1, <2>2, <2>3, <2>4
  <1>. HIDE DEF T, Label
  <1>6. T \subseteq 0 .. last
    BY <1>1
  <1>7. GoodEdges(merged, 0, last)
    BY <1>2, <1>4, <1>5, <1>6 DEF GoodEdges
  <1>. QED
    BY <1>7 DEF merged

LEMMA WidenedAreGood ==
  ASSUME NEW edges, NEW i, NEW j, NEW k, NEW l, GoodEdges(edges, i, j), i .. j \subseteq k .. l
  PROVE  GoodEdges(edges, k, l)
  BY DEF GoodEdges

\* A part whose states are numbered from the last state on joins the graph.
LEMMA AddedIsGood ==
  ASSUME NEW glued, GoodGraph(glued, 0), NEW g, GoodGraph(g, MaxStateIndex(glued))
  PROVE  GoodGraph(AddDfa(glued, g), 0)
  <1> DEFINE n == Len(glued)
             m == Len(g)
             base == MaxStateIndex(glued)
             last == base + m - 1
             Old(k) == IF glued[k].accept THEN ProcessAcceptState(glued[k], g[1]) ELSE glued[k]
             front == [k \in DOMAIN glued |-> Old(k)]
             back == Tail(g)
             all == AddDfa(glued, g)
  <1>1. /\ n \in Nat /\ n >= 1 /\ DOMAIN glued = 1 .. n
        /\ \A k \in 1 .. n : /\ glued[k].id = 0 + k - 1
                             /\ glued[k].accept \in BOOLEAN
                             /\ GoodEdges(glued[k].edges, 0, 0 + n - 1)
    BY GraphFacts
  <1>2. base = n - 1 /\ base \in Nat
    BY <1>1, LastIndex
  <1>. HIDE DEF base
  <1>3. /\ m \in Nat /\ m >= 1 /\ DOMAIN g = 1 .. m
        /\ \A k \in 1 .. m : /\ g[k].id = base + k - 1
                             /\ g[k].accept \in BOOLEAN
                             /\ GoodEdges(g[k].edges, base, base + m - 1)
    <2>1. GoodGraph(g, base)
      BY DEF base
    <2>. QED
      BY <1>2, <2>1, GraphFacts
  <1>4. last \in Nat /\ last = n + m - 2
        /\ 0 .. n - 1 \subseteq 0 .. last /\ base .. last \subseteq 0 .. last
    <2>. HIDE DEF n, m
    <2>. QED
      BY <1>1, <1>2, <1>3
  <1>5. all = front \o back
    <2>1. glued # <<>>
      <3>1. 1 \in DOMAIN glued
        BY <1>1
      <3>. QED
        BY <3>1
    <2>. QED
      BY <2>1 DEF AddDfa
  <1>. HIDE DEF all
  <1>6. \A k \in 1 .. n : front[k] = Old(k)
    BY <1>1
  <1>7. front = [k \in 1 .. n |-> front[k]]
    BY <1>1
  <1>8. ASSUME NEW k \in 1 .. n
        PROVE  /\ front[k].id = 0 + k - 1
               /\ front[k].accept \in BOOLEAN
               /\ GoodEdges(front[k].edges, 0, last)
    <2>0. glued[k].accept \in BOOLEAN /\ glued[k].id = 0 + k - 1 /\ GoodEdges(glued[k].edges, 0, n - 1)
      <3>1. 0 + n - 1 = n - 1
        BY <1>1
      <3>. QED
        BY <1>1, <3>1
    <2>1. CASE glued[k].accept
      <3>1. front[k] = Node(glued[k].id, g[1].accept, MergeEdges(glued[k].edges, g[1].edges))
        BY <1>6, <2>1 DEF ProcessAcceptState
      <3>2. GoodEdges(g[1].edges, base, last) /\ g[1].accept \in BOOLEAN
        BY <1>3
      <3>. HIDE DEF front, last, n
      <3>3. GoodEdges(MergeEdges(glued[k].edges, g[1].edges), 0, last)
        BY <1>4, <2>0, <3>2, MergedAreGood
      <3>. QED
        BY <2>0, <3>1, <3>2, <3>3 DEF Node
    <2>2. CASE ~ glued[k].accept
      <3>1. front[k] = glued[k]
        BY <1>6, <2>2
      <3>2. GoodEdges(glued[k].edges, 0, last)
        <4>. HIDE DEF last, n
        <4>. QED
          BY <1>4, <2>0, WidenedAreGood
      <3>. QED
        BY <2>0, <3>1, <3>2
    <2>. QED
      BY <2>1, <2>2
  <1>. HIDE DEF front
  <1> DEFINE S == ToSet(front) \cup ToSet(g)
  <1>9. front \in Seq(S) /\ Len(front) = n /\ DOMAIN front = 1 .. n
    <2>1. DOMAIN front = 1 .. n
      BY <1>7
    <2>2. \A k \in 1 .. n : front[k] \in S
      BY <2>1 DEF ToSet
    <2>. HIDE DEF S, n
    <2>. QED
      BY <1>1, <1>7, <2>1, <2>2
  <1>10. g \in Seq(S)
    <2>1. \A k \in 1 .. m : g[k] \in S
      BY <1>3 DEF ToSet
    <2>2. g = [k \in 1 .. m |-> g[k]]
      <3>1. IsSequence(g)
        BY DEF GoodGraph
      <3>. QED
        BY <3>1, SequenceFacts
    <2>. HIDE DEF S, m
    <2>. QED
      BY <1>3, <2>1, <2>2
  <1>. HIDE DEF S
  <1>11. back \in Seq(S) /\ Len(back) = m - 1 /\ \A k \in 1 .. m - 1 : back[k] = g[k + 1]
    BY <1>3, <1>10
  <1>. HIDE DEF back, m, n
  <1>12. all \in Seq(S) /\ Len(all) = n + m - 1
         /\ \A k \in 1 .. n + m - 1 : all[k] = IF k <= n THEN front[k] ELSE back[k - n]
    <2>1. /\ front \o back \in Seq(S) /\ Len(front \o back) = Len(front) + Len(back)
          /\ \A k \in 1 .. Len(front) + Len(back) :
               (front \o back)[k] = IF k <= Len(front) THEN front[k] ELSE back[k - Len(front)]
      BY ONLY <1>9, <1>11, Concatenated
    <2>4. Len(front) + Len(back) = n + m - 1 /\ Len(front) = n
      BY <1>1, <1>3, <1>9, <1>11
    <2>. QED
      BY <1>5, <2>1, <2>4
  <1>13. all = [k \in 1 .. n + m - 1 |-> all[k]] /\ n + m - 1 \in Nat
    BY <1>1, <1>3, <1>12
  <1>14. IsSequence(all)
    BY <1>13, Listed
  <1>15. ASSUME NEW k \in 1 .. n + m - 1
         PROVE  /\ all[k].id = 0 + k - 1
                /\ all[k].accept \in BOOLEAN
                /\ GoodEdges(all[k].edges, 0, last)
    <2>1. CASE k <= n
      <3>1. k \in 1 .. n /\ all[k] = front[k]
        BY <1>1, <1>12, <2>1
      <3>. QED
        BY <1>8, <3>1
    <2>2. CASE ~ (k <= n)
      <3>0. k - n \in 1 .. m - 1 /\ k - n + 1 \in 1 .. m
        BY <1>1, <1>3, <2>2
      <3>1. PICK j \in 1 .. m : j = k - n + 1
        BY <3>0
      <3>2. all[k] = g[j]
        BY <1>11, <1>12, <2>2, <3>0, <3>1
      <3>3. g[j].id = base + j - 1 /\ g[j].accept \in BOOLEAN /\ GoodEdges(g[j].edges, base, base + m - 1)
        BY <1>3
      <3>4. base + j - 1 = 0 + k - 1
        BY <1>1, <1>2, <1>3, <3>1
      <3>5. GoodEdges(g[j].edges, base, last)
        BY <3>3
      <3>. HIDE DEF last
      <3>6. GoodEdges(g[j].edges, 0, last)
        BY <1>4, <3>5, WidenedAreGood
      <3>. QED
        BY <3>2, <3>3, <3>4, <3>6
    <2>. QED
      BY <2>1, <2>2
  <1>16. 0 + Len(all) - 1 = last /\ Len(all) >= 1
    BY <1>1, <1>3, <1>4, <1>12
  <1>. HIDE DEF last
  <1>17. GoodGraph(all, 0)
    BY <1>12, <1>14, <1>15, <1>16 DEF GoodGraph
  <1>. QED
    BY <1>17 DEF all

-----------------------------------------------------------------------------
Regex == Seq(Part) \ {<<>>}
Condition == [negate : BOOLEAN, regex : Regex]
AtMostOne(S) == \A x, y \in S : x = y

\* The parts, the conditions and the message are what they should be, the
\* graph is well numbered and deterministic, and every row has one state.
RegexInv ==
  /\ config \in Seq(Part) /\ parts \in Seq(Part)
  /\ next \in Nat \ {0}
  /\ net = <<>> \/ GoodGraph(net, 0)
  /\ stage = "caret" => config # <<>>
  /\ msg \in Message \cup {NoMessage}
  /\ stage = "bytes" => msg \in Message
  /\ rows \in Seq(SUBSET Nat) /\ rows # <<>>
  /\ \A i \in 1 .. Len(rows) : AtMostOne(rows[i])
  /\ out \in {0, 1}
  /\ rule \in Rule \cup {NoRule}
  /\ conditions \in Seq(Condition)
  /\ outputs \in Seq({0, 1})

LEMMA AtLeastIsAutomaton ==
  ASSUME NEW chars \in Bytes, NEW n \in Nat
  PROVE  AtLeast(chars, n) \in Automaton
  <1> DEFINE steps == {<<k, chars, k + 1>> : k \in 0 .. n - 1}
             loop == <<n, chars, n>>
             edges == steps \cup {loop}
             d == AtLeast(chars, n)
  <1>1. d = [start |-> 0, eoi |-> {n}, edges |-> edges]
    BY DEF AtLeast
  <1>2. IsFiniteSet(steps)
    <2> DEFINE f == [k \in 0 .. n - 1 |-> <<k, chars, k + 1>>]
    <2>1. f \in [0 .. n - 1 -> steps] /\ \A e \in steps : \E k \in 0 .. n - 1 : f[k] = e
      OBVIOUS
    <2>2. f \in Surjection(0 .. n - 1, steps)
      BY <2>1 DEF Surjection
    <2>3. 0 \in Int /\ n - 1 \in Int
      OBVIOUS
    <2>4. IsFiniteSet(0 .. n - 1)
      BY <2>3, FS_Interval
    <2>. HIDE DEF f, steps
    <2>. QED
      BY <2>2, <2>4, FS_Surjection
  <1>3. IsFiniteSet(edges)
    <2>. HIDE DEF steps, loop
    <2>. QED
      BY <1>2, FS_AddElement
  <1>4. \A e \in edges : \E k \in 0 .. n : \E m \in 0 .. n :
          e = <<k, chars, m>> /\ m = IF k = n THEN n ELSE k + 1
    <2>1. ASSUME NEW e \in steps
          PROVE  \E k \in 0 .. n : \E m \in 0 .. n :
                   e = <<k, chars, m>> /\ m = IF k = n THEN n ELSE k + 1
      <3>1. PICK k \in 0 .. n - 1 : e = <<k, chars, k + 1>>
        OBVIOUS
      <3>2. k \in 0 .. n /\ k + 1 \in 0 .. n /\ k # n
        OBVIOUS
      <3>. QED
        BY <3>1, <3>2
    <2>2. n \in 0 .. n
      OBVIOUS
    <2>. HIDE DEF steps
    <2>. QED
      BY <2>1, <2>2
  <1>. HIDE DEF edges
  <1>5. edges \in SUBSET (Int \X Bytes \X Int)
    <2>1. \A k \in 0 .. n : k \in Int
      OBVIOUS
    <2>. QED
      BY <1>4, <2>1
  <1>6. IsDeterministic(edges)
    BY <1>4 DEF IsDeterministic
  <1>. QED
    BY <1>1, <1>3, <1>5, <1>6 DEF Automaton

LEMMA PartsOfConditions ==
  ASSUME NEW d \in Automaton
  PROVE  WholeText(d) \in Regex /\ Anywhere(d) \in Regex
  <1> DEFINE p == [caret |-> "bare", group |-> d, dfa |-> d, dollar |-> TRUE, public |-> FALSE]
             q == [caret |-> "none", group |-> d, dfa |-> d, dollar |-> FALSE, public |-> FALSE]
  <1>1. p \in Part /\ q \in Part
    BY DEF Part
  <1>2. WholeText(d) = <<p>> /\ Anywhere(d) = <<q>>
    BY DEF WholeText, Anywhere
  <1>. HIDE DEF p, q
  <1>3. <<p>> \in Seq(Part) /\ <<q>> \in Seq(Part) /\ <<p>> # <<>> /\ <<q>> # <<>>
    BY <1>1
  <1>. QED
    BY <1>2, <1>3 DEF Regex

LEMMA LookaheadsAreConditions ==
  ASSUME NEW r \in Rule
  PROVE  ExtractLookaheads(r) \in Seq(Condition)
  <1> DEFINE front == [k \in DOMAIN r.looks |->
                         [negate |-> r.looks[k].negate, regex |-> Anywhere(r.looks[k].dfa)]]
  <1>1. r.looks \in Seq(Look) /\ r.least \in Nat
    BY DEF Rule
  <1> DEFINE looks == r.looks
             n == Len(looks)
  <1>2. n \in Nat /\ DOMAIN looks = 1 .. n /\ \A k \in 1 .. n : looks[k] \in Look
    <2>1. looks \in Seq(Look)
      BY <1>1
    <2>. HIDE DEF looks
    <2>. QED
      BY <2>1
  <1>3. ASSUME NEW k \in 1 .. n
        PROVE  [negate |-> looks[k].negate, regex |-> Anywhere(looks[k].dfa)] \in Condition
    <2>1. looks[k].negate \in BOOLEAN /\ looks[k].dfa \in Automaton
      BY <1>2 DEF Look
    <2>2. Anywhere(looks[k].dfa) \in Regex
      BY <2>1, PartsOfConditions
    <2>. QED
      BY <2>1, <2>2 DEF Condition
  <1>4. front \in [1 .. n -> Condition]
    BY <1>2, <1>3
  <1>5. front \in Seq(Condition)
    <2>. HIDE DEF front, n
    <2>. QED
      BY <1>2, <1>4
  <1>6. TailCondition(r) \in Seq(Condition)
    <2> DEFINE Tail1(d) == <<[negate |-> FALSE,
                              regex |-> IF r.anchored THEN WholeText(d) ELSE Anywhere(d)]>>
    <2>1. DotChars(r) \in Bytes
      BY CharsAssumption DEF DotChars
    <2>2. ASSUME NEW d \in Automaton PROVE Tail1(d) \in Seq(Condition)
      <3> DEFINE c == [negate |-> FALSE, regex |-> IF r.anchored THEN WholeText(d) ELSE Anywhere(d)]
      <3>1. WholeText(d) \in Regex /\ Anywhere(d) \in Regex
        BY PartsOfConditions
      <3>2. c \in Condition
        BY <3>1 DEF Condition
      <3>. HIDE DEF c
      <3>3. <<c>> \in Seq(Condition)
        BY <3>2
      <3>. QED
        BY <3>3 DEF c
    <2>. HIDE DEF Tail1
    <2>3. Tail1(AtLeast(DotChars(r), r.least)) \in Seq(Condition)
      BY <1>1, <2>1, <2>2, AtLeastIsAutomaton
    <2>4. Tail1(AtLeast(DotChars(r), 0)) \in Seq(Condition)
      BY <2>1, <2>2, AtLeastIsAutomaton
    <2>5. <<>> \in Seq(Condition)
      OBVIOUS
    <2>6. \/ TailCondition(r) = Tail1(AtLeast(DotChars(r), r.least))
          \/ TailCondition(r) = Tail1(AtLeast(DotChars(r), 0))
          \/ TailCondition(r) = <<>>
      BY DEF TailCondition, Tail1
    <2>. QED
      BY <2>3, <2>4, <2>5, <2>6
  <1>7. ExtractLookaheads(r) = front \o TailCondition(r)
    BY DEF ExtractLookaheads
  <1>. HIDE DEF front
  <1>. QED
    BY <1>5, <1>6, <1>7, Concatenated

-----------------------------------------------------------------------------
LEMMA RegexBegins == Init => RegexInv
  <1>. SUFFICES ASSUME Init PROVE RegexInv
    OBVIOUS
  <1>1. /\ config = <<>> /\ parts = <<>> /\ next = 1 /\ net = <<>> /\ stage = "idle"
        /\ msg = NoMessage /\ rows = <<{}>> /\ out = 0
        /\ conditions = <<>> /\ outputs = <<>> /\ rule \in Rule \cup {NoRule}
    BY RulesAssumption DEF Init, CircuitInit, PolicyInit
  <1>2. /\ <<>> \in Seq(Part) /\ <<>> \in Seq(Condition) /\ <<>> \in Seq({0, 1})
        /\ <<{}>> \in Seq(SUBSET Nat) /\ <<{}>> # <<>> /\ Len(<<{}>>) = 1
        /\ \A i \in 1 .. 1 : <<{}>>[i] = {}
    OBVIOUS
  <1>. QED
    BY <1>1, <1>2 DEF RegexInv, AtMostOne

\* What the compiler is called with is a regex.
LEMMA CompileKeepsInv ==
  ASSUME RegexInv, NEW c \in Regex, Compile(c),
         rule' \in Rule \cup {NoRule}, conditions' \in Seq(Condition), outputs' \in Seq({0, 1})
  PROVE  RegexInv'
  <1>1. /\ config' = c /\ parts' = c /\ next' = 1 /\ net' = <<>> /\ stage' = "caret"
        /\ rows' = <<{}>> /\ out' = 0 /\ msg' = msg
    BY DEF Compile
  <1>2. /\ c \in Seq(Part) /\ c # <<>>
        /\ <<{}>> \in Seq(SUBSET Nat) /\ <<{}>> # <<>> /\ Len(<<{}>>) = 1
        /\ \A i \in 1 .. 1 : <<{}>>[i] = {}
    BY DEF Regex
  <1>3. msg \in Message \cup {NoMessage}
    BY DEF RegexInv
  <1>4. \A i \in 1 .. Len(rows') : AtMostOne(rows'[i])
    BY <1>1, <1>2 DEF AtMostOne
  <1>. QED
    BY <1>1, <1>2, <1>3, <1>4 DEF RegexInv, Message

LEMMA CaretKeepsInv ==
  ASSUME RegexInv, ProcessCaret, UNCHANGED policyVars
  PROVE  RegexInv'
  <1> DEFINE c == config[1]
             first == [c EXCEPT !.dfa = c.group, !.dollar = FALSE, !.public = FALSE]
             rest == [config EXCEPT ![1].caret = "none"]
             second == [c EXCEPT !.caret = "none"]
  <1>1. /\ stage = "caret" /\ stage' = "parts"
        /\ parts' = IF c.caret = "none" THEN config ELSE <<first>> \o rest
        /\ UNCHANGED <<config, next, net, ranges, signals>>
    BY DEF ProcessCaret
  <1>2. config \in Seq(Part) /\ config # <<>>
    BY <1>1 DEF RegexInv
  <1>3. Len(config) \in Nat /\ DOMAIN config = 1 .. Len(config) /\ 1 \in DOMAIN config /\ c \in Part
    BY <1>2
  <1>4. first \in Part /\ second \in Part
    <2>. HIDE DEF c
    <2>. QED
      BY <1>3 DEF Part
  <1>5. rest = [k \in 1 .. Len(config) |-> IF k = 1 THEN second ELSE config[k]]
    BY <1>3
  <1>6. rest \in Seq(Part)
    <2>1. \A k \in 1 .. Len(config) : config[k] \in Part
      BY <1>2
    <2>. HIDE DEF second, rest
    <2>2. rest \in [1 .. Len(config) -> Part]
      BY <1>4, <1>5, <2>1
    <2>. QED
      BY <1>3, <2>2
  <1>7. <<first>> \in Seq(Part)
    <2>. HIDE DEF first
    <2>. QED
      BY <1>4
  <1>8. <<first>> \o rest \in Seq(Part)
    <2>. HIDE DEF first, rest
    <2>. QED
      BY <1>6, <1>7, Concatenated
  <1>9. parts' \in Seq(Part)
    <2>. HIDE DEF first, rest
    <2>. QED
      BY <1>1, <1>2, <1>8
  <1>. HIDE DEF first, rest, second, c
  <1>. QED
    BY <1>1, <1>9 DEF RegexInv, signals, policyVars, Message

LEMMA PartKeepsInv ==
  ASSUME RegexInv, CompilePart, UNCHANGED policyVars
  PROVE  RegexInv'
  <1>0. /\ stage = "parts" /\ next <= Len(parts)
        /\ UNCHANGED <<config, parts, signals>>
    BY DEF CompilePart
  <1>1. CASE PartFails(next)
    <2>1. stage' = "error" /\ UNCHANGED <<next, net, ranges>>
      BY <1>1 DEF CompilePart
    <2>. QED
      BY <1>0, <2>1 DEF RegexInv, signals, policyVars, Message
  <1>2. CASE ~ PartFails(next)
    <2> DEFINE part == parts[next]
               base == MaxStateIndex(net)
               plain == PartGraph(next)
               g == RenameStates(plain, base)
    <2>1. net' = AddDfa(net, g) /\ next' = next + 1 /\ stage' = stage
      BY <1>2 DEF CompilePart
    <2>2. part \in Part /\ next \in Nat \ {0}
      <3>1. parts \in Seq(Part) /\ next \in Nat \ {0}
        BY DEF RegexInv
      <3>2. next \in 1 .. Len(parts)
        BY <1>0, <3>1
      <3>. QED
        BY <3>1, <3>2
    <2>3. part.dfa \in Automaton
      <3>. HIDE DEF part
      <3>. QED
        BY <2>2 DEF Part
    <2>4. GoodGraph(plain, 0)
      <3> DEFINE h == ConvertDfaToGraph(part.dfa)
      <3>1. GoodGraph(h, 0) /\ WithoutStart(h)
        BY <2>3, ConvertedIsGood
      <3>2. CASE next = 1 /\ parts[1].caret = "bare"
        <4>1. plain = CaretGraph
          BY <3>2 DEF PartGraph
        <4>. QED
          BY <4>1, CaretIsGood
      <3>3. CASE next = 1 /\ parts[1].caret = "group"
        <4>1. plain = ModifyGraphForCaret(h)
          BY <3>3 DEF PartGraph
        <4>2. CanModifyForCaret(h)
          BY <1>2, <3>3 DEF PartFails
        <4>. HIDE DEF h, plain
        <4>. QED
          BY <3>1, <4>1, <4>2, ModifiedIsGood
      <3>4. CASE next # 1 \/ parts[1].caret = "none"
        <4>1. plain = h
          BY <3>4 DEF PartGraph
        <4>. HIDE DEF h, plain
        <4>. QED
          BY <3>1, <4>1
      <3>5. next = 1 => parts[1].caret \in {"none", "bare", "group"}
        BY <2>2 DEF Part
      <3>. HIDE DEF plain
      <3>. QED
        BY <3>2, <3>3, <3>4, <3>5
    <2>. HIDE DEF plain, part
    <2>5. GoodGraph(net', 0)
      <3>1. CASE net = <<>>
        <4>1. base = 0
          BY <3>1 DEF MaxStateIndex
        <4>2. net' = g
          BY <2>1, <3>1 DEF AddDfa
        <4>. HIDE DEF base
        <4>3. GoodGraph(g, base)
          BY <2>4, <4>1, RenamedIsGood
        <4>. HIDE DEF g
        <4>. QED
          BY <4>1, <4>2, <4>3
      <3>2. CASE net # <<>>
        <4>1. GoodGraph(net, 0)
          BY <3>2 DEF RegexInv
        <4>2. base \in Nat
          <5>1. base = Len(net) - 1
            BY <4>1, LastIndex
          <5>2. Len(net) \in Nat /\ Len(net) >= 1
            BY <4>1, GraphFacts
          <5>. HIDE DEF base
          <5>. QED
            BY <5>1, <5>2
        <4>3. GoodGraph(g, base)
          <5>. HIDE DEF base
          <5>. QED
            BY <2>4, <4>2, RenamedIsGood
        <4>4. GoodGraph(AddDfa(net, g), 0)
          <5>. HIDE DEF g
          <5>. QED
            BY <4>1, <4>3, AddedIsGood
        <4>. QED
          BY <2>1, <4>4
      <3>. QED
        BY <3>1, <3>2
    <2>6. next' \in Nat \ {0} /\ stage' = "parts"
      BY <1>0, <2>1, <2>2
    <2>. HIDE DEF g, base
    <2>. QED
      BY <1>0, <2>5, <2>6 DEF RegexInv, signals, policyVars, Message
  <1>. QED
    BY <1>1, <1>2

LEMMA CircuitKeepsInv ==
  ASSUME RegexInv, GenerateCircuit, UNCHANGED policyVars
  PROVE  RegexInv'
  <1>1. UNCHANGED <<config, parts, next, net, ranges, rows, zero, out, reveal>>
    BY DEF GenerateCircuit, compiled
  <1>2. /\ msg' \in Message \cup {NoMessage}
        /\ stage' = "bytes" => msg' \in Message
        /\ stage' # "caret"
    <2>1. msg \in Message \cup {NoMessage}
      BY DEF RegexInv
    <2>2. CASE stage' = "error" /\ UNCHANGED msg
      BY <2>1, <2>2
    <2>3. CASE /\ msg' \in IF msg = NoMessage THEN Message ELSE {msg}
               /\ stage' = IF InRange(msg') THEN "bytes" ELSE "unsatisfied"
      BY <2>1, <2>3
    <2>. QED
      BY <2>2, <2>3 DEF GenerateCircuit
  <1>. QED
    BY <1>1, <1>2 DEF RegexInv, policyVars, Message

\* The checks of a transition accept its bytes only.
LEMMA MatchedIsRead ==
  ASSUME NEW bytes \in SUBSET (0 .. StartByte), NEW b \in Int, BytesMatch(bytes, b)
  PROVE  b \in bytes
  <1> DEFINE readable == Readable(bytes)
             checks == OptimizeCharRanges(readable, MinSpan)
  <1>1. readable \subseteq bytes
    BY DEF Readable
  <1>2. checks.vals \subseteq readable
    BY DEF OptimizeCharRanges
  <1>3. \A r \in checks.ranges : r \in readable \X readable /\ r[1] .. r[2] \subseteq readable
    BY DEF OptimizeCharRanges
  <1>4. b \in checks.vals \/ \E r \in checks.ranges : r[1] <= b /\ b <= r[2]
    BY DEF BytesMatch
  <1>. HIDE DEF readable, checks
  <1>5. ASSUME NEW r \in checks.ranges, r[1] <= b, b <= r[2] PROVE b \in readable
    <2>1. r[1] \in Int /\ r[2] \in Int
      <3>1. r[1] \in bytes /\ r[2] \in bytes
        BY <1>1, <1>3
      <3>2. \A x \in bytes : x \in Int
        BY DEF StartByte
      <3>. QED
        BY <3>1, <3>2
    <2>2. b \in r[1] .. r[2]
      BY <1>5, <2>1
    <2>. QED
      BY <1>3, <2>2
  <1>. QED
    BY <1>1, <1>2, <1>4, <1>5

\* A byte leads from one state to one other state at most.
LEMMA OneSuccessor ==
  ASSUME net = <<>> \/ GoodGraph(net, 0), NEW b \in Int,
         NEW s, NEW t, NEW e \in Into(s), NEW f \in Into(t), e[1] = f[1],
         BytesMatch(e[2], b), BytesMatch(f[2], b)
  PROVE  s = t
  <1>1. PICK j \in DOMAIN net : s \in DOMAIN net[j].edges /\ e = <<j - 1, net[j].edges[s]>>
    BY DEF Into
  <1>2. PICK k \in DOMAIN net : t \in DOMAIN net[k].edges /\ f = <<k - 1, net[k].edges[t]>>
    BY DEF Into
  <1>3. GoodGraph(net, 0)
    BY <1>1
  <1>4. DOMAIN net = 1 .. Len(net) /\ Len(net) \in Nat
    BY <1>3, GraphFacts
  <1>5. j = k
    <2>1. j \in Int /\ k \in Int /\ j - 1 = k - 1
      BY <1>1, <1>2, <1>4
    <2>. QED
      BY ONLY <2>1
  <1>6. GoodEdges(net[j].edges, 0, 0 + Len(net) - 1)
    BY <1>3, <1>4, GraphFacts
  <1> DEFINE edges == net[j].edges
  <1>7. /\ s \in DOMAIN edges /\ t \in DOMAIN edges
        /\ BytesMatch(edges[s], b) /\ BytesMatch(edges[t], b)
    BY <1>1, <1>2, <1>5
  <1>8. /\ \A x \in DOMAIN edges : edges[x] \subseteq 0 .. StartByte
        /\ \A x, y \in DOMAIN edges : x # y => edges[x] \cap edges[y] = {}
    BY <1>6 DEF GoodEdges
  <1>. HIDE DEF edges
  <1>9. b \in edges[s] /\ b \in edges[t]
    BY <1>7, <1>8, MatchedIsRead
  <1>. QED
    BY <1>7, <1>8, <1>9

LEMMA RowsKeepInv ==
  ASSUME RegexInv, ReadByte, UNCHANGED policyVars
  PROVE  RegexInv'
  <1> DEFINE i == Len(rows) - 1
             b == In[i + 1]
             active == States(i)
             continued == Continued(active, b)
             row == continued \cup IF continued = {} THEN Started(b) ELSE {}
  <1>1. /\ stage = "bytes" /\ i < NumBytes /\ rows' = Append(rows, row)
        /\ UNCHANGED <<compiled, stage, msg, out, reveal>>
    BY DEF ReadByte
  <1>2. /\ rows \in Seq(SUBSET Nat) /\ rows # <<>> /\ msg \in Message
        /\ \A k \in 1 .. Len(rows) : AtMostOne(rows[k])
        /\ net = <<>> \/ GoodGraph(net, 0)
    BY <1>1 DEF RegexInv
  <1>3. Len(rows) \in Nat /\ Len(rows) >= 1 /\ MsgBytes \in Nat /\ NumBytes = MsgBytes + 1
    BY <1>2, MsgBytesAssumption DEF NumBytes
  <1>4. b \in Int
    <2>1. msg \in Seq(Int) /\ Len(msg) = MsgBytes
      <3>1. \A k \in Byte : k \in Int
        BY ByteAssumption
      <3>2. msg \in [1 .. MsgBytes -> Int]
        BY <1>2, <3>1 DEF Message
      <3>. QED
        BY <1>3, <3>2
    <2>2. <<StartByte>> \in Seq(Int) /\ Len(<<StartByte>>) = 1
      BY DEF StartByte
    <2>3. In \in Seq(Int) /\ Len(In) = 1 + MsgBytes
      BY <2>1, <2>2, Concatenated DEF In
    <2>4. i + 1 \in 1 .. Len(In)
      BY <1>1, <1>3, <2>3
    <2>. HIDE DEF i
    <2>. QED
      BY <2>3, <2>4
  <1>5. AtMostOne(active \ {0})
    <2>1. i + 1 \in 1 .. Len(rows)
      BY <1>3
    <2>2. AtMostOne(rows[i + 1])
      <3>. HIDE DEF i
      <3>. QED
        BY <1>2, <2>1
    <2>. QED
      BY <2>2 DEF AtMostOne, States
  <1>. HIDE DEF i, b, active
  <1>6. AtMostOne(continued)
    <2>1. SUFFICES ASSUME NEW s \in continued, NEW t \in continued PROVE s = t
      BY DEF AtMostOne
    <2>2. PICK e \in Into(s) : e[1] \in active \ {0} /\ BytesMatch(e[2], b)
      BY DEF Continued
    <2>3. PICK f \in Into(t) : f[1] \in active \ {0} /\ BytesMatch(f[2], b)
      BY DEF Continued
    <2>4. e[1] = f[1]
      BY <1>5, <2>2, <2>3 DEF AtMostOne
    <2>. QED
      BY <1>2, <1>4, <2>2, <2>3, <2>4, OneSuccessor
  <1>7. AtMostOne(Started(b))
    <2>1. SUFFICES ASSUME NEW s \in Started(b), NEW t \in Started(b) PROVE s = t
      BY DEF AtMostOne
    <2>2. PICK e \in Into(s) : e[1] = 0 /\ BytesMatch(e[2], b)
      BY DEF Started
    <2>3. PICK f \in Into(t) : f[1] = 0 /\ BytesMatch(f[2], b)
      BY DEF Started
    <2>4. e[1] = f[1]
      BY <2>2, <2>3
    <2>. QED
      BY <1>2, <1>4, <2>2, <2>3, <2>4, OneSuccessor
  <1>8. row \in SUBSET Nat
    <2>1. \A s \in NonZero : s \in Nat
      BY DEF NonZero
    <2>. QED
      BY <2>1 DEF Continued, Started
  <1>. HIDE DEF continued
  <1>9. AtMostOne(row)
    BY <1>6, <1>7 DEF AtMostOne
  <1>. HIDE DEF row
  <1>10. /\ rows' \in Seq(SUBSET Nat) /\ Len(rows') = Len(rows) + 1
         /\ \A k \in 1 .. Len(rows) : rows'[k] = rows[k]
         /\ rows'[Len(rows) + 1] = row
    BY <1>1, <1>2, <1>8
  <1>11. rows' # <<>>
    BY <1>3, <1>10
  <1>12. ASSUME NEW k \in 1 .. Len(rows') PROVE AtMostOne(rows'[k])
    <2>1. CASE k = Len(rows) + 1
      BY <1>9, <1>10, <2>1
    <2>2. CASE k # Len(rows) + 1
      <3>1. k \in 1 .. Len(rows)
        BY <1>3, <1>10, <2>2
      <3>2. rows'[k] = rows[k]
        BY <1>10, <3>1
      <3>. QED
        BY <1>2, <3>1, <3>2
    <2>. QED
      BY <2>1, <2>2
  <1>. QED
    BY <1>1, <1>10, <1>11, <1>12 DEF RegexInv, compiled, policyVars, Message

LEMMA FinishKeepsInv ==
  ASSUME RegexInv, Finish, UNCHANGED policyVars
  PROVE  RegexInv'
  <1>1. /\ out' = Out /\ stage' = "finished"
        /\ UNCHANGED <<compiled, msg, rows, zero>>
    BY DEF Finish
  <1>2. Out \in {0, 1}
    BY DEF Out
  <1>. QED
    BY <1>1, <1>2 DEF RegexInv, compiled, policyVars, Message

LEMMA DecomposedKeepsInv ==
  ASSUME RegexInv, CompileDecomposed
  PROVE  RegexInv'
  <1>1. PICK c \in Decomposed : Compile(c)
    BY DEF CompileDecomposed
  <1>2. c \in Regex
    BY DecomposedAssumption DEF Regex
  <1>3. UNCHANGED policyVars
    BY DEF CompileDecomposed
  <1>4. /\ rule' \in Rule \cup {NoRule} /\ conditions' \in Seq(Condition)
        /\ outputs' \in Seq({0, 1})
    BY <1>3 DEF RegexInv, policyVars
  <1>. QED
    BY <1>1, <1>2, <1>4, CompileKeepsInv

LEMMA RuleKeepsInv ==
  ASSUME RegexInv, BuildRule
  PROVE  RegexInv'
  <1>1. rule \in Rule /\ UNCHANGED <<rule, outputs, statement>>
    BY DEF BuildRule, RegexInv
  <1>2. CASE /\ stage' = "error"
             /\ UNCHANGED <<conditions, compiled, signals>>
    BY <1>1, <1>2 DEF RegexInv, compiled, signals, Message
  <1>3. CASE /\ ~ (TailFails(rule) \/ ExtractLookaheads(rule) = <<>>)
             /\ conditions' = ExtractLookaheads(rule)
             /\ Compile(conditions'[1].regex)
    <2> DEFINE all == ExtractLookaheads(rule)
    <2>1. all \in Seq(Condition) /\ all # <<>>
      BY <1>1, <1>3, LookaheadsAreConditions
    <2>2. conditions' = all
      BY <1>3
    <2>. HIDE DEF all
    <2>3. all[1] \in Condition
      BY <2>1
    <2>4. all[1].regex \in Regex
      BY <2>3 DEF Condition
    <2>5. Compile(all[1].regex)
      BY <1>3, <2>2
    <2>6. /\ rule' \in Rule \cup {NoRule} /\ conditions' \in Seq(Condition)
          /\ outputs' \in Seq({0, 1})
      BY <1>1, <2>1, <2>2 DEF RegexInv
    <2>. QED
      BY <2>4, <2>5, <2>6, CompileKeepsInv
  <1>. QED
    BY <1>2, <1>3 DEF BuildRule

LEMMA CombineKeepsInv ==
  ASSUME RegexInv, CombineCondition
  PROVE  RegexInv'
  <1> DEFINE bit == ConditionOut(Len(outputs) + 1)
             more == Append(outputs, bit)
  <1>1. /\ Len(outputs) < Len(conditions) /\ outputs' = more
        /\ UNCHANGED <<rule, conditions, statement>>
    BY DEF CombineCondition
  <1>2. outputs \in Seq({0, 1}) /\ conditions \in Seq(Condition) /\ out \in {0, 1}
    BY DEF RegexInv
  <1>3. bit \in {0, 1}
    BY <1>2 DEF ConditionOut
  <1>. HIDE DEF bit
  <1>4. more \in Seq({0, 1}) /\ Len(more) = Len(outputs) + 1 /\ Len(outputs) \in Nat
    BY <1>2, <1>3
  <1>. HIDE DEF more
  <1>5. CASE Len(more) < Len(conditions)
    <2>1. Compile(conditions[Len(more) + 1].regex)
      BY <1>1, <1>5 DEF CombineCondition
    <2>2. Len(more) + 1 \in 1 .. Len(conditions)
      BY <1>2, <1>4, <1>5
    <2>3. conditions[Len(more) + 1] \in Condition
      BY <1>2, <2>2
    <2>4. conditions[Len(more) + 1].regex \in Regex
      BY <2>3 DEF Condition
    <2>5. /\ rule' \in Rule \cup {NoRule} /\ conditions' \in Seq(Condition)
          /\ outputs' \in Seq({0, 1})
      BY <1>1, <1>4 DEF RegexInv
    <2>. QED
      BY <2>1, <2>4, <2>5, CompileKeepsInv
  <1>6. CASE ~ (Len(more) < Len(conditions))
    <2>1. stage' = "combined" /\ UNCHANGED <<compiled, signals>>
      BY <1>1, <1>6 DEF CombineCondition
    <2>. QED
      BY <1>1, <1>4, <2>1 DEF RegexInv, compiled, signals, Message
  <1>. QED
    BY <1>5, <1>6

LEMMA ExpectedKeepsInv ==
  ASSUME RegexInv, ConstrainExpected
  PROVE  RegexInv'
  BY DEF RegexInv, ConstrainExpected, compiled, signals, Message

LEMMA RegexInvIsInductive ==
  ASSUME RegexInv, [Next]_vars
  PROVE  RegexInv'
  <1>1. CASE UNCHANGED vars
    BY <1>1 DEF RegexInv, vars, circuitVars, policyVars, compiled, signals, Message
  <1>2. CASE CompileDecomposed
    BY <1>2, DecomposedKeepsInv
  <1>3. CASE CircuitStep /\ UNCHANGED policyVars
    BY <1>3, CaretKeepsInv, PartKeepsInv, CircuitKeepsInv, RowsKeepInv, FinishKeepsInv
       DEF CircuitStep
  <1>4. CASE PolicyStep
    BY <1>4, RuleKeepsInv, CombineKeepsInv, ExpectedKeepsInv DEF PolicyStep
  <1>. QED
    BY <1>1, <1>2, <1>3, <1>4 DEF Next

LEMMA RegexInvHolds == Spec => []RegexInv
  BY RegexBegins, RegexInvIsInductive, PTL DEF Spec

-----------------------------------------------------------------------------
\* However many parts a regex has, whatever their automata are and in which
\* order their labels are printed: the number of a state of the glued graph is
\* its position, and no edge leads out of the graph (add_dfa, rename_states).
THEOREM StatesAreNumberedByPosition == Spec => []NumberedByPosition
  <1>1. RegexInv => NumberedByPosition
    <2>. SUFFICES ASSUME RegexInv, NEW k \in DOMAIN net
                  PROVE  /\ net[k].id = k - 1
                         /\ \A t \in DOMAIN net[k].edges : t + 1 \in DOMAIN net
      BY DEF NumberedByPosition
    <2>1. GoodGraph(net, 0)
      BY DEF RegexInv
    <2>2. /\ Len(net) \in Nat /\ DOMAIN net = 1 .. Len(net)
          /\ net[k].id = 0 + k - 1
          /\ GoodEdges(net[k].edges, 0, 0 + Len(net) - 1)
      BY <2>1, GraphFacts
    <2>3. \A t \in DOMAIN net[k].edges : t \in 0 .. 0 + Len(net) - 1
      BY <2>2 DEF GoodEdges
    <2>. QED
      BY <2>2, <2>3
  <1>. QED
    BY <1>1, RegexInvHolds, PTL

\* The circuit is in one state at a time, on every message: gluing and the
\* start byte leave the graph deterministic, and the range checks accept no
\* byte that is not on the edge (merge_edges, add_range_check).
THEOREM RowsAreOneRun == Spec => []OneRunAtATime
  <1>1. RegexInv => OneRunAtATime
    <2>. SUFFICES ASSUME RegexInv, NEW i \in DOMAIN rows PROVE Cardinality(rows[i]) <= 1
      BY DEF OneRunAtATime
    <2>1. rows \in Seq(SUBSET Nat) /\ \A k \in 1 .. Len(rows) : AtMostOne(rows[k])
      BY DEF RegexInv
    <2>2. AtMostOne(rows[i])
      BY <2>1
    <2>3. CASE rows[i] = {}
      BY <2>3, FS_EmptySet
    <2>4. CASE rows[i] # {}
      <3>1. PICK x : x \in rows[i]
        BY <2>4
      <3>2. rows[i] = {x}
        BY <2>2, <3>1 DEF AtMostOne
      <3>3. Cardinality({x}) = 1
        BY FS_Singleton
      <3>. QED
        BY <3>2, <3>3
    <2>. QED
      BY <2>3, <2>4
  <1>. QED
    BY <1>1, RegexInvHolds, PTL

-----------------------------------------------------------------------------
\* The runs of an automaton are well defined.
LEMMA RunsDef ==
  ASSUME NEW d, NEW word
  PROVE  Runs(d, word) = [k \in Nat |-> IF k = 0 THEN {d.start}
                                        ELSE Successors(d, Runs(d, word)[k - 1], word[k])]
  <1> DEFINE begin == {d.start}
             After(k, s) == Successors(d, s, word[k])
             Turn(k, s) == IF k = 0 THEN begin ELSE After(k, s)
  <1>. HIDE DEF begin, After
  <1> DEFINE IsRun(f, n) == f = [k \in 0 .. n |-> Turn(k, f[k - 1])]
             Defined == {n \in Nat : \E f : IsRun(f, n)}
  <1>1. 0 \in Defined
    <2>1. IsRun([k \in 0 .. 0 |-> begin], 0)
      OBVIOUS
    <2>. QED
      BY <2>1
  <1>2. ASSUME NEW n \in Nat, n \in Defined PROVE n + 1 \in Defined
    <2>1. PICK f : IsRun(f, n)
      BY <1>2
    <2> DEFINE h == [k \in 0 .. n + 1 |-> Turn(k, f[k - 1])]
    <2>2. \A k \in 0 .. n : h[k] = f[k]
      BY <2>1
    <2>3. \A k \in 0 .. n + 1 : k # 0 => k - 1 \in 0 .. n
      OBVIOUS
    <2>4. \A k \in 0 .. n + 1 : h[k] = Turn(k, h[k - 1])
      BY <2>2, <2>3
    <2>5. IsRun(h, n + 1)
      BY <2>4
    <2>. QED
      <3>. HIDE DEF h, IsRun
      <3>. QED
        BY <2>5
  <1>3. \A n \in Nat : \E f : IsRun(f, n)
    <2>1. Nat \subseteq Defined
      <3>. HIDE DEF Defined
      <3>. QED
        BY <1>1, <1>2, NatInduct
    <2>. QED
      BY <2>1
  <1> DEFINE F(n) == CHOOSE f : IsRun(f, n)
             g == [k \in Nat |-> F(k)[k]]
  <1>4. \A n \in Nat : IsRun(F(n), n)
    <2>. HIDE DEF IsRun
    <2>. QED
      BY <1>3
  <1>5. \A n \in Nat : F(n + 1)[n] = F(n)[n]
    <2> DEFINE Same(n) == {k \in Nat : k <= n => F(n + 1)[k] = F(n)[k]}
    <2>1. ASSUME NEW n \in Nat PROVE n \in Same(n)
      <3>. HIDE DEF F
      <3>0. IsRun(F(n), n) /\ IsRun(F(n + 1), n + 1)
        <4>1. n + 1 \in Nat
          OBVIOUS
        <4>. HIDE DEF IsRun
        <4>. QED
          BY <1>4, <4>1
      <3>1. /\ F(n) = [k \in 0 .. n |-> Turn(k, F(n)[k - 1])]
            /\ F(n + 1) = [k \in 0 .. n + 1 |-> Turn(k, F(n + 1)[k - 1])]
        BY <3>0
      <3>2. 0 \in Same(n)
        BY <3>1
      <3>3. ASSUME NEW k \in Nat, k \in Same(n) PROVE k + 1 \in Same(n)
        <4>. SUFFICES ASSUME k + 1 <= n PROVE F(n + 1)[k + 1] = F(n)[k + 1]
          OBVIOUS
        <4>1. F(n + 1)[k] = F(n)[k]
          BY <3>3
        <4>2. k + 1 \in 0 .. n /\ k + 1 \in 0 .. n + 1 /\ k + 1 # 0 /\ (k + 1) - 1 = k
          OBVIOUS
        <4>. QED
          BY <3>1, <4>1, <4>2
      <3>. HIDE DEF Same
      <3>. QED
        BY <3>2, <3>3, NatInduct
    <2>. HIDE DEF F
    <2>. QED
      BY <2>1
  <1>6. ASSUME NEW k \in Nat PROVE g[k] = Turn(k, g[k - 1])
    <2>1. F(k) = [j \in 0 .. k |-> Turn(j, F(k)[j - 1])]
      BY <1>4
    <2>2. g[k] = F(k)[k]
      OBVIOUS
    <2>3. k # 0 => k - 1 \in Nat /\ (k - 1) + 1 = k /\ g[k - 1] = F(k - 1)[k - 1]
      OBVIOUS
    <2>4. k # 0 => F(k)[k - 1] = F(k - 1)[k - 1]
      <3>. HIDE DEF F
      <3>. QED
        BY <1>5, <2>3
    <2>. HIDE DEF F, g
    <2>. QED
      BY <2>1, <2>2, <2>3, <2>4
  <1>7. g = [k \in Nat |-> Turn(k, g[k - 1])]
    <2>1. g = [k \in Nat |-> g[k]]
      OBVIOUS
    <2>. HIDE DEF g
    <2>. QED
      BY <1>6, <2>1
  <1>. HIDE DEF g
  <1>. QED
    BY <1>7 DEF Runs, begin, After

\* A run depends on the bytes read so far only, and stays among the states
\* that the search visits.
LEMMA RunsAgree ==
  ASSUME NEW d, NEW v, NEW w, NEW N \in Nat, \A k \in 1 .. N : v[k] = w[k]
  PROVE  \A n \in 0 .. N : Runs(d, v)[n] = Runs(d, w)[n]
  <1> DEFINE Same == {n \in Nat : n <= N => Runs(d, v)[n] = Runs(d, w)[n]}
  <1>1. 0 \in Same
    <2>1. Runs(d, v)[0] = {d.start} /\ Runs(d, w)[0] = {d.start}
      BY RunsDef
    <2>. QED
      BY <2>1
  <1>2. ASSUME NEW n \in Nat, n \in Same PROVE n + 1 \in Same
    <2>. SUFFICES ASSUME n + 1 <= N PROVE Runs(d, v)[n + 1] = Runs(d, w)[n + 1]
      OBVIOUS
    <2>1. n + 1 \in Nat /\ n + 1 # 0 /\ (n + 1) - 1 = n /\ n + 1 \in 1 .. N
      OBVIOUS
    <2>2. /\ Runs(d, v)[n + 1] = Successors(d, Runs(d, v)[n], v[n + 1])
          /\ Runs(d, w)[n + 1] = Successors(d, Runs(d, w)[n], w[n + 1])
      BY <2>1, RunsDef
    <2>3. Runs(d, v)[n] = Runs(d, w)[n]
      BY <1>2
    <2>. QED
      BY <2>1, <2>2, <2>3
  <1>3. Nat \subseteq Same
    <2>. HIDE DEF Same
    <2>. QED
      BY <1>1, <1>2, NatInduct
  <1>. QED
    BY <1>3

LEMMA StretchFacts ==
  ASSUME NEW text \in Seq(Int), NEW i \in 0 .. Len(text), NEW j \in i .. Len(text)
  PROVE  /\ Len(SubSeq(text, i + 1, j)) = j - i /\ j - i \in Nat
         /\ SubSeq(text, i + 1, j) \in Seq(Int)
         /\ \A k \in 1 .. j - i : SubSeq(text, i + 1, j)[k] = text[i + k]
  <1>1. Len(SubSeq(text, i + 1, j)) = j - i /\ j - i \in Nat
    OBVIOUS
  <1>2. SubSeq(text, i + 1, j) \in Seq(Int)
    OBVIOUS
  <1>3. ASSUME NEW k \in 1 .. j - i PROVE SubSeq(text, i + 1, j)[k] = text[i + k]
    <2>1. k + (i + 1) - 1 = i + k /\ (i + 1) + k - 1 = i + k /\ k \in 1 .. j - (i + 1) + 1
      OBVIOUS
    <2>. QED
      BY <2>1
  <1>. QED
    BY <1>1, <1>2, <1>3

LEMMA RunOfStretches ==
  ASSUME NEW d, NEW text \in Seq(Int), NEW i \in 0 .. Len(text)
  PROVE  /\ RunFrom(d, SubSeq(text, i + 1, i)) = {d.start}
         /\ \A j \in i .. Len(text) - 1 :
              RunFrom(d, SubSeq(text, i + 1, j + 1))
                = Successors(d, RunFrom(d, SubSeq(text, i + 1, j)), text[j + 1])
  <1> DEFINE P(j) == SubSeq(text, i + 1, j)
  <1>1. \A j \in i .. Len(text) :
          Len(P(j)) = j - i /\ \A k \in 1 .. j - i : P(j)[k] = text[i + k]
    BY StretchFacts
  <1>2. i \in Nat /\ i \in i .. Len(text) /\ i - i = 0
    OBVIOUS
  <1>. HIDE DEF P
  <1>3. RunFrom(d, P(i)) = {d.start}
    <2>1. Len(P(i)) = 0
      BY <1>1, <1>2
    <2>2. Runs(d, P(i))[0] = {d.start}
      BY RunsDef
    <2>. QED
      BY <2>1, <2>2 DEF RunFrom
  <1>4. ASSUME NEW j \in i .. Len(text) - 1
        PROVE  RunFrom(d, P(j + 1)) = Successors(d, RunFrom(d, P(j)), text[j + 1])
    <2> DEFINE n == j - i
               long == P(j + 1)
               short == P(j)
    <2>1. /\ j \in i .. Len(text) /\ j + 1 \in i .. Len(text)
          /\ n \in Nat /\ (j + 1) - i = n + 1 /\ i + (n + 1) = j + 1
          /\ n + 1 \in Nat /\ n + 1 # 0 /\ (n + 1) - 1 = n /\ n \in 0 .. n /\ n + 1 \in 1 .. n + 1
          /\ \A k \in 1 .. n : k \in 1 .. n + 1
      BY <1>2
    <2>2. /\ Len(long) = n + 1 /\ Len(short) = n
          /\ \A k \in 1 .. n : long[k] = short[k]
          /\ long[n + 1] = text[j + 1]
      <3>1. Len(long) = (j + 1) - i /\ \A k \in 1 .. (j + 1) - i : long[k] = text[i + k]
        BY <1>1, <2>1
      <3>2. Len(short) = j - i /\ \A k \in 1 .. j - i : short[k] = text[i + k]
        BY <1>1, <2>1
      <3>. HIDE DEF long, short
      <3>3. Len(long) = n + 1 /\ \A k \in 1 .. n + 1 : long[k] = text[i + k]
        BY <2>1, <3>1
      <3>4. Len(short) = n /\ \A k \in 1 .. n : short[k] = text[i + k]
        BY <3>2
      <3>. HIDE DEF n
      <3>. QED
        BY <2>1, <3>3, <3>4
    <2>. HIDE DEF long, short, n
    <2>3. Runs(d, long)[n + 1] = Successors(d, Runs(d, long)[n], long[n + 1])
      BY <2>1, RunsDef
    <2>4. \A k \in 0 .. n : Runs(d, long)[k] = Runs(d, short)[k]
      <3>1. n \in Nat /\ \A k \in 1 .. n : long[k] = short[k]
        BY <2>1, <2>2
      <3>. QED
        BY ONLY <3>1, RunsAgree
    <2>5. Runs(d, long)[n] = Runs(d, short)[n]
      BY <2>1, <2>4
    <2>6. RunFrom(d, long) = Successors(d, RunFrom(d, short), text[j + 1])
      BY <2>2, <2>3, <2>5 DEF RunFrom
    <2>. QED
      BY <2>6 DEF long, short
  <1>. QED
    BY <1>3, <1>4 DEF P

LEMMA RunOfPrefixes ==
  ASSUME NEW d, NEW text \in Seq(Int)
  PROVE  /\ RunFrom(d, SubSeq(text, 1, 0)) = {d.start}
         /\ \A j \in 0 .. Len(text) - 1 :
              RunFrom(d, SubSeq(text, 1, j + 1))
                = Successors(d, RunFrom(d, SubSeq(text, 1, j)), text[j + 1])
  <1>1. PICK i \in 0 .. Len(text) : i = 0
    OBVIOUS
  <1>2. /\ RunFrom(d, SubSeq(text, i + 1, i)) = {d.start}
        /\ \A j \in i .. Len(text) - 1 :
             RunFrom(d, SubSeq(text, i + 1, j + 1))
               = Successors(d, RunFrom(d, SubSeq(text, i + 1, j)), text[j + 1])
    BY ONLY RunOfStretches
  <1>3. i + 1 = 1
    BY <1>1
  <1>. QED
    BY ONLY <1>1, <1>2, <1>3

LEMMA RunsAreVisited ==
  ASSUME NEW d \in Automaton, NEW word, NEW n \in Nat
  PROVE  Runs(d, word)[n] \subseteq ToSet(BreadthFirst(d))
  <1> DEFINE order == BreadthFirst(d)
             Good == {k \in Nat : Runs(d, word)[k] \subseteq ToSet(order)}
  <1>1. /\ order \in Seq(Int) /\ Len(order) >= 1 /\ order[1] = d.start
        /\ \A s \in ToSet(order) : \A e \in Leaving(d, s) : e[3] \in ToSet(order)
    BY BreadthFirstFacts
  <1>. HIDE DEF order
  <1>2. 0 \in Good
    <2>1. d.start \in ToSet(order)
      <3>1. 1 \in DOMAIN order
        BY <1>1
      <3>. QED
        BY <1>1, <3>1 DEF ToSet
    <2>2. Runs(d, word)[0] = {d.start}
      BY RunsDef
    <2>. QED
      BY <2>1, <2>2
  <1>3. ASSUME NEW k \in Nat, k \in Good PROVE k + 1 \in Good
    <2>1. k + 1 \in Nat /\ k + 1 # 0 /\ (k + 1) - 1 = k
      OBVIOUS
    <2>2. Runs(d, word)[k + 1] = Successors(d, Runs(d, word)[k], word[k + 1])
      BY <2>1, RunsDef
    <2>3. Successors(d, Runs(d, word)[k], word[k + 1]) \subseteq ToSet(order)
      <3>1. ASSUME NEW e \in d.edges, e[1] \in Runs(d, word)[k] PROVE e[3] \in ToSet(order)
        <4>1. e \in Leaving(d, e[1]) /\ e[1] \in ToSet(order)
          BY <1>3, <3>1 DEF Leaving
        <4>. QED
          BY <1>1, <4>1
      <3>. QED
        BY <3>1 DEF Successors
    <2>. QED
      BY <2>1, <2>2, <2>3
  <1>4. Nat \subseteq Good
    <2>. HIDE DEF Good
    <2>. QED
      BY <1>2, <1>3, NatInduct
  <1>. QED
    BY <1>4 DEF order

\* The nodes of a graph from some node on are the states of the automaton,
\* whose numbers follow on some number.
SameEdges(edges, d, k, number) ==
  \A s \in 1 .. Len(BreadthFirst(d)) : \A b :
    (number + s \in DOMAIN edges /\ b \in edges[number + s])
      <=> \E e \in Leaving(d, BreadthFirst(d)[k]) : b \in e[2] /\ e[3] = BreadthFirst(d)[s]

SameGraph(g, d, position, number) ==
  \A k \in 1 .. Len(BreadthFirst(d)) :
    /\ g[position + k].accept <=> BreadthFirst(d)[k] \in d.eoi
    /\ SameEdges(g[position + k].edges, d, k, number)

LEMMA ConvertedIsSame ==
  ASSUME NEW d \in Automaton
  PROVE  /\ Len(ConvertDfaToGraph(d)) = Len(BreadthFirst(d))
         /\ SameGraph(ConvertDfaToGraph(d), d, 0, -1)
  <1> DEFINE order == BreadthFirst(d)
             n == Len(order)
             At(s) == CHOOSE k \in DOMAIN order : order[k] = s
             number == [s \in ToSet(order) |-> At(s) - 1]
             g == [k \in DOMAIN order |->
                     Node(k - 1, order[k] \in AcceptStates(d), ProcessStateEdges(d, order[k], number))]
  <1>1. /\ order \in Seq(Int) /\ n >= 1
        /\ \A s \in ToSet(order) : \A e \in Leaving(d, s) : e[3] \in ToSet(order)
        /\ \A j, k \in 1 .. n : order[j] = order[k] => j = k
    BY BreadthFirstFacts
  <1>2. ConvertDfaToGraph(d) = g
    BY DEF ConvertDfaToGraph
  <1>. HIDE DEF order
  <1>3. n \in Nat /\ n >= 1 /\ DOMAIN order = 1 .. n
    BY <1>1
  <1>4. \A s \in ToSet(order) : At(s) \in 1 .. n /\ order[At(s)] = s
    BY <1>3 DEF ToSet
  <1>. HIDE DEF At, n
  <1>5. \A x \in ToSet(order) : \A s \in 1 .. n : number[x] = -1 + s <=> x = order[s]
    <2>1. SUFFICES ASSUME NEW x \in ToSet(order), NEW s \in 1 .. n
                   PROVE  At(x) - 1 = -1 + s <=> x = order[s]
      OBVIOUS
    <2>2. At(x) - 1 = -1 + s <=> At(x) = s
      BY <1>3, <1>4
    <2>3. At(x) = s <=> x = order[s]
      BY <1>1, <1>4
    <2>. QED
      BY <2>2, <2>3
  <1>. HIDE DEF number
  <1>6. /\ g = [k \in 1 .. n |-> g[k]]
        /\ \A k \in 1 .. n : g[k] = Node(k - 1, order[k] \in AcceptStates(d),
                                         ProcessStateEdges(d, order[k], number))
    BY <1>3
  <1>. HIDE DEF g
  <1>7. Len(g) = n
    BY <1>3, <1>6, Listed
  <1>8. ASSUME NEW k \in 1 .. n
        PROVE  /\ g[k].accept <=> order[k] \in d.eoi
               /\ g[k].edges = ProcessStateEdges(d, order[k], number)
    <2>1. /\ g[k].accept = (order[k] \in AcceptStates(d))
          /\ g[k].edges = ProcessStateEdges(d, order[k], number)
      BY <1>6 DEF Node
    <2>. QED
      BY <2>1 DEF AcceptStates
  <1>9. ASSUME NEW k \in 1 .. n, NEW s \in 1 .. n, NEW b
        PROVE  (-1 + s \in DOMAIN g[k].edges /\ b \in g[k].edges[-1 + s])
                 <=> \E e \in Leaving(d, order[k]) : b \in e[2] /\ e[3] = order[s]
    <2> DEFINE L == Leaving(d, order[k])
               K == {number[e[3]] : e \in L}
               To(i) == UNION {e[2] : e \in {x \in L : number[x[3]] = i}}
               edges == g[k].edges
    <2>1. edges = [i \in K |-> To(i)]
      BY <1>8 DEF ProcessStateEdges
    <2>2. order[k] \in ToSet(order)
      BY <1>3 DEF ToSet
    <2>3. \A e \in L : e[3] \in ToSet(order)
      BY <1>1, <2>2
    <2>4. \A e \in L : number[e[3]] = -1 + s <=> e[3] = order[s]
      BY <1>5, <2>3
    <2>. HIDE DEF L, edges
    <2>5. ASSUME -1 + s \in K, b \in To(-1 + s)
          PROVE  \E e \in L : b \in e[2] /\ e[3] = order[s]
      BY <2>4, <2>5
    <2>6. ASSUME NEW e \in L, b \in e[2], e[3] = order[s]
          PROVE  -1 + s \in K /\ b \in To(-1 + s)
      <3>1. number[e[3]] = -1 + s
        BY <2>4, <2>6
      <3>. QED
        BY <2>6, <3>1
    <2>7. -1 + s \in DOMAIN edges <=> -1 + s \in K
      BY <2>1
    <2>8. -1 + s \in K => edges[-1 + s] = To(-1 + s)
      BY <2>1
    <2>. HIDE DEF K, To
    <2>9. (-1 + s \in DOMAIN edges /\ b \in edges[-1 + s]) <=> \E e \in L : b \in e[2] /\ e[3] = order[s]
      BY <2>5, <2>6, <2>7, <2>8
    <2>. QED
      BY <2>9 DEF L, edges
  <1>10. ASSUME NEW k \in 1 .. n
         PROVE  /\ g[0 + k].accept <=> order[k] \in d.eoi
                /\ SameEdges(g[0 + k].edges, d, k, -1)
    <2>1. 0 + k = k
      BY <1>3
    <2>2. SameEdges(g[k].edges, d, k, -1)
      BY <1>9 DEF SameEdges, order, n
    <2>. QED
      BY <1>8, <2>1, <2>2
  <1>. QED
    BY <1>2, <1>7, <1>10 DEF SameGraph, order, n

LEMMA RenamedIsSame ==
  ASSUME NEW d \in Automaton, NEW g, GoodGraph(g, 0), Len(g) = Len(BreadthFirst(d)),
         SameGraph(g, d, 0, -1), NEW base \in Nat
  PROVE  /\ Len(RenameStates(g, base)) = Len(g)
         /\ SameGraph(RenameStates(g, base), d, 0, base - 1)
  <1> DEFINE n == Len(g)
             Edges(old) == [j \in {base + i : i \in DOMAIN old} |-> old[j - base]]
             h == RenameStates(g, base)
  <1>1. /\ n \in Nat /\ n >= 1 /\ DOMAIN g = 1 .. n
        /\ \A k \in 1 .. n : GoodEdges(g[k].edges, 0, 0 + n - 1)
    BY GraphFacts
  <1>2. /\ h = [k \in 1 .. n |-> h[k]]
        /\ \A k \in 1 .. n : h[k] = Node(base + k - 1, g[k].accept, Edges(g[k].edges))
    <2>1. h = [k \in 1 .. n |-> Node(base + k - 1, g[k].accept, Edges(g[k].edges))]
      BY <1>1 DEF RenameStates
    <2>. HIDE DEF h, Edges
    <2>. QED
      BY <2>1
  <1>. HIDE DEF h
  <1>3. Len(h) = n
    <2>. HIDE DEF n
    <2>. QED
      BY <1>1, <1>2, Listed
  <1>4. ASSUME NEW k \in 1 .. n
        PROVE  /\ h[0 + k].accept <=> BreadthFirst(d)[k] \in d.eoi
               /\ SameEdges(h[0 + k].edges, d, k, base - 1)
    <2> DEFINE old == g[k].edges
               new == Edges(old)
    <2>0. 0 + k = k
      BY <1>1
    <2>1. h[k].accept = g[k].accept /\ h[k].edges = new
      <3>1. h[k] = Node(base + k - 1, g[k].accept, new)
        <4>. HIDE DEF Edges
        <4>. QED
          BY <1>2
      <3>. HIDE DEF new
      <3>. QED
        BY <3>1 DEF Node
    <2>2. /\ g[k].accept <=> BreadthFirst(d)[k] \in d.eoi
          /\ SameEdges(old, d, k, -1)
      BY <2>0 DEF SameGraph
    <2>3. \A i \in DOMAIN old : i \in Int
      <3>1. \A i \in 0 .. 0 + n - 1 : i \in Int
        BY <1>1
      <3>. QED
        BY <1>1, <3>1 DEF GoodEdges
    <2>4. ASSUME NEW s \in 1 .. n
          PROVE  /\ base - 1 + s \in DOMAIN new <=> -1 + s \in DOMAIN old
                 /\ base - 1 + s \in DOMAIN new => new[base - 1 + s] = old[-1 + s]
      <3> DEFINE J == {base + i : i \in DOMAIN old}
      <3>1. DOMAIN new = J /\ \A j \in J : new[j] = old[j - base]
        OBVIOUS
      <3>2. (base - 1 + s) - base = -1 + s /\ base + (-1 + s) = base - 1 + s
        BY <1>1
      <3>. HIDE DEF old, new
      <3>3. base - 1 + s \in J <=> -1 + s \in DOMAIN old
        <4>1. ASSUME base - 1 + s \in J PROVE -1 + s \in DOMAIN old
          <5>1. PICK i \in DOMAIN old : base - 1 + s = base + i
            BY <4>1
          <5>2. i \in Int /\ -1 + s = i
            BY <2>3, <5>1
          <5>. QED
            BY <5>2
        <4>2. ASSUME -1 + s \in DOMAIN old PROVE base - 1 + s \in J
          BY <3>2, <4>2
        <4>. QED
          BY <4>1, <4>2
      <3>. HIDE DEF J
      <3>. QED
        BY <3>1, <3>2, <3>3
    <2>. HIDE DEF old, new
    <2>5. SameEdges(new, d, k, base - 1)
      <3>1. SUFFICES ASSUME NEW s \in 1 .. n, NEW b
                     PROVE  (base - 1 + s \in DOMAIN new /\ b \in new[base - 1 + s])
                              <=> \E e \in Leaving(d, BreadthFirst(d)[k]) :
                                    b \in e[2] /\ e[3] = BreadthFirst(d)[s]
        BY DEF SameEdges
      <3>2. (-1 + s \in DOMAIN old /\ b \in old[-1 + s])
              <=> \E e \in Leaving(d, BreadthFirst(d)[k]) : b \in e[2] /\ e[3] = BreadthFirst(d)[s]
        BY <2>2 DEF SameEdges
      <3>. QED
        BY <2>4, <3>2
    <2>. QED
      BY <2>0, <2>1, <2>2, <2>5
  <1>. QED
    BY <1>3, <1>4 DEF SameGraph, h

StartOnly(node) ==
  ~ node.accept /\ DOMAIN node.edges = {1} /\ node.edges[1] = {StartByte}

\* The graph of a caret alone, and that of a caret before an automaton.
CaretNet(g) ==
  /\ GoodGraph(g, 0) /\ Len(g) = 2
  /\ StartOnly(g[1])
  /\ g[2].accept /\ DOMAIN g[2].edges = {}

AnchoredNet(g, d) ==
  /\ GoodGraph(g, 0) /\ Len(g) = Len(BreadthFirst(d)) + 1
  /\ StartOnly(g[1])
  /\ SameGraph(g, d, 1, 0)

LEMMA CaretIsRenamed == CaretNet(RenameStates(CaretGraph, 0))
  <1> DEFINE first == Node(0, FALSE, [k \in {1} |-> {StartByte}])
             second == Node(1, TRUE, NoEdges)
             Edges(old) == [j \in {0 + i : i \in DOMAIN old} |-> old[j - 0]]
             h == RenameStates(CaretGraph, 0)
  <1>1. CaretGraph = <<first, second>>
    BY DEF CaretGraph
  <1>2. DOMAIN CaretGraph = 1 .. 2 /\ CaretGraph[1] = first /\ CaretGraph[2] = second
    <2>. HIDE DEF first, second
    <2>. QED
      BY <1>1
  <1>3. h = [k \in 1 .. 2 |-> Node(0 + k - 1, CaretGraph[k].accept, Edges(CaretGraph[k].edges))]
    BY <1>2 DEF RenameStates
  <1>4. /\ first.accept = FALSE /\ first.edges = [k \in {1} |-> {StartByte}]
        /\ second.accept = TRUE /\ second.edges = NoEdges
    BY DEF Node
  <1>. HIDE DEF Edges, h, first, second
  <1>5. /\ h[1].accept = FALSE /\ h[1].edges = Edges(first.edges)
        /\ h[2].accept = TRUE /\ h[2].edges = Edges(second.edges)
    BY <1>2, <1>3, <1>4 DEF Node
  <1>6. /\ DOMAIN Edges(first.edges) = {1} /\ Edges(first.edges)[1] = {StartByte}
    <2> DEFINE old == first.edges
    <2>1. DOMAIN old = {1} /\ old[1] = {StartByte}
      BY <1>4
    <2>. HIDE DEF old
    <2>2. {0 + i : i \in DOMAIN old} = {1}
      BY <2>1
    <2>3. Edges(old) = [j \in {1} |-> old[j - 0]]
      BY <2>2 DEF Edges
    <2>4. 1 - 0 = 1
      OBVIOUS
    <2>5. DOMAIN Edges(old) = {1} /\ Edges(old)[1] = {StartByte}
      BY <2>1, <2>3, <2>4
    <2>. QED
      BY <2>5 DEF old
  <1>7. DOMAIN Edges(second.edges) = {}
    <2>1. DOMAIN second.edges = {}
      BY <1>4 DEF NoEdges
    <2>. QED
      BY <2>1 DEF Edges
  <1>8. GoodGraph(h, 0) /\ Len(h) = 2
    <2>1. GoodGraph(h, 0)
      BY CaretIsGood, RenamedIsGood DEF h
    <2>2. h = [k \in 1 .. 2 |-> h[k]]
      BY <1>3
    <2>3. Len(h) = 2
      BY <2>2, Listed
    <2>. QED
      BY <2>1, <2>3
  <1>9. CaretNet(h)
    BY <1>5, <1>6, <1>7, <1>8 DEF CaretNet, StartOnly
  <1>. QED
    BY <1>9 DEF h

LEMMA JoinedIsAnchored ==
  ASSUME NEW d \in Automaton, NEW caret, CaretNet(caret),
         NEW g, GoodGraph(g, MaxStateIndex(caret)), Len(g) = Len(BreadthFirst(d)),
         SameGraph(g, d, 0, 0)
  PROVE  AnchoredNet(AddDfa(caret, g), d)
  <1> DEFINE m == Len(g)
             Old(k) == IF caret[k].accept THEN ProcessAcceptState(caret[k], g[1]) ELSE caret[k]
             front == [k \in DOMAIN caret |-> Old(k)]
             back == Tail(g)
             all == AddDfa(caret, g)
  <1>0. GoodGraph(caret, 0) /\ GoodGraph(all, 0)
    BY AddedIsGood DEF CaretNet
  <1>1. /\ DOMAIN caret = 1 .. 2 /\ StartOnly(caret[1])
        /\ caret[2].accept /\ DOMAIN caret[2].edges = {}
    BY <1>0, GraphFacts DEF CaretNet
  <1>2. m \in Nat /\ m >= 1 /\ DOMAIN g = 1 .. m /\ IsSequence(g)
    <2>1. MaxStateIndex(caret) = 1
      <3>1. MaxStateIndex(caret) = Len(caret) - 1
        BY <1>0, LastIndex
      <3>. QED
        BY <3>1 DEF CaretNet
    <2>. QED
      BY <2>1, GraphFacts DEF GoodGraph
  <1>3. all = front \o back
    <2>1. caret # <<>>
      <3>1. 1 \in DOMAIN caret
        BY <1>1
      <3>. QED
        BY <3>1
    <2>. QED
      BY <2>1 DEF AddDfa
  <1>. HIDE DEF all
  <1>4. /\ front = [k \in 1 .. 2 |-> front[k]]
        /\ front[1] = caret[1]
        /\ front[2] = ProcessAcceptState(caret[2], g[1])
    BY <1>1 DEF StartOnly
  <1>. HIDE DEF front
  <1> DEFINE S == ToSet(front) \cup ToSet(g)
  <1>5. front \in Seq(S) /\ Len(front) = 2
    <2>1. DOMAIN front = 1 .. 2
      BY <1>4
    <2>2. \A k \in 1 .. 2 : front[k] \in S
      BY <2>1 DEF ToSet
    <2>. HIDE DEF S
    <2>. QED
      BY <1>4, <2>1, <2>2
  <1>6. g \in Seq(S)
    <2>1. \A k \in 1 .. m : g[k] \in S
      BY <1>2 DEF ToSet
    <2>2. g = [k \in 1 .. m |-> g[k]]
      BY <1>2, SequenceFacts
    <2>. HIDE DEF S, m
    <2>. QED
      BY <1>2, <2>1, <2>2
  <1>. HIDE DEF S
  <1>7. back \in Seq(S) /\ Len(back) = m - 1 /\ \A k \in 1 .. m - 1 : back[k] = g[k + 1]
    BY <1>2, <1>6
  <1>. HIDE DEF back
  <1>8. /\ Len(all) = m + 1
        /\ \A k \in 1 .. m + 1 : all[k] = IF k <= 2 THEN front[k] ELSE back[k - 2]
    <2>1. /\ Len(front \o back) = Len(front) + Len(back)
          /\ \A k \in 1 .. Len(front) + Len(back) :
               (front \o back)[k] = IF k <= Len(front) THEN front[k] ELSE back[k - Len(front)]
      BY ONLY <1>5, <1>7, Concatenated
    <2>2. Len(front) + Len(back) = m + 1 /\ Len(front) = 2
      BY <1>2, <1>5, <1>7
    <2>. QED
      BY <1>3, <2>1, <2>2
  <1>9. StartOnly(all[1])
    <2>1. 1 \in 1 .. m + 1
      BY <1>2
    <2>2. all[1] = caret[1]
      BY <1>4, <1>8, <2>1
    <2>. QED
      BY <1>1, <2>2
  <1>10. ASSUME NEW k \in 1 .. m
         PROVE  /\ all[1 + k].accept <=> BreadthFirst(d)[k] \in d.eoi
                /\ SameEdges(all[1 + k].edges, d, k, 0)
    <2>0. 0 + k = k /\ 1 + k \in 1 .. m + 1
      BY <1>2
    <2>1. /\ g[k].accept <=> BreadthFirst(d)[k] \in d.eoi
          /\ SameEdges(g[k].edges, d, k, 0)
      BY <2>0 DEF SameGraph
    <2>2. CASE k = 1
      <3>0. 1 + k = 2 /\ 2 \in 1 .. m + 1
        BY <2>0, <2>2
      <3>1. all[1 + k] = ProcessAcceptState(caret[2], g[1])
        <4>1. all[2] = front[2]
          <5>. HIDE DEF m
          <5>. QED
            BY <1>8, <3>0
        <4>. QED
          BY <1>4, <3>0, <4>1
      <3> DEFINE merged == MergeEdges(caret[2].edges, g[1].edges)
      <3>2. all[1 + k].accept = g[k].accept /\ all[1 + k].edges = merged
        BY <2>2, <3>1 DEF ProcessAcceptState, Node
      <3>3. DOMAIN merged = DOMAIN g[k].edges /\ \A t \in DOMAIN merged : merged[t] = g[k].edges[t]
        BY <1>1, <2>2 DEF MergeEdges
      <3>. HIDE DEF merged
      <3>4. SameEdges(merged, d, k, 0)
        BY <2>1, <3>3 DEF SameEdges
      <3>. QED
        BY <2>1, <3>2, <3>4
    <2>3. CASE k # 1
      <3>1. k - 1 \in 1 .. m - 1 /\ (k - 1) + 1 = k /\ (1 + k) - 2 = k - 1 /\ ~ (1 + k <= 2)
        BY <1>2, <2>3
      <3>2. all[1 + k] = g[k]
        BY <1>7, <1>8, <2>0, <3>1
      <3>. QED
        BY <2>1, <3>2
    <2>. QED
      BY <2>2, <2>3
  <1>11. AnchoredNet(all, d)
    BY <1>0, <1>8, <1>9, <1>10 DEF AnchoredNet, SameGraph, all
  <1>. QED
    BY <1>11 DEF all

\* The checks of a transition accept each of its bytes but the padding.
LEMMA ReadIsMatched ==
  ASSUME NEW bytes \in SUBSET (0 .. StartByte), NEW b \in bytes, b # 0
  PROVE  BytesMatch(bytes, b)
  <1> DEFINE readable == Readable(bytes)
             checks == OptimizeCharRanges(readable, MinSpan)
  <1>1. b \in readable
    BY DEF Readable
  <1>2. b \in Int
    BY DEF StartByte
  <1>3. CASE \E r \in checks.ranges : b \in r[1] .. r[2]
    <2>1. PICK r \in checks.ranges : b \in r[1] .. r[2]
      BY <1>3
    <2>2. r[1] \in Int /\ r[2] \in Int
      <3>1. r \in readable \X readable
        BY <2>1 DEF OptimizeCharRanges
      <3>2. readable \subseteq bytes /\ \A x \in bytes : x \in Int
        BY DEF Readable, StartByte
      <3>. HIDE DEF readable
      <3>. QED
        BY <3>1, <3>2
    <2>3. r[1] <= b /\ b <= r[2]
      BY <1>2, <2>1, <2>2
    <2>. QED
      BY <2>1, <2>3 DEF BytesMatch
  <1>4. CASE ~ \E r \in checks.ranges : b \in r[1] .. r[2]
    <2>1. b \in checks.vals
      BY <1>1, <1>4 DEF OptimizeCharRanges
    <2>. QED
      BY <2>1 DEF BytesMatch
  <1>. QED
    BY <1>3, <1>4

LEMMA MatchedExactly ==
  ASSUME NEW bytes \in SUBSET (0 .. StartByte), NEW b \in Int
  PROVE  BytesMatch(bytes, b) <=> b \in bytes /\ b # 0
  <1>1. ASSUME BytesMatch(bytes, b) PROVE b \in Readable(bytes)
    <2>1. Readable(Readable(bytes)) = Readable(bytes)
      BY DEF Readable
    <2>2. BytesMatch(Readable(bytes), b)
      BY <1>1, <2>1 DEF BytesMatch
    <2>3. Readable(bytes) \in SUBSET (0 .. StartByte)
      BY DEF Readable
    <2>. QED
      BY <2>2, <2>3, MatchedIsRead
  <1>. QED
    BY <1>1, ReadIsMatched DEF Readable

\* The circuit reads the start byte, and then the message.
LEMMA InputBytes ==
  ASSUME msg \in Message, InRange(msg)
  PROVE  /\ msg \in Seq(Int) /\ Len(msg) = MsgBytes /\ MsgBytes \in Nat
         /\ In \in Seq(Int) /\ Len(In) = MsgBytes + 1
         /\ In[1] = StartByte
         /\ \A j \in 1 .. MsgBytes : In[j + 1] = msg[j] /\ msg[j] \in Int /\ msg[j] < StartByte
  <1>1. MsgBytes \in Nat
    BY MsgBytesAssumption
  <1>2. msg \in [1 .. MsgBytes -> Int]
    <2>1. \A k \in Byte : k \in Int
      BY ByteAssumption
    <2>. QED
      BY <2>1 DEF Message
  <1>3. msg \in Seq(Int) /\ Len(msg) = MsgBytes
    BY <1>1, <1>2
  <1>4. <<StartByte>> \in Seq(Int) /\ Len(<<StartByte>>) = 1 /\ <<StartByte>>[1] = StartByte
    BY DEF StartByte
  <1> DEFINE begin == <<StartByte>>
  <1>5. begin \in Seq(Int) /\ Len(begin) = 1 /\ begin[1] = StartByte /\ In = begin \o msg
    BY <1>4 DEF In
  <1>. HIDE DEF begin
  <1>6. /\ In \in Seq(Int) /\ Len(In) = 1 + MsgBytes
        /\ \A k \in 1 .. 1 + MsgBytes : In[k] = IF k <= 1 THEN begin[k] ELSE msg[k - 1]
    <2>1. /\ begin \o msg \in Seq(Int) /\ Len(begin \o msg) = Len(begin) + Len(msg)
          /\ \A k \in 1 .. Len(begin) + Len(msg) :
               (begin \o msg)[k] = IF k <= Len(begin) THEN begin[k] ELSE msg[k - Len(begin)]
      BY ONLY <1>3, <1>5, Concatenated
    <2>. QED
      BY <1>3, <1>5, <2>1
  <1>7. In[1] = StartByte
    BY <1>1, <1>5, <1>6
  <1>8. ASSUME NEW j \in 1 .. MsgBytes
        PROVE  In[j + 1] = msg[j] /\ msg[j] \in Int /\ msg[j] < StartByte
    <2>1. j + 1 \in 1 .. 1 + MsgBytes /\ ~ (j + 1 <= 1) /\ (j + 1) - 1 = j
      BY <1>1
    <2>2. In[j + 1] = msg[j]
      BY <1>6, <2>1
    <2>3. j \in DOMAIN msg
      BY <1>2
    <2>. QED
      BY <1>2, <2>2, <2>3 DEF InRange
  <1>. QED
    BY <1>1, <1>3, <1>6, <1>7, <1>8

-----------------------------------------------------------------------------
Anchored == Len(config) = 1 /\ config[1].caret = "bare" /\ config[1].dollar

\* The nodes of the automaton that are on after j bytes.
Reached(d, j) ==
  {s \in 1 .. Len(BreadthFirst(d)) :
     /\ \A i \in 1 .. j : msg[i] # 0
     /\ BreadthFirst(d)[s] \in RunFrom(d, SubSeq(msg, 1, j))}

\* The caret and the automaton are parts of their own.
IsSplit ==
  /\ Len(parts) = 2
  /\ parts[1].caret = "bare" /\ ~ parts[1].dollar
  /\ parts[2].caret = "none" /\ parts[2].dollar /\ parts[2].dfa = config[1].dfa

\* What is compiled after each part.
IsCompiled ==
  \/ next = 1 /\ net = <<>>
  \/ next = 2 /\ CaretNet(net)
  \/ next = 3 /\ AnchoredNet(net, config[1].dfa)

RowsAreRuns ==
  /\ Len(rows) <= NumBytes + 1
  /\ rows[1] = {}
  /\ \A j \in 0 .. Len(rows) - 2 : rows[j + 2] = Reached(config[1].dfa, j)

IsWord == \E n \in 0 .. MsgBytes - 1 : IsText(n) /\ Accepts(config[1].dfa, Text(n))

\* While an anchored regex is compiled and its circuit evaluated.
AnchoredInv ==
  /\ stage = "caret" => parts = config /\ next = 1 /\ net = <<>>
  /\ stage \in {"caret", "parts"} => rows = <<{}>>
  /\ Anchored =>
       /\ stage \in {"parts", "bytes"} => IsSplit
       /\ stage = "parts" => IsCompiled
       /\ stage = "bytes" =>
            AnchoredNet(net, config[1].dfa) /\ InRange(msg) /\ RowsAreRuns
       /\ stage = "finished" => (out = 1 <=> IsWord)

-----------------------------------------------------------------------------
\* The edges out of a node, seen from where they lead.
LEMMA EdgesInto ==
  ASSUME GoodGraph(net, 0), NEW b \in Int, NEW k \in 1 .. Len(net), NEW s
  PROVE  (\E e \in Into(s) : e[1] = k - 1 /\ BytesMatch(e[2], b))
           <=> s \in DOMAIN net[k].edges /\ b \in net[k].edges[s] /\ b # 0
  <1> DEFINE edges == net[k].edges
  <1>1. /\ DOMAIN net = 1 .. Len(net)
        /\ \A t \in DOMAIN edges : edges[t] \in SUBSET (0 .. StartByte)
    BY GraphFacts DEF GoodEdges
  <1>2. \A t \in DOMAIN edges : BytesMatch(edges[t], b) <=> b \in edges[t] /\ b # 0
    BY <1>1, MatchedExactly
  <1>3. ASSUME NEW e \in Into(s), e[1] = k - 1, BytesMatch(e[2], b)
        PROVE  s \in DOMAIN edges /\ b \in edges[s] /\ b # 0
    <2>1. PICK j \in DOMAIN net : s \in DOMAIN net[j].edges /\ e = <<j - 1, net[j].edges[s]>>
      BY DEF Into
    <2>2. j = k
      <3>1. j \in Int /\ k \in Int /\ j - 1 = k - 1
        BY <1>1, <1>3, <2>1
      <3>. QED
        BY ONLY <3>1
    <2>3. s \in DOMAIN edges /\ BytesMatch(edges[s], b)
      BY <1>3, <2>1, <2>2
    <2>. HIDE DEF edges
    <2>. QED
      BY <1>2, <2>3
  <1>4. ASSUME s \in DOMAIN edges, b \in edges[s], b # 0
        PROVE  \E e \in Into(s) : e[1] = k - 1 /\ BytesMatch(e[2], b)
    <2> DEFINE e == <<k - 1, edges[s]>>
    <2>1. e \in Into(s)
      BY <1>1, <1>4 DEF Into
    <2>2. e[1] = k - 1 /\ BytesMatch(e[2], b)
      BY <1>2, <1>4
    <2>. HIDE DEF e
    <2>. QED
      BY <2>1, <2>2
  <1>. HIDE DEF edges
  <1>5. (\E e \in Into(s) : e[1] = k - 1 /\ BytesMatch(e[2], b))
          <=> s \in DOMAIN edges /\ b \in edges[s] /\ b # 0
    BY <1>3, <1>4
  <1>. QED
    BY <1>5 DEF edges

\* The transitions of the circuit of an anchored regex: the start byte leads
\* to the start of the automaton, and the other ones are the automaton's.
LEMMA CircuitEdges ==
  ASSUME NEW d \in Automaton, AnchoredNet(net, d), NEW b \in Int
  PROVE  /\ Len(BreadthFirst(d)) \in Nat /\ Len(BreadthFirst(d)) >= 1
         /\ NonZero = 1 .. Len(BreadthFirst(d))
         /\ \A s \in NonZero :
              (\E e \in Into(s) : e[1] = 0 /\ BytesMatch(e[2], b)) <=> s = 1 /\ b = StartByte
         /\ \A s, k \in NonZero :
              (\E e \in Into(s) : e[1] = k /\ BytesMatch(e[2], b))
                <=> /\ b # 0
                    /\ \E f \in Leaving(d, BreadthFirst(d)[k]) :
                         b \in f[2] /\ f[3] = BreadthFirst(d)[s]
  <1> DEFINE order == BreadthFirst(d)
             m == Len(order)
  <1>1. m \in Nat /\ m >= 1
    BY BreadthFirstFacts
  <1>2. /\ GoodGraph(net, 0) /\ Len(net) = m + 1
        /\ StartOnly(net[1]) /\ SameGraph(net, d, 1, 0)
    BY DEF AnchoredNet
  <1>3. /\ DOMAIN net = 1 .. m + 1
        /\ \A k \in 1 .. m + 1 : GoodEdges(net[k].edges, 0, 0 + Len(net) - 1)
    BY <1>2, GraphFacts
  <1>4. NonZero = 1 .. m
    BY <1>1, <1>2 DEF NonZero
  <1>. HIDE DEF m, order
  <1>5. ASSUME NEW k \in 1 .. m + 1, NEW s
        PROVE  (\E e \in Into(s) : e[1] = k - 1 /\ BytesMatch(e[2], b))
                 <=> s \in DOMAIN net[k].edges /\ b \in net[k].edges[s] /\ b # 0
    BY <1>2, <1>3, EdgesInto
  <1>6. ASSUME NEW s \in 1 .. m
        PROVE  (\E e \in Into(s) : e[1] = 0 /\ BytesMatch(e[2], b)) <=> s = 1 /\ b = StartByte
    <2>1. 1 \in 1 .. m + 1 /\ 1 - 1 = 0
      BY <1>1
    <2>2. (\E e \in Into(s) : e[1] = 0 /\ BytesMatch(e[2], b))
            <=> s \in DOMAIN net[1].edges /\ b \in net[1].edges[s] /\ b # 0
      BY <1>5, <2>1
    <2>3. DOMAIN net[1].edges = {1} /\ net[1].edges[1] = {StartByte}
      BY <1>2 DEF StartOnly
    <2>4. StartByte # 0
      BY DEF StartByte
    <2>. QED
      BY <2>2, <2>3, <2>4
  <1>7. ASSUME NEW s \in 1 .. m, NEW k \in 1 .. m
        PROVE  (\E e \in Into(s) : e[1] = k /\ BytesMatch(e[2], b))
                 <=> b # 0 /\ \E f \in Leaving(d, order[k]) : b \in f[2] /\ f[3] = order[s]
    <2>1. 1 + k \in 1 .. m + 1 /\ (1 + k) - 1 = k /\ 0 + s = s
      BY <1>1
    <2>2. (\E e \in Into(s) : e[1] = k /\ BytesMatch(e[2], b))
            <=> s \in DOMAIN net[1 + k].edges /\ b \in net[1 + k].edges[s] /\ b # 0
      BY <1>5, <2>1
    <2>3. SameEdges(net[1 + k].edges, d, k, 0)
      BY <1>2 DEF SameGraph, m, order
    <2>4. (0 + s \in DOMAIN net[1 + k].edges /\ b \in net[1 + k].edges[0 + s])
            <=> \E f \in Leaving(d, order[k]) : b \in f[2] /\ f[3] = order[s]
      BY <2>3 DEF SameEdges, m, order
    <2>. QED
      BY <2>1, <2>2, <2>4
  <1>. QED
    BY <1>1, <1>4, <1>6, <1>7 DEF m, order

\* The accepting states of the circuit are the automaton's.
LEMMA AcceptedStates ==
  ASSUME NEW d \in Automaton, AnchoredNet(net, d), NEW i \in 0 .. NumBytes,
         NumBytes \in Nat, rows[i + 1] \subseteq NonZero
  PROVE  Accepted(i) <=> \E s \in rows[i + 1] : BreadthFirst(d)[s] \in d.eoi
  <1> DEFINE order == BreadthFirst(d)
             m == Len(order)
  <1>1. m \in Nat /\ m >= 1
    BY BreadthFirstFacts
  <1>2. /\ GoodGraph(net, 0) /\ Len(net) = m + 1
        /\ ~ net[1].accept /\ SameGraph(net, d, 1, 0)
    BY DEF AnchoredNet, StartOnly
  <1>3. /\ DOMAIN net = 1 .. m + 1
        /\ \A k \in 1 .. m + 1 : net[k].id = 0 + k - 1
    BY <1>2, GraphFacts
  <1>4. NonZero = 1 .. m
    BY <1>1, <1>2 DEF NonZero
  <1>5. \A k \in 1 .. m : net[1 + k].accept <=> order[k] \in d.eoi
    BY <1>2 DEF SameGraph
  <1>. HIDE DEF m, order
  <1>6. ASSUME Accepted(i) PROVE \E s \in rows[i + 1] : order[s] \in d.eoi
    <2>1. PICK k \in DOMAIN net : net[k].accept /\ net[k].id \in States(i)
      BY <1>6 DEF Accepted, AcceptNodes
    <2>2. k # 1
      BY <1>2, <2>1
    <2>3. k - 1 \in 1 .. m /\ 1 + (k - 1) = k /\ net[k].id = k - 1 /\ k - 1 # 0
      BY <1>1, <1>3, <2>1, <2>2
    <2>4. k - 1 \in rows[i + 1]
      BY <2>1, <2>3 DEF States
    <2>5. order[k - 1] \in d.eoi
      BY <1>5, <2>1, <2>3
    <2>. QED
      BY <2>4, <2>5
  <1>7. ASSUME NEW s \in rows[i + 1], order[s] \in d.eoi PROVE Accepted(i)
    <2>1. s \in 1 .. m
      BY <1>4
    <2>2. 1 + s \in 1 .. m + 1 /\ 0 + (1 + s) - 1 = s
      BY <1>1, <2>1
    <2>3. net[1 + s].accept /\ net[1 + s].id = s
      BY <1>3, <1>5, <1>7, <2>1, <2>2
    <2>4. s \in States(i)
      BY DEF States
    <2>. QED
      BY <1>3, <2>2, <2>3, <2>4 DEF Accepted, AcceptNodes
  <1>. QED
    BY <1>6, <1>7 DEF order

\* Before the first byte of the message the circuit is in the start.
LEMMA FirstReached ==
  ASSUME NEW d \in Automaton, msg \in Message, InRange(msg)
  PROVE  Reached(d, 0) = {1}
  <1> DEFINE order == BreadthFirst(d)
  <1>1. /\ Len(order) \in Nat /\ Len(order) >= 1 /\ order[1] = d.start
        /\ \A j, k \in 1 .. Len(order) : order[j] = order[k] => j = k
    BY BreadthFirstFacts
  <1>2. RunFrom(d, SubSeq(msg, 1, 0)) = {d.start}
    BY InputBytes, RunOfPrefixes
  <1>. HIDE DEF order
  <1>3. 1 \in 1 .. Len(order)
    BY <1>1
  <1>4. \A s \in 1 .. Len(order) : order[s] = d.start <=> s = 1
    BY <1>1, <1>3
  <1>5. Reached(d, 0) = {s \in 1 .. Len(order) : order[s] = d.start}
    <2>1. 1 .. 0 = {}
      OBVIOUS
    <2>. QED
      BY <1>2, <2>1 DEF Reached, order
  <1>. QED
    BY <1>3, <1>4, <1>5

\* With a byte, the circuit goes on to the states that the automaton goes to.
LEMMA NextReached ==
  ASSUME NEW d \in Automaton, AnchoredNet(net, d), msg \in Message, InRange(msg),
         NEW j \in 0 .. MsgBytes - 1, NEW active, active \ {0} = Reached(d, j)
  PROVE  Continued(active, msg[j + 1]) = Reached(d, j + 1)
  <1> DEFINE order == BreadthFirst(d)
             m == Len(order)
             b == msg[j + 1]
             Run(i) == RunFrom(d, SubSeq(msg, 1, i))
             Full(i) == \A k \in 1 .. i : msg[k] # 0
  <1>1. MsgBytes \in Nat /\ msg \in Seq(Int) /\ Len(msg) = MsgBytes /\ b \in Int
    BY InputBytes
  <1>2. Run(j + 1) = Successors(d, Run(j), b)
    BY <1>1, RunOfPrefixes
  <1>3. Run(j) \subseteq ToSet(order)
    <2> DEFINE word == SubSeq(msg, 1, j)
    <2>1. Len(word) \in Nat
      BY <1>1
    <2>. HIDE DEF word
    <2>2. RunFrom(d, word) \subseteq ToSet(order)
      BY <2>1, RunsAreVisited DEF RunFrom
    <2>. QED
      BY <2>2 DEF word
  <1>4. Full(j + 1) <=> Full(j) /\ b # 0
    <2>1. \A k : k \in 1 .. j + 1 <=> k \in 1 .. j \/ k = j + 1
      BY <1>1
    <2>. QED
      BY <2>1
  <1>5. /\ m \in Nat /\ NonZero = 1 .. m
        /\ \A s, k \in 1 .. m :
             (\E e \in Into(s) : e[1] = k /\ BytesMatch(e[2], b))
               <=> b # 0 /\ \E f \in Leaving(d, order[k]) : b \in f[2] /\ f[3] = order[s]
    <2>1. /\ m \in Nat /\ NonZero = 1 .. m
          /\ \A s, k \in NonZero :
               (\E e \in Into(s) : e[1] = k /\ BytesMatch(e[2], b))
                 <=> b # 0 /\ \E f \in Leaving(d, order[k]) : b \in f[2] /\ f[3] = order[s]
      <3>. HIDE DEF b
      <3>. QED
        BY <1>1, CircuitEdges
    <2>. HIDE DEF m, order, b
    <2>. QED
      BY <2>1
  <1>6. \A i : Reached(d, i) = {s \in 1 .. m : Full(i) /\ order[s] \in Run(i)}
    BY DEF Reached
  <1>7. DOMAIN order = 1 .. m
    BY BreadthFirstFacts
  <1>8. Continued(active, b)
          = {s \in 1 .. m : \E e \in Into(s) : e[1] \in active \ {0} /\ BytesMatch(e[2], b)}
    BY <1>5 DEF Continued
  <1>. HIDE DEF order, m, b, Run, Full
  <1>9. \A x \in Run(j) : \E k \in 1 .. m : x = order[k]
    BY <1>3, <1>7 DEF ToSet
  <1>10. ASSUME NEW s \in 1 .. m
         PROVE  (\E e \in Into(s) : e[1] \in active \ {0} /\ BytesMatch(e[2], b))
                  <=> Full(j + 1) /\ order[s] \in Run(j + 1)
    <2>1. ASSUME NEW e \in Into(s), e[1] \in active \ {0}, BytesMatch(e[2], b)
          PROVE  Full(j + 1) /\ order[s] \in Run(j + 1)
      <3>1. PICK k \in 1 .. m : e[1] = k /\ Full(j) /\ order[k] \in Run(j)
        BY <1>6, <2>1
      <3>2. b # 0 /\ \E f \in Leaving(d, order[k]) : b \in f[2] /\ f[3] = order[s]
        BY <1>5, <2>1, <3>1
      <3>3. PICK f \in d.edges : f[1] = order[k] /\ b \in f[2] /\ f[3] = order[s]
        BY <3>2 DEF Leaving
      <3>4. order[s] \in Successors(d, Run(j), b)
        BY <3>1, <3>3 DEF Successors
      <3>. QED
        BY <1>2, <1>4, <3>1, <3>2, <3>4
    <2>2. ASSUME Full(j + 1), order[s] \in Run(j + 1)
          PROVE  \E e \in Into(s) : e[1] \in active \ {0} /\ BytesMatch(e[2], b)
      <3>1. PICK f \in d.edges : f[1] \in Run(j) /\ b \in f[2] /\ f[3] = order[s]
        BY <1>2, <2>2 DEF Successors
      <3>2. PICK k \in 1 .. m : f[1] = order[k]
        BY <1>9, <3>1
      <3>3. k \in active \ {0}
        BY <1>4, <1>6, <2>2, <3>1, <3>2
      <3>4. f \in Leaving(d, order[k])
        BY <3>2 DEF Leaving
      <3>5. \E e \in Into(s) : e[1] = k /\ BytesMatch(e[2], b)
        BY <1>4, <1>5, <2>2, <3>1, <3>4
      <3>. QED
        BY <3>3, <3>5
    <2>. QED
      BY <2>1, <2>2
  <1>11. Continued(active, b) = Reached(d, j + 1)
    BY <1>6, <1>8, <1>10
  <1>. QED
    BY <1>11 DEF b

\* A byte that is read keeps the circuit in the states of the automaton.
LEMMA ReadFollowsRun ==
  ASSUME RegexInv, RowsAreRuns, AnchoredNet(net, config[1].dfa),
         NEW d \in Automaton, d = config[1].dfa, msg \in Message, InRange(msg), ReadByte
  PROVE  /\ Len(rows') = Len(rows) + 1 /\ Len(rows') <= NumBytes + 1
         /\ \A k \in 1 .. Len(rows) : rows'[k] = rows[k]
         /\ rows'[Len(rows) + 1] = Reached(d, Len(rows) - 1)
  <1> DEFINE i == Len(rows) - 1
             b == In[i + 1]
             active == States(i)
             continued == Continued(active, b)
             row == continued \cup IF continued = {} THEN Started(b) ELSE {}
  <1>1. /\ i < NumBytes /\ rows' = Append(rows, row)
    BY DEF ReadByte
  <1>2. rows \in Seq(SUBSET Nat) /\ rows # <<>>
    BY DEF RegexInv
  <1>3. /\ Len(rows) \in Nat /\ Len(rows) >= 1 /\ MsgBytes \in Nat /\ NumBytes = MsgBytes + 1
        /\ i \in Nat /\ i + 1 = Len(rows)
    BY <1>2, MsgBytesAssumption DEF NumBytes
  <1>4. active \ {0} = rows[i + 1] \ {0}
    BY DEF States
  <1>5. ASSUME NEW c \in Int
        PROVE  Started(c) = {s \in NonZero : s = 1 /\ c = StartByte} /\ 1 \in NonZero
    <2>1. \A s \in NonZero :
            (\E e \in Into(s) : e[1] = 0 /\ BytesMatch(e[2], c)) <=> s = 1 /\ c = StartByte
      BY CircuitEdges
    <2>2. 1 \in NonZero
      <3>1. /\ Len(BreadthFirst(d)) \in Nat /\ Len(BreadthFirst(d)) >= 1
            /\ NonZero = 1 .. Len(BreadthFirst(d))
        BY CircuitEdges
      <3>. QED
        BY <3>1
    <2>. QED
      BY <2>1, <2>2 DEF Started
  <1>. HIDE DEF active, continued, row, i, b
  <1>6. CASE i = 0
    <2>1. rows[i + 1] = {}
      BY <1>6 DEF RowsAreRuns
    <2>2. continued = {}
      BY <1>4, <2>1 DEF Continued, continued
    <2>3. b = StartByte
      BY <1>6, InputBytes DEF b
    <2>4. row = {1}
      BY <1>5, <2>2, <2>3 DEF row, StartByte
    <2>5. Reached(d, i) = {1}
      BY <1>6, FirstReached
    <2>6. row = Reached(d, i)
      BY <2>4, <2>5
    <2>. QED
      BY <1>1, <1>2, <1>3, <2>6 DEF i
  <1>7. CASE i # 0
    <2>1. PICK j \in 0 .. MsgBytes - 1 : j = i - 1
      BY <1>1, <1>3, <1>7
    <2>2. j + 1 = i /\ j + 2 = i + 1 /\ j \in 0 .. Len(rows) - 2 /\ j + 1 \in 1 .. MsgBytes
      BY <1>3, <2>1
    <2>3. rows[i + 1] = Reached(d, j)
      BY <2>2 DEF RowsAreRuns
    <2>4. active \ {0} = Reached(d, j)
      BY <1>4, <2>3 DEF Reached
    <2>5. b = msg[j + 1] /\ b \in Int /\ b # StartByte
      <3>1. msg[j + 1] < StartByte /\ msg[j + 1] \in Int /\ In[(j + 1) + 1] = msg[j + 1]
        BY <2>2, InputBytes
      <3>2. b = In[(j + 1) + 1]
        BY <2>2 DEF b
      <3>. QED
        BY <3>1, <3>2 DEF StartByte
    <2>6. continued = Reached(d, j + 1)
      BY <2>4, <2>5, NextReached DEF continued
    <2>7. row = Reached(d, i)
      BY <1>5, <2>2, <2>5, <2>6 DEF row
    <2>. QED
      BY <1>1, <1>2, <1>3, <2>7 DEF i
  <1>. QED
    BY <1>6, <1>7

\* The end of the text, as the circuit counts it.
LEMMA TextEnds ==
  ASSUME msg \in Message, InRange(msg)
  PROVE  /\ TextLength \in 0 .. MsgBytes
         /\ PaddingStart = TextLength + 1
         /\ (\A i \in 1 .. TextLength : msg[i] # 0) => IsText(TextLength)
         /\ \A n \in 0 .. MsgBytes : IsText(n) => n = TextLength
  <1> DEFINE full == {i \in 1 .. MsgBytes : msg[i] # 0}
             c == Cardinality(full)
  <1>1. /\ msg \in Seq(Int) /\ Len(msg) = MsgBytes /\ MsgBytes \in Nat
        /\ In \in Seq(Int) /\ Len(In) = MsgBytes + 1 /\ In[1] = StartByte
        /\ \A j \in 1 .. MsgBytes : In[j + 1] = msg[j]
    BY InputBytes
  <1>2. TextLength = c
    BY <1>1 DEF TextLength
  <1>3. IsFiniteSet(1 .. MsgBytes) /\ Cardinality(1 .. MsgBytes) = MsgBytes
    BY <1>1, FS_Interval
  <1>4. IsFiniteSet(full) /\ c \in Nat /\ c <= MsgBytes
    <2>1. full \in SUBSET (1 .. MsgBytes)
      OBVIOUS
    <2>2. IsFiniteSet(full) /\ c <= MsgBytes
      BY <1>3, <2>1, FS_Subset
    <2>. QED
      BY <2>2, FS_CardinalityType
  <1>5. ASSUME NEW n \in 0 .. MsgBytes, IsText(n) PROVE n = c
    <2>1. full = 1 .. n
      BY <1>1, <1>5 DEF IsText
    <2>2. Cardinality(1 .. n) = n
      BY FS_Interval
    <2>. QED
      BY <2>1, <2>2
  <1>6. ASSUME \A i \in 1 .. c : msg[i] # 0 PROVE IsText(c)
    <2>1. IsFiniteSet(1 .. c) /\ Cardinality(1 .. c) = c
      BY <1>4, FS_Interval
    <2>2. 1 .. c \in SUBSET full
      <3>1. \A i \in 1 .. c : i \in 1 .. MsgBytes
        <4>. HIDE DEF c
        <4>. QED
          BY <1>1, <1>4
      <3>2. \A i \in 1 .. c : i \in full
        <4>. HIDE DEF c
        <4>. QED
          BY <1>6, <3>1
      <3>. HIDE DEF c, full
      <3>. QED
        BY <3>2
    <2>3. full = 1 .. c
      <3>. HIDE DEF full
      <3>. QED
        BY <1>4, <2>1, <2>2, FS_Subset
    <2>4. \A i \in 1 .. MsgBytes : i \in full <=> msg[i] # 0
      OBVIOUS
    <2>5. \A i \in 1 .. MsgBytes : i \in 1 .. c <=> i <= c
      BY <1>1, <1>4
    <2>. HIDE DEF full, c
    <2>. QED
      BY <2>3, <2>4, <2>5 DEF IsText
  <1>7. PaddingStart = c + 1
    <2> DEFINE all == {i \in DOMAIN In : In[i] # 0}
               later == all \ {1}
               Shift == [i \in full |-> i + 1]
    <2>1. \A i : i \in all <=> i = 1 \/ (i - 1 \in full /\ i \in Int)
      <3>1. DOMAIN In = 1 .. MsgBytes + 1
        BY <1>1
      <3>2. ASSUME NEW i \in 1 .. MsgBytes + 1, i # 1 PROVE In[i] = msg[i - 1] /\ i - 1 \in 1 .. MsgBytes
        <4>1. i - 1 \in 1 .. MsgBytes /\ (i - 1) + 1 = i
          BY <1>1, <3>2
        <4>. QED
          BY <1>1, <4>1
      <3>3. 1 \in all
        BY <1>1, <3>1 DEF StartByte
      <3>4. \A i \in all : i = 1 \/ (i - 1 \in full /\ i \in Int)
        BY <3>1, <3>2
      <3>5. ASSUME NEW i \in Int, i - 1 \in full PROVE i \in all
        <4>1. i \in 1 .. MsgBytes + 1 /\ i # 1
          BY <1>1, <3>5
        <4>. QED
          BY <3>1, <3>2, <3>5, <4>1
      <3>. HIDE DEF all, full
      <3>. QED
        BY <3>3, <3>4, <3>5
    <2>2. Shift \in Bijection(full, later)
      <3>1. \A i \in full : i \in Nat /\ i >= 1
        BY <1>1
      <3>. HIDE DEF all, full
      <3>2. \A i \in full : i + 1 \in later
        <4>1. \A i \in full : i + 1 \in Int /\ (i + 1) - 1 = i /\ i + 1 # 1
          BY <3>1
        <4>. QED
          BY <2>1, <4>1
      <3>3. \A x \in later : x - 1 \in full /\ (x - 1) + 1 = x
        BY <2>1
      <3>. HIDE DEF later
      <3>4. Shift \in [full -> later]
        BY <3>2
      <3>5. \A i, k \in full : Shift[i] = Shift[k] => i = k
        BY <3>1
      <3>6. \A x \in later : \E i \in full : Shift[i] = x
        BY <3>3
      <3>. HIDE DEF Shift
      <3>. QED
        BY <3>4, <3>5, <3>6 DEF Bijection, Injection, Surjection, IsInjective
    <2>3. IsFiniteSet(later) /\ Cardinality(later) = c
      <3>. HIDE DEF full, later, Shift
      <3>1. ExistsBijection(full, later)
        BY <2>2 DEF ExistsBijection
      <3>. QED
        BY <1>4, <3>1, FS_Bijection
    <2>4. all = later \cup {1} /\ 1 \notin later
      <3>1. 1 \in all
        BY <2>1
      <3>. HIDE DEF all
      <3>. QED
        BY <3>1
    <2>5. Cardinality(all) = c + 1
      <3>. HIDE DEF all, later
      <3>. QED
        BY <2>3, <2>4, FS_AddElement
    <2>. QED
      BY <2>5 DEF PaddingStart
  <1>8. c \in 0 .. MsgBytes
    BY <1>1, <1>4
  <1>. QED
    BY <1>2, <1>5, <1>6, <1>7, <1>8

\* With its last row the circuit has the answer.
LEMMA OutIsExact ==
  ASSUME NEW d \in Automaton, d = config[1].dfa, IsSplit, AnchoredNet(net, d),
         msg \in Message, InRange(msg), RowsAreRuns, Len(rows) = NumBytes + 1
  PROVE  Out = 1 <=> IsWord
  <1> DEFINE order == BreadthFirst(d)
             m == Len(order)
             c == TextLength
             Run(i) == RunFrom(d, SubSeq(msg, 1, i))
  <1>1. MsgBytes \in Nat /\ NumBytes = MsgBytes + 1 /\ NumBytes \in Nat
    BY MsgBytesAssumption DEF NumBytes
  <1>2. /\ c \in 0 .. MsgBytes /\ PaddingStart = c + 1
        /\ (\A i \in 1 .. c : msg[i] # 0) => IsText(c)
        /\ \A n \in 0 .. MsgBytes : IsText(n) => n = c
    BY TextEnds
  <1>3. HasDollar
    BY DEF HasDollar, IsSplit
  <1>. HIDE DEF c
  <1>4. Out = 1 <=> c + 1 <= MsgBytes /\ Accepted(c + 1)
    <2>1. EndAnchorCheck <=> c + 1 <= MsgBytes /\ Accepted(c + 1)
      <3>1. c + 1 \in 0 .. NumBytes - 1 <=> c + 1 <= MsgBytes
        BY <1>1, <1>2
      <3>. QED
        BY <1>2, <3>1 DEF EndAnchorCheck
    <2>2. EndAnchorCheck => IsAccepted
      <3>1. \A i \in 0 .. NumBytes - 1 : i \in 0 .. NumBytes
        BY <1>1
      <3>. QED
        BY <3>1 DEF EndAnchorCheck, IsAccepted
    <2>. QED
      BY <1>3, <2>1, <2>2 DEF Out
  <1>5. ASSUME c + 1 <= MsgBytes
        PROVE  Accepted(c + 1) <=> IsText(c) /\ Accepts(d, Text(c))
    <2>1. /\ c + 1 \in 0 .. NumBytes /\ (c + 1) + 1 = c + 2 /\ c \in 0 .. Len(rows) - 2
          /\ c \in 0 .. MsgBytes - 1
      BY <1>1, <1>2, <1>5
    <2>2. rows[(c + 1) + 1] = Reached(d, c)
      BY <2>1 DEF RowsAreRuns
    <2>3. m \in Nat /\ NonZero = 1 .. m /\ DOMAIN order = 1 .. m
      <3>1. StartByte \in Int
        BY DEF StartByte
      <3>. QED
        BY <3>1, CircuitEdges, BreadthFirstFacts
    <2>4. Reached(d, c) = {s \in 1 .. m : (\A i \in 1 .. c : msg[i] # 0) /\ order[s] \in Run(c)}
      BY DEF Reached
    <2>5. Accepted(c + 1) <=> \E s \in Reached(d, c) : order[s] \in d.eoi
      <3>1. rows[(c + 1) + 1] \subseteq NonZero
        BY <2>2, <2>3, <2>4
      <3>2. Accepted(c + 1) <=> \E s \in rows[(c + 1) + 1] : order[s] \in d.eoi
        <4>1. PICK i \in 0 .. NumBytes : i = c + 1
          BY <2>1
        <4>2. rows[i + 1] \subseteq NonZero
          BY <3>1, <4>1
        <4>3. Accepted(i) <=> \E s \in rows[i + 1] : order[s] \in d.eoi
          BY <1>1, <4>2, AcceptedStates
        <4>. QED
          BY <4>1, <4>3
      <3>. QED
        BY <2>2, <3>2
    <2>6. Run(c) \subseteq ToSet(order)
      <3> DEFINE word == SubSeq(msg, 1, c)
      <3>1. Len(word) \in Nat
        BY <2>1, InputBytes
      <3>. HIDE DEF word
      <3>2. RunFrom(d, word) \subseteq ToSet(order)
        BY <3>1, RunsAreVisited DEF RunFrom
      <3>. QED
        BY <3>2 DEF word
    <2>7. Accepts(d, Text(c)) <=> \E x \in Run(c) : x \in d.eoi
      BY DEF Accepts, Text
    <2>8. IsText(c) <=> \A i \in 1 .. c : msg[i] # 0
      <3>1. \A i \in 1 .. c : i \in 1 .. MsgBytes /\ i <= c
        BY <1>1, <1>2
      <3>. QED
        BY <1>2, <3>1 DEF IsText
    <2>. HIDE DEF order, m, Run
    <2>9. \A x \in Run(c) : \E s \in 1 .. m : x = order[s]
      BY <2>3, <2>6 DEF ToSet
    <2>. QED
      BY <2>4, <2>5, <2>7, <2>8, <2>9
  <1>6. IsWord <=> c + 1 <= MsgBytes /\ IsText(c) /\ Accepts(d, Text(c))
    <2>1. \A n \in 0 .. MsgBytes - 1 : n \in 0 .. MsgBytes
      BY <1>1
    <2>2. c + 1 <= MsgBytes <=> c \in 0 .. MsgBytes - 1
      BY <1>1, <1>2
    <2>. QED
      BY <1>2, <2>1, <2>2 DEF IsWord
  <1>. QED
    BY <1>4, <1>5, <1>6

-----------------------------------------------------------------------------
LEMMA CompileKeepsAnchored ==
  ASSUME NEW c, Compile(c)
  PROVE  AnchoredInv'
  <1>1. /\ config' = c /\ parts' = c /\ next' = 1 /\ net' = <<>> /\ stage' = "caret"
        /\ rows' = <<{}>>
    BY DEF Compile
  <1>. QED
    BY <1>1 DEF AnchoredInv

LEMMA CaretKeepsAnchored ==
  ASSUME RegexInv, AnchoredInv, ProcessCaret
  PROVE  AnchoredInv'
  <1> DEFINE c == config[1]
             first == [c EXCEPT !.dfa = c.group, !.dollar = FALSE, !.public = FALSE]
             rest == [config EXCEPT ![1].caret = "none"]
             second == [c EXCEPT !.caret = "none"]
  <1>1. /\ stage = "caret" /\ stage' = "parts"
        /\ parts' = IF c.caret = "none" THEN config ELSE <<first>> \o rest
        /\ UNCHANGED <<config, next, net, rows>>
    BY DEF ProcessCaret, signals
  <1>2. config \in Seq(Part) /\ config # <<>> /\ rows = <<{}>> /\ next = 1 /\ net = <<>>
    BY <1>1 DEF RegexInv, AnchoredInv
  <1>3. ASSUME Anchored PROVE IsSplit'
    <2>1. Len(config) = 1 /\ DOMAIN config = 1 .. 1 /\ c \in Part /\ c.caret = "bare" /\ c.dollar
      BY <1>2, <1>3 DEF Anchored
    <2>2. /\ first.caret = "bare" /\ ~ first.dollar
          /\ second.caret = "none" /\ second.dollar /\ second.dfa = c.dfa
      <3>. HIDE DEF c
      <3>. QED
        BY <2>1 DEF Part
    <2>3. rest = [k \in 1 .. 1 |-> second]
      <3>1. rest = [k \in 1 .. 1 |-> IF k = 1 THEN second ELSE config[k]]
        BY <2>1
      <3>2. \A k \in 1 .. 1 : k = 1
        OBVIOUS
      <3>. HIDE DEF rest, second
      <3>. QED
        BY <3>1, <3>2
    <2> DEFINE S == {first, second}
               begin == <<first>>
    <2>. HIDE DEF first, second, rest
    <2>4. begin \in Seq(S) /\ Len(begin) = 1 /\ begin[1] = first
      OBVIOUS
    <2>5. rest \in Seq(S) /\ Len(rest) = 1 /\ rest[1] = second
      <3>1. second \in S
        OBVIOUS
      <3>. HIDE DEF S
      <3>2. rest \in [1 .. 1 -> S] /\ 1 \in 1 .. 1
        BY <2>3, <3>1
      <3>3. ASSUME NEW n \in Nat, rest \in [1 .. n -> S] PROVE rest \in Seq(S) /\ Len(rest) = n
        BY <3>3
      <3>4. rest \in Seq(S) /\ Len(rest) = 1
        BY <3>2, <3>3
      <3>. QED
        BY <2>3, <3>2, <3>4
    <2>6. parts' = begin \o rest
      BY <1>1, <2>1
    <2>. HIDE DEF S, begin
    <2>7. /\ Len(begin \o rest) = Len(begin) + Len(rest)
          /\ \A k \in 1 .. Len(begin) + Len(rest) :
               (begin \o rest)[k] = IF k <= Len(begin) THEN begin[k] ELSE rest[k - Len(begin)]
      BY ONLY <2>4, <2>5, Concatenated
    <2>8. Len(parts') = 2 /\ parts'[1] = first /\ parts'[2] = second
      <3>1. Len(parts') = 1 + 1
        BY <2>4, <2>5, <2>6, <2>7
      <3>2. 1 \in 1 .. 1 + 1 /\ 2 \in 1 .. 1 + 1 /\ 2 - 1 = 1
        OBVIOUS
      <3>. QED
        BY <2>4, <2>5, <2>6, <2>7, <3>1, <3>2
    <2>. QED
      BY <1>1, <2>2, <2>8 DEF IsSplit, c
  <1>4. Anchored' <=> Anchored
    BY <1>1 DEF Anchored
  <1>5. IsCompiled'
    BY <1>1, <1>2 DEF IsCompiled
  <1>6. rows' = <<{}>>
    BY <1>1, <1>2
  <1>. HIDE DEF c, first, rest, second
  <1>. QED
    BY <1>1, <1>3, <1>4, <1>5, <1>6 DEF AnchoredInv

\* The two parts of an anchored regex are glued to its circuit's graph.
LEMMA PartOfAnchored ==
  ASSUME RegexInv, IsSplit, IsCompiled, next <= Len(parts),
         NEW d \in Automaton, d = config[1].dfa,
         NEW glued, glued = AddDfa(net, RenameStates(PartGraph(next), MaxStateIndex(net)))
  PROVE  \/ next = 1 /\ CaretNet(glued)
         \/ next = 2 /\ AnchoredNet(glued, d)
  <1>1. next <= 2
    BY DEF IsSplit
  <1>2. CASE next = 1 /\ net = <<>>
    <2>1. PartGraph(next) = CaretGraph
      BY <1>2 DEF PartGraph, IsSplit
    <2>2. MaxStateIndex(net) = 0
      BY <1>2 DEF MaxStateIndex
    <2>3. glued = RenameStates(CaretGraph, 0)
      BY <1>2, <2>1, <2>2 DEF AddDfa
    <2>. QED
      BY <1>2, <2>3, CaretIsRenamed
  <1>3. CASE next = 2 /\ CaretNet(net)
    <2> DEFINE plain == ConvertDfaToGraph(d)
               g == RenameStates(plain, 1)
    <2>1. PartGraph(next) = plain
      BY <1>3 DEF PartGraph, IsSplit
    <2>2. MaxStateIndex(net) = 1
      <3>1. GoodGraph(net, 0) /\ Len(net) = 2
        BY <1>3 DEF CaretNet
      <3>2. MaxStateIndex(net) = Len(net) - 1
        BY <3>1, LastIndex
      <3>. QED
        BY <3>1, <3>2
    <2>3. GoodGraph(plain, 0) /\ Len(plain) = Len(BreadthFirst(d)) /\ SameGraph(plain, d, 0, -1)
      BY ConvertedIsGood, ConvertedIsSame
    <2>. HIDE DEF plain
    <2>4. Len(g) = Len(BreadthFirst(d)) /\ SameGraph(g, d, 0, 0)
      <3>1. PICK base \in Nat : base = 1
        OBVIOUS
      <3>2. /\ Len(RenameStates(plain, base)) = Len(plain)
            /\ SameGraph(RenameStates(plain, base), d, 0, base - 1)
        BY <2>3, RenamedIsSame
      <3>3. base - 1 = 0 /\ g = RenameStates(plain, base)
        BY <3>1
      <3>. HIDE DEF g
      <3>. QED
        BY <2>3, <3>2, <3>3
    <2>5. GoodGraph(g, 1)
      BY <2>3, RenamedIsGood
    <2>. HIDE DEF g
    <2>6. AnchoredNet(AddDfa(net, g), d)
      BY <1>3, <2>2, <2>4, <2>5, JoinedIsAnchored
    <2>. QED
      BY <1>3, <2>1, <2>2, <2>6 DEF g
  <1>4. CASE next = 3
    BY <1>1, <1>4
  <1>. QED
    BY <1>2, <1>3, <1>4 DEF IsCompiled

LEMMA AutomatonOfAnchored ==
  ASSUME RegexInv, Anchored
  PROVE  config[1].dfa \in Automaton
  <1>1. config \in Seq(Part)
    BY DEF RegexInv
  <1>2. config[1] \in Part
    <2>1. \A k \in 1 .. Len(config) : config[k] \in Part
      BY <1>1
    <2>2. 1 \in 1 .. Len(config)
      BY DEF Anchored
    <2>. QED
      BY <2>1, <2>2
  <1>. QED
    BY <1>2 DEF Part

LEMMA PartKeepsAnchored ==
  ASSUME RegexInv, AnchoredInv, CompilePart
  PROVE  AnchoredInv'
  <1>0. /\ stage = "parts" /\ next <= Len(parts)
        /\ UNCHANGED <<config, parts, rows>>
    BY DEF CompilePart, signals
  <1>1. CASE PartFails(next)
    <2>1. stage' = "error"
      BY <1>1 DEF CompilePart
    <2>. QED
      BY <2>1 DEF AnchoredInv
  <1>2. CASE ~ PartFails(next)
    <2> DEFINE glued == AddDfa(net, RenameStates(PartGraph(next), MaxStateIndex(net)))
    <2>1. net' = glued /\ next' = next + 1 /\ stage' = "parts"
      BY <1>0, <1>2 DEF CompilePart
    <2>2. rows' = <<{}>> /\ (Anchored' <=> Anchored) /\ (IsSplit' <=> IsSplit)
      BY <1>0 DEF AnchoredInv, Anchored, IsSplit
    <2>3. ASSUME Anchored PROVE IsSplit /\ IsCompiled'
      <3>1. IsSplit /\ IsCompiled
        BY <1>0, <2>3 DEF AnchoredInv
      <3>2. PICK d \in Automaton : d = config[1].dfa
        BY <2>3, AutomatonOfAnchored
      <3>. HIDE DEF glued
      <3>3. \/ next = 1 /\ CaretNet(glued)
            \/ next = 2 /\ AnchoredNet(glued, d)
        BY <1>0, <3>1, <3>2, PartOfAnchored DEF glued
      <3>4. \/ next' = 2 /\ CaretNet(net')
            \/ next' = 3 /\ AnchoredNet(net', d)
        BY <2>1, <3>3
      <3>5. d = config'[1].dfa
        BY <1>0, <3>2
      <3>6. IsCompiled' <=> \/ next' = 1 /\ net' = <<>>
                            \/ next' = 2 /\ CaretNet(net')
                            \/ next' = 3 /\ AnchoredNet(net', config'[1].dfa)
        BY DEF IsCompiled
      <3>. QED
        BY <3>1, <3>4, <3>5, <3>6
    <2>. QED
      BY <2>1, <2>2, <2>3 DEF AnchoredInv
  <1>. QED
    BY <1>1, <1>2

LEMMA CircuitKeepsAnchored ==
  ASSUME RegexInv, AnchoredInv, GenerateCircuit
  PROVE  AnchoredInv'
  <1>1. /\ stage = "parts" /\ next > Len(parts)
        /\ UNCHANGED <<config, parts, net, rows>>
        /\ \/ stage' = "error"
           \/ stage' = IF InRange(msg') THEN "bytes" ELSE "unsatisfied"
    BY DEF GenerateCircuit, compiled
  <1>2. CASE stage' # "bytes"
    BY <1>1, <1>2 DEF AnchoredInv
  <1>3. CASE stage' = "bytes"
    <2>1. InRange(msg')
      BY <1>1, <1>3
    <2>2. ASSUME Anchored
          PROVE  IsSplit' /\ AnchoredNet(net', config'[1].dfa) /\ RowsAreRuns'
      <3>1. IsSplit /\ IsCompiled /\ rows = <<{}>>
        BY <1>1, <2>2 DEF AnchoredInv
      <3>2. next = 3 /\ AnchoredNet(net, config[1].dfa)
        BY <1>1, <3>1 DEF IsSplit, IsCompiled
      <3>3. IsSplit' /\ AnchoredNet(net', config'[1].dfa)
        BY <1>1, <3>1, <3>2 DEF IsSplit
      <3>4. Len(rows') = 1 /\ rows'[1] = {} /\ NumBytes \in Nat
        BY <1>1, <3>1, MsgBytesAssumption DEF NumBytes
      <3>5. 0 .. Len(rows') - 2 = {}
        BY <3>4
      <3>6. RowsAreRuns'
        BY <3>4, <3>5 DEF RowsAreRuns
      <3>. QED
        BY <3>3, <3>6
    <2>3. Anchored' <=> Anchored
      BY <1>1 DEF Anchored
    <2>. QED
      BY <1>3, <2>1, <2>2, <2>3 DEF AnchoredInv
  <1>. QED
    BY <1>2, <1>3

LEMMA RowsKeepAnchored ==
  ASSUME RegexInv, AnchoredInv, ReadByte
  PROVE  AnchoredInv'
  <1>1. /\ stage = "bytes" /\ stage' = "bytes"
        /\ UNCHANGED <<config, parts, net, msg>>
    BY DEF ReadByte, compiled
  <1>2. ASSUME Anchored
        PROVE  IsSplit' /\ AnchoredNet(net', config'[1].dfa) /\ InRange(msg') /\ RowsAreRuns'
    <2>1. /\ IsSplit /\ AnchoredNet(net, config[1].dfa) /\ InRange(msg) /\ RowsAreRuns
          /\ msg \in Message
      BY <1>1, <1>2 DEF AnchoredInv, RegexInv
    <2>2. PICK d \in Automaton : d = config[1].dfa
      BY <1>2, AutomatonOfAnchored
    <2>3. /\ Len(rows') = Len(rows) + 1 /\ Len(rows') <= NumBytes + 1
          /\ \A k \in 1 .. Len(rows) : rows'[k] = rows[k]
          /\ rows'[Len(rows) + 1] = Reached(d, Len(rows) - 1)
      BY <2>1, <2>2, ReadFollowsRun
    <2>4. Len(rows) \in Nat /\ Len(rows) >= 1
      <3>1. rows \in Seq(SUBSET Nat) /\ rows # <<>>
        BY DEF RegexInv
      <3>. QED
        BY <3>1
    <2>5. ASSUME NEW j \in 0 .. Len(rows') - 2 PROVE rows'[j + 2] = Reached(d, j)
      <3>1. CASE j + 2 = Len(rows) + 1
        <4>1. j = Len(rows) - 1
          BY <2>3, <2>4, <3>1
        <4>. QED
          BY <2>3, <3>1, <4>1
      <3>2. CASE j + 2 # Len(rows) + 1
        <4>1. j + 2 \in 1 .. Len(rows) /\ j \in 0 .. Len(rows) - 2
          BY <2>3, <2>4, <3>2
        <4>2. rows'[j + 2] = rows[j + 2]
          BY <2>3, <4>1
        <4>3. rows[j + 2] = Reached(d, j)
          BY <2>1, <2>2, <4>1 DEF RowsAreRuns
        <4>. QED
          BY <4>2, <4>3
      <3>. QED
        BY <3>1, <3>2
    <2>6. rows'[1] = {}
      BY <2>1, <2>3, <2>4 DEF RowsAreRuns
    <2>7. ASSUME NEW j \in 0 .. Len(rows') - 2 PROVE rows'[j + 2] = Reached(config[1].dfa, j)'
      <3>1. Reached(config[1].dfa, j)' = Reached(d, j)
        BY <1>1, <2>2 DEF Reached
      <3>. QED
        BY <2>5, <3>1
    <2>8. RowsAreRuns'
      BY <2>3, <2>6, <2>7 DEF RowsAreRuns, NumBytes
    <2>. QED
      BY <1>1, <2>1, <2>8 DEF IsSplit
  <1>3. Anchored' <=> Anchored
    BY <1>1 DEF Anchored
  <1>. QED
    BY <1>1, <1>2, <1>3 DEF AnchoredInv

LEMMA FinishKeepsAnchored ==
  ASSUME RegexInv, AnchoredInv, Finish
  PROVE  AnchoredInv'
  <1>1. /\ stage = "bytes" /\ Len(rows) = NumBytes + 1
        /\ out' = Out /\ stage' = "finished"
        /\ UNCHANGED <<config, msg>>
    BY DEF Finish, compiled
  <1>2. ASSUME Anchored PROVE out' = 1 <=> IsWord
    <2>1. /\ IsSplit /\ AnchoredNet(net, config[1].dfa) /\ InRange(msg) /\ RowsAreRuns
          /\ msg \in Message
      BY <1>1, <1>2 DEF AnchoredInv, RegexInv
    <2>2. PICK d \in Automaton : d = config[1].dfa
      BY <1>2, AutomatonOfAnchored
    <2>3. Out = 1 <=> IsWord
      BY <1>1, <2>1, <2>2, OutIsExact
    <2>. QED
      BY <1>1, <2>3
  <1>3. (Anchored' <=> Anchored) /\ (IsWord' <=> IsWord)
    BY <1>1 DEF Anchored, IsWord, IsText, Text
  <1>. QED
    BY <1>1, <1>2, <1>3 DEF AnchoredInv

LEMMA AnchoredInvIsInductive ==
  ASSUME RegexInv, AnchoredInv, [Next]_vars
  PROVE  AnchoredInv'
  <1>1. CASE UNCHANGED vars
    <2>1. UNCHANGED <<config, parts, next, net, stage, msg, rows, out>>
      BY <1>1 DEF vars, circuitVars, compiled, signals
    <2>2. /\ Anchored' <=> Anchored
          /\ IsSplit' <=> IsSplit
          /\ IsWord' <=> IsWord
      BY <2>1 DEF Anchored, IsSplit, IsWord, IsText, Text
    <2>3. /\ IsCompiled' <=> IsCompiled
          /\ RowsAreRuns' <=> RowsAreRuns
      BY <2>1 DEF IsCompiled, RowsAreRuns, Reached, NumBytes
    <2>. QED
      BY <2>1, <2>2, <2>3 DEF AnchoredInv
  <1>2. CASE CompileDecomposed
    BY <1>2, CompileKeepsAnchored DEF CompileDecomposed
  <1>3. CASE CircuitStep
    BY <1>3, CaretKeepsAnchored, PartKeepsAnchored, CircuitKeepsAnchored, RowsKeepAnchored,
       FinishKeepsAnchored DEF CircuitStep
  <1>4. CASE BuildRule
    <2>1. CASE stage' = "error"
      BY <2>1 DEF AnchoredInv
    <2>2. CASE Compile(conditions'[1].regex)
      <3>1. PICK c : c = conditions'[1].regex
        OBVIOUS
      <3>2. Compile(c)
        BY <2>2, <3>1
      <3>. QED
        BY <3>2, CompileKeepsAnchored
    <2>. QED
      BY <1>4, <2>1, <2>2 DEF BuildRule
  <1>5. CASE CombineCondition
    <2>1. CASE stage' = "combined"
      BY <2>1 DEF AnchoredInv
    <2>2. CASE Compile(conditions[Len(outputs') + 1].regex)
      <3>1. PICK c : c = conditions[Len(outputs') + 1].regex
        OBVIOUS
      <3>2. Compile(c)
        BY <2>2, <3>1
      <3>. QED
        BY <3>2, CompileKeepsAnchored
    <2>. QED
      BY <1>5, <2>1, <2>2 DEF CombineCondition
  <1>6. CASE ConstrainExpected
    <2>1. stage' = "done"
      BY <1>6 DEF ConstrainExpected
    <2>. QED
      BY <2>1 DEF AnchoredInv
  <1>. QED
    BY <1>1, <1>2, <1>3, <1>4, <1>5, <1>6 DEF Next, PolicyStep

\* A regex between ^ and $ is matched exactly, whatever its automaton: not a
\* text more is accepted than it has words, and not one less.  The caret's own
\* part, the renumbering, the gluing, the range checks, the rows and the end
\* anchor all take part (process_caret, add_dfa, gen_circom_template).
THEOREM AnchoredRegexIsExact == Spec => []AnchoredIsExact
  <1>1. Init => AnchoredInv
    BY DEF Init, CircuitInit, AnchoredInv
  <1>2. Spec => []AnchoredInv
    BY <1>1, RegexInvHolds, AnchoredInvIsInductive, PTL DEF Spec
  <1>3. AnchoredInv => AnchoredIsExact
    BY DEF AnchoredInv, Anchored, AnchoredIsExact, Finished, IsWord
  <1>. QED
    BY <1>2, <1>3, PTL

-----------------------------------------------------------------------------
\* A circuit without anchors searches.  With a byte it goes on with what is
\* under way and starts anew only if nothing is left; being back in the start
\* is being nowhere.
Onward(d, S, b) == IF b = 0 THEN {} ELSE Successors(d, S, b) \ {d.start}
SearchStep(d, S, b) ==
  Onward(d, S, b) \cup IF Onward(d, S, b) = {} THEN Onward(d, {d.start}, b) ELSE {}

IsSearch(d, text, on) ==
  /\ on \in [0 .. Len(text) -> SUBSET Int]
  /\ on[0] = {}
  /\ \A j \in 0 .. Len(text) - 1 : on[j + 1] = SearchStep(d, on[j], text[j + 1])

Unpadded(text, i, j) == \A k \in i + 1 .. j : text[k] # 0

LEMMA UnpaddedGrows ==
  ASSUME NEW text, NEW i \in Nat, NEW j \in Nat, i <= j
  PROVE  Unpadded(text, i, j + 1) <=> Unpadded(text, i, j) /\ text[j + 1] # 0
  <1>1. \A k : k \in i + 1 .. j + 1 <=> k \in i + 1 .. j \/ k = j + 1
    OBVIOUS
  <1>. QED
    BY <1>1 DEF Unpadded

\* What is under way has begun somewhere.
LEMMA SearchIsSound ==
  ASSUME NEW d, NEW text \in Seq(Int), NEW on, IsSearch(d, text, on)
  PROVE  \A j \in 0 .. Len(text) : \A x \in on[j] :
           \E i \in 0 .. j : Unpadded(text, i, j) /\ x \in RunFrom(d, SubSeq(text, i + 1, j))
  <1> DEFINE N == Len(text)
             Run(i, j) == RunFrom(d, SubSeq(text, i + 1, j))
             Begun(j) == \A x \in on[j] : \E i \in 0 .. j : Unpadded(text, i, j) /\ x \in Run(i, j)
             Good == {j \in Nat : j <= N => Begun(j)}
  <1>0. N \in Nat
    OBVIOUS
  <1>1. \A i \in 0 .. N : Run(i, i) = {d.start} /\
          \A j \in i .. N - 1 : Run(i, j + 1) = Successors(d, Run(i, j), text[j + 1])
    BY RunOfStretches
  <1>2. on[0] = {} /\ \A j \in 0 .. N - 1 : on[j + 1] = SearchStep(d, on[j], text[j + 1])
    BY DEF IsSearch
  <1>. HIDE DEF N, Run
  <1>3. 0 \in Good
    BY <1>2
  <1>4. ASSUME NEW j \in Nat, j \in Good PROVE j + 1 \in Good
    <2>. SUFFICES ASSUME j + 1 <= N, NEW x \in on[j + 1]
                  PROVE  \E i \in 0 .. j + 1 : Unpadded(text, i, j + 1) /\ x \in Run(i, j + 1)
      OBVIOUS
    <2>1. /\ j \in 0 .. N - 1 /\ j \in 0 .. N /\ j \in j .. N - 1
          /\ \A i \in 0 .. j : i \in Nat /\ i <= j /\ i \in 0 .. N /\ i \in 0 .. j + 1 /\ j \in i .. N - 1
      BY <1>0
    <2> DEFINE b == text[j + 1]
    <2>2. x \in SearchStep(d, on[j], b)
      BY <1>2, <2>1
    <2>3. b # 0 /\ (x \in Successors(d, on[j], b) \/ x \in Successors(d, {d.start}, b))
      BY <2>2 DEF SearchStep, Onward
    <2>4. CASE x \in Successors(d, on[j], b)
      <3>1. PICK e \in d.edges : e[1] \in on[j] /\ b \in e[2] /\ e[3] = x
        BY <2>4 DEF Successors
      <3>2. PICK i \in 0 .. j : Unpadded(text, i, j) /\ e[1] \in Run(i, j)
        BY <1>4, <2>1, <3>1
      <3>3. x \in Run(i, j + 1)
        BY <1>1, <2>1, <3>1, <3>2 DEF Successors
      <3>4. Unpadded(text, i, j + 1)
        BY <2>1, <2>3, <3>2, UnpaddedGrows
      <3>. QED
        BY <2>1, <3>3, <3>4
    <2>5. CASE x \in Successors(d, {d.start}, b)
      <3>1. j \in 0 .. j /\ j + 1 \notin j + 1 .. j
        OBVIOUS
      <3>2. Unpadded(text, j, j)
        BY DEF Unpadded
      <3>3. Unpadded(text, j, j + 1)
        <4>1. j <= j /\ text[j + 1] # 0
          BY <2>3
        <4>2. Unpadded(text, j, j + 1) <=> Unpadded(text, j, j) /\ text[j + 1] # 0
          BY <4>1, UnpaddedGrows
        <4>. QED
          BY <3>2, <4>1, <4>2
      <3>4. x \in Run(j, j + 1)
        BY <1>1, <2>1, <2>5
      <3>. QED
        BY <2>1, <3>1, <3>3, <3>4
    <2>. QED
      BY <2>3, <2>4, <2>5
  <1>5. Nat \subseteq Good
    <2>. HIDE DEF Good
    <2>. QED
      BY <1>3, <1>4, NatInduct
  <1>6. \A j \in 0 .. N : Begun(j)
    BY <1>0, <1>5
  <1>. QED
    BY <1>6 DEF N, Run

\* A search loses nothing if what is under way is always as good as what
\* could have begun meanwhile: R relates the two, and P is what is under way.
\* Back in the start it would be nowhere.
Searchable(d) ==
  \/ d.start \in d.eoi
  \/ \E R \in SUBSET (Int \X Int) : \E P \in SUBSET Int :
       /\ \A f \in Leaving(d, d.start) : f[3] # d.start /\ f[3] \in P /\ <<f[3], f[3]>> \in R
       /\ \A x \in P \ d.eoi : \A g \in Leaving(d, x) :
            /\ g[3] # d.start /\ g[3] \in P
            /\ \A f \in Leaving(d, d.start) : f[2] \cap g[2] # {} => <<g[3], f[3]>> \in R
       /\ \A x \in P \ d.eoi : \A q : <<x, q>> \in R =>
            /\ q \notin d.eoi
            /\ \A f \in Leaving(d, q) : \A b \in f[2] :
                 \E g \in Leaving(d, x) : b \in g[2] /\ <<g[3], f[3]>> \in R

LEMMA SearchIsComplete ==
  ASSUME NEW d, Searchable(d), NEW text \in Seq(Int), NEW on, IsSearch(d, text, on),
         NEW i \in 0 .. Len(text), NEW j \in i .. Len(text), Unpadded(text, i, j),
         Accepts(d, SubSeq(text, i + 1, j))
  PROVE  d.start \in d.eoi \/ \E k \in 0 .. Len(text) : on[k] \cap d.eoi # {}
  <1>. SUFFICES ASSUME d.start \notin d.eoi, \A k \in 0 .. Len(text) : on[k] \cap d.eoi = {}
                PROVE  FALSE
    OBVIOUS
  <1> DEFINE N == Len(text)
             Run(k) == RunFrom(d, SubSeq(text, i + 1, k))
  <1>0. N \in Nat /\ i \in 0 .. N /\ j \in i .. N
    OBVIOUS
  <1>1. /\ Run(i) = {d.start}
        /\ \A k \in i .. N - 1 : Run(k + 1) = Successors(d, Run(k), text[k + 1])
    BY RunOfStretches
  <1>2. on[0] = {} /\ \A k \in 0 .. N - 1 : on[k + 1] = SearchStep(d, on[k], text[k + 1])
    BY DEF IsSearch
  <1>3. PICK last : last \in Run(j) /\ last \in d.eoi
    BY DEF Accepts
  <1>4. \A k \in 0 .. N : \A x \in on[k] : x \notin d.eoi
    OBVIOUS
  <1>. HIDE DEF N, Run
  <1>5. PICK R \in SUBSET (Int \X Int), P \in SUBSET Int :
          /\ \A f \in Leaving(d, d.start) : f[3] # d.start /\ f[3] \in P /\ <<f[3], f[3]>> \in R
          /\ \A x \in P \ d.eoi : \A g \in Leaving(d, x) :
               /\ g[3] # d.start /\ g[3] \in P
               /\ \A f \in Leaving(d, d.start) : f[2] \cap g[2] # {} => <<g[3], f[3]>> \in R
          /\ \A x \in P \ d.eoi : \A q : <<x, q>> \in R =>
               /\ q \notin d.eoi
               /\ \A f \in Leaving(d, q) : \A b \in f[2] :
                    \E g \in Leaving(d, x) : b \in g[2] /\ <<g[3], f[3]>> \in R
    BY DEF Searchable
  <1>6. \A k \in 0 .. N : on[k] \subseteq P
    <2> DEFINE Good == {k \in Nat : k <= N => on[k] \subseteq P}
    <2>1. 0 \in Good
      BY <1>2
    <2>2. ASSUME NEW k \in Nat, k \in Good PROVE k + 1 \in Good
      <3>. SUFFICES ASSUME k + 1 <= N, NEW y \in on[k + 1] PROVE y \in P
        OBVIOUS
      <3>1. k \in 0 .. N /\ k \in 0 .. N - 1 /\ on[k] \subseteq P
        BY <1>0, <2>2
      <3> DEFINE b == text[k + 1]
      <3>2. y \in Onward(d, on[k], b) \/ y \in Onward(d, {d.start}, b)
        BY <1>2, <3>1 DEF SearchStep
      <3>3. CASE y \in Onward(d, on[k], b)
        <4>1. PICK g \in d.edges : g[1] \in on[k] /\ b \in g[2] /\ g[3] = y
          BY <3>3 DEF Onward, Successors
        <4>2. g[1] \in P \ d.eoi /\ g \in Leaving(d, g[1])
          BY <1>4, <3>1, <4>1 DEF Leaving
        <4>. QED
          BY <1>5, <4>1, <4>2
      <3>4. CASE y \in Onward(d, {d.start}, b)
        <4>1. PICK f \in d.edges : f[1] = d.start /\ f[3] = y
          BY <3>4 DEF Onward, Successors
        <4>2. f \in Leaving(d, d.start)
          BY <4>1 DEF Leaving
        <4>. QED
          BY <1>5, <4>1, <4>2
      <3>. QED
        BY <3>2, <3>3, <3>4
    <2>3. Nat \subseteq Good
      <3>. HIDE DEF Good
      <3>. QED
        BY <2>1, <2>2, NatInduct
    <2>. QED
      BY <1>0, <2>3
  <1> DEFINE Covered(k) == \A q \in Run(k) : \E x \in on[k] : <<x, q>> \in R
  \* The first byte of the word is read by what is under way, or starts anew.
  <1>7. i < j => Covered(i + 1)
    <2>. SUFFICES ASSUME i < j, NEW q \in Run(i + 1)
                  PROVE  \E x \in on[i + 1] : <<x, q>> \in R
      OBVIOUS
    <2> DEFINE b == text[i + 1]
               c == Onward(d, on[i], b)
    <2>1. /\ i \in 0 .. N /\ i \in 0 .. N - 1 /\ i \in i .. N - 1 /\ i + 1 \in i + 1 .. j
          /\ on[i] \subseteq P
      BY <1>0, <1>6
    <2>2. b # 0
      BY <2>1 DEF Unpadded
    <2>3. q \in Successors(d, {d.start}, b)
      BY <1>1, <2>1
    <2>4. PICK f \in Leaving(d, d.start) : b \in f[2] /\ f[3] = q
      BY <2>3 DEF Successors, Leaving
    <2>5. q # d.start /\ <<q, q>> \in R
      BY <1>5, <2>4
    <2>6. on[i + 1] = SearchStep(d, on[i], b)
      BY <1>2, <2>1
    <2>7. CASE c = {}
      <3>1. q \in Onward(d, {d.start}, b)
        BY <2>2, <2>3, <2>5 DEF Onward
      <3>2. q \in on[i + 1]
        BY <2>6, <2>7, <3>1 DEF SearchStep
      <3>. QED
        BY <2>5, <3>2
    <2>8. CASE c # {}
      <3>1. PICK y : y \in Onward(d, on[i], b)
        BY <2>8
      <3>2. PICK g \in d.edges : g[1] \in on[i] /\ b \in g[2] /\ g[3] = y
        BY <3>1 DEF Onward, Successors
      <3>3. g[1] \in P \ d.eoi /\ g \in Leaving(d, g[1])
        BY <1>4, <2>1, <3>2 DEF Leaving
      <3>4. f[2] \cap g[2] # {}
        BY <2>4, <3>2
      <3>5. <<y, q>> \in R
        BY <1>5, <2>4, <3>2, <3>3, <3>4
      <3>6. y \in on[i + 1]
        BY <2>6, <3>1 DEF SearchStep
      <3>. QED
        BY <3>5, <3>6
    <2>. QED
      BY <2>7, <2>8
  <1>8. ASSUME NEW k \in i + 1 .. j - 1, Covered(k) PROVE Covered(k + 1)
    <2>. SUFFICES ASSUME NEW q \in Run(k + 1) PROVE \E x \in on[k + 1] : <<x, q>> \in R
      OBVIOUS
    <2> DEFINE b == text[k + 1]
    <2>1. k \in 0 .. N /\ k \in 0 .. N - 1 /\ k \in i .. N - 1 /\ k + 1 \in i + 1 .. j
      BY <1>0
    <2>2. b # 0
      BY <2>1 DEF Unpadded
    <2>3. PICK f \in d.edges : f[1] \in Run(k) /\ b \in f[2] /\ f[3] = q
      BY <1>1, <2>1 DEF Successors
    <2>4. PICK x \in on[k] : <<x, f[1]>> \in R
      BY <1>8, <2>3
    <2>5. x \in P \ d.eoi /\ f \in Leaving(d, f[1])
      BY <1>4, <1>6, <2>1, <2>3, <2>4 DEF Leaving
    <2>6. PICK g \in Leaving(d, x) : b \in g[2] /\ <<g[3], f[3]>> \in R
      BY <1>5, <2>3, <2>4, <2>5
    <2>7. g[3] # d.start
      BY <1>5, <2>5, <2>6
    <2>8. g[3] \in Onward(d, on[k], b)
      BY <2>2, <2>4, <2>6, <2>7 DEF Onward, Successors, Leaving
    <2>9. g[3] \in on[k + 1]
      BY <1>2, <2>1, <2>8 DEF SearchStep
    <2>. QED
      BY <2>3, <2>6, <2>9
  <1>9. i < j => Covered(j)
    <2>. SUFFICES ASSUME i < j PROVE Covered(j)
      OBVIOUS
    <2> DEFINE Good == {n \in Nat : n <= j - i - 1 => Covered(i + 1 + n)}
    <2>. HIDE DEF Covered
    <2>1. 0 \in Good
      <3>1. i + 1 + 0 = i + 1
        BY <1>0
      <3>. QED
        BY <1>7, <3>1
    <2>2. ASSUME NEW n \in Nat, n \in Good PROVE n + 1 \in Good
      <3>. SUFFICES ASSUME n + 1 <= j - i - 1 PROVE Covered(i + 1 + (n + 1))
        OBVIOUS
      <3>1. i + 1 + n \in i + 1 .. j - 1 /\ i + 1 + (n + 1) = (i + 1 + n) + 1 /\ n <= j - i - 1
        BY <1>0
      <3>2. Covered(i + 1 + n)
        BY <2>2, <3>1
      <3>3. PICK k \in i + 1 .. j - 1 : k = i + 1 + n
        BY <3>1
      <3>4. Covered(k + 1)
        BY <1>8, <3>2, <3>3
      <3>. QED
        BY <3>1, <3>3, <3>4
    <2>3. Nat \subseteq Good
      <3>. HIDE DEF Good
      <3>. QED
        BY <2>1, <2>2, NatInduct
    <2>4. PICK n \in Nat : n = j - i - 1
      BY <1>0
    <2>5. i + 1 + n = j /\ n <= j - i - 1
      BY <1>0, <2>4
    <2>6. Covered(i + 1 + n)
      BY <2>3, <2>5
    <2>. QED
      BY <2>5, <2>6
  <1>10. CASE i = j
    <2>1. last = d.start
      BY <1>1, <1>3, <1>10
    <2>. QED
      BY <1>3, <2>1
  <1>11. CASE i < j
    <2>1. PICK x \in on[j] : <<x, last>> \in R
      BY <1>3, <1>9, <1>11
    <2>2. j \in 0 .. N
      BY <1>0
    <2>3. x \in P \ d.eoi
      BY <1>4, <1>6, <2>1, <2>2
    <2>4. last \notin d.eoi
      BY <1>5, <2>1, <2>3
    <2>. QED
      BY <1>3, <2>4
  <1>. QED
    BY <1>0, <1>10, <1>11

LEMMA ShortWordsAreSearchable ==
  ASSUME NEW d \in Automaton, ShortWords(d)
  PROVE  Searchable(d)
  <1>. SUFFICES ASSUME d.start \notin d.eoi PROVE Searchable(d)
    BY DEF Searchable
  <1> DEFINE P == {s \in Int : s \in d.eoi \/ \E f \in Leaving(d, d.start) : f[3] = s}
             R == {x \in Int \X Int : x[1] = x[2] \/ x[1] \in d.eoi}
  <1>1. \A e \in d.edges : e[1] \in Int /\ e[3] \in Int
    <2>1. d.edges \in SUBSET (Int \X Bytes \X Int)
      BY DEF Automaton
    <2>. QED
      BY <2>1
  <1>2. \A s : \A e \in Leaving(d, s) : e \in d.edges /\ e[1] = s
    BY DEF Leaving
  <1>3. \A x, q \in Int : <<x, q>> \in R <=> x = q \/ x \in d.eoi
    OBVIOUS
  <1>4. \A x, q : <<x, q>> \in R => x \in Int /\ q \in Int
    OBVIOUS
  <1>5. ASSUME NEW f \in Leaving(d, d.start)
        PROVE  f[3] # d.start /\ f[3] \in P /\ <<f[3], f[3]>> \in R
    <2>1. f[3] \in Int
      BY <1>1, <1>2
    <2>2. f[3] # d.start
      BY DEF ShortWords
    <2>. QED
      BY <2>1, <2>2
  <1>6. ASSUME NEW x \in P \ d.eoi, NEW g \in Leaving(d, x)
        PROVE  /\ g[3] # d.start /\ g[3] \in P
               /\ \A f \in Leaving(d, d.start) : f[2] \cap g[2] # {} => <<g[3], f[3]>> \in R
    <2>1. PICK e \in Leaving(d, d.start) : e[3] = x
      OBVIOUS
    <2>2. g[3] \in d.eoi /\ g[3] \in Int
      BY <1>1, <1>2, <2>1 DEF ShortWords
    <2>3. \A f \in Leaving(d, d.start) : f[3] \in Int
      BY <1>1, <1>2
    <2>. QED
      BY <1>3, <2>2, <2>3
  <1>7. ASSUME NEW x \in P \ d.eoi, NEW q, <<x, q>> \in R
        PROVE  /\ q \notin d.eoi
               /\ \A f \in Leaving(d, q) : \A b \in f[2] :
                    \E g \in Leaving(d, x) : b \in g[2] /\ <<g[3], f[3]>> \in R
    <2>1. q = x
      BY <1>3, <1>4, <1>7
    <2>2. \A f \in Leaving(d, x) : <<f[3], f[3]>> \in R
      BY <1>1, <1>2, <1>3
    <2>. QED
      BY <2>1, <2>2
  <1>8. R \in SUBSET (Int \X Int) /\ P \in SUBSET Int
    OBVIOUS
  <1>. HIDE DEF P, R
  <1>. QED
    BY <1>5, <1>6, <1>7, <1>8 DEF Searchable

LEMMA AtLeastIsSearchable ==
  ASSUME NEW chars \in Bytes, NEW n \in Nat
  PROVE  Searchable(AtLeast(chars, n))
  <1> DEFINE d == AtLeast(chars, n)
  <1>1. d.start = 0 /\ d.eoi = {n}
        /\ d.edges = {<<k, chars, k + 1>> : k \in 0 .. n - 1} \cup {<<n, chars, n>>}
    BY DEF AtLeast
  <1>. HIDE DEF d
  <1>2. ASSUME n # 0 PROVE Searchable(d)
    <2> DEFINE P == 1 .. n
               R == {x \in Int \X Int : x[1] \in 1 .. n /\ x[2] \in 1 .. n /\ x[1] >= x[2]}
    <2>1. \A x \in 0 .. n - 1 : \A e \in Leaving(d, x) : e[2] = chars /\ e[3] = x + 1
      <3>1. SUFFICES ASSUME NEW x \in 0 .. n - 1, NEW e \in d.edges, e[1] = x
                     PROVE  e[2] = chars /\ e[3] = x + 1
        BY DEF Leaving
      <3>2. CASE e = <<n, chars, n>>
        BY <3>1, <3>2
      <3>3. CASE e \in {<<k, chars, k + 1>> : k \in 0 .. n - 1}
        <4>1. PICK k \in 0 .. n - 1 : e = <<k, chars, k + 1>>
          BY <3>3
        <4>. QED
          BY <3>1, <4>1
      <3>. QED
        BY <1>1, <3>2, <3>3
    <2>2. \A x \in 0 .. n - 1 : <<x, chars, x + 1>> \in Leaving(d, x)
      <3>1. \A x \in 0 .. n - 1 : <<x, chars, x + 1>> \in d.edges
        BY <1>1
      <3>. QED
        BY <3>1 DEF Leaving
    <2>3. \A x, q : <<x, q>> \in R <=> x \in 1 .. n /\ q \in 1 .. n /\ x >= q
      OBVIOUS
    <2>4. 0 \in 0 .. n - 1 /\ 0 + 1 = 1 /\ 1 \in 1 .. n
      BY <1>2
    <2>5. \A x \in P \ d.eoi : /\ x \in 0 .. n - 1 /\ x \in 1 .. n
                               /\ x + 1 \in 1 .. n /\ x + 1 # 0 /\ x + 1 >= 1
      BY <1>1
    <2>6. ASSUME NEW f \in Leaving(d, d.start)
          PROVE  f[3] # d.start /\ f[3] \in P /\ <<f[3], f[3]>> \in R
      <3>1. f[3] = 1
        BY <1>1, <2>1, <2>4
      <3>. QED
        BY <1>1, <2>3, <2>4, <3>1
    <2>7. ASSUME NEW x \in P \ d.eoi, NEW g \in Leaving(d, x)
          PROVE  /\ g[3] # d.start /\ g[3] \in P
                 /\ \A f \in Leaving(d, d.start) : f[2] \cap g[2] # {} => <<g[3], f[3]>> \in R
      <3>1. g[3] = x + 1
        BY <2>1, <2>5
      <3>2. \A f \in Leaving(d, d.start) : f[3] = 1
        BY <1>1, <2>1, <2>4
      <3>3. <<x + 1, 1>> \in R
        BY <2>3, <2>4, <2>5
      <3>. QED
        BY <1>1, <2>5, <3>1, <3>2, <3>3
    <2>8. ASSUME NEW x \in P \ d.eoi, NEW q, <<x, q>> \in R
          PROVE  /\ q \notin d.eoi
                 /\ \A f \in Leaving(d, q) : \A b \in f[2] :
                      \E g \in Leaving(d, x) : b \in g[2] /\ <<g[3], f[3]>> \in R
      <3>1. q \in 1 .. n /\ x >= q /\ x \in 0 .. n - 1
        BY <2>3, <2>5, <2>8
      <3>2. q \in 0 .. n - 1 /\ q # n /\ q + 1 \in 1 .. n /\ x + 1 >= q + 1
        BY <3>1
      <3>3. ASSUME NEW f \in Leaving(d, q), NEW b \in f[2]
            PROVE  \E g \in Leaving(d, x) : b \in g[2] /\ <<g[3], f[3]>> \in R
        <4>1. f[2] = chars /\ f[3] = q + 1
          BY <2>1, <3>2
        <4> DEFINE g == <<x, chars, x + 1>>
        <4>2. g \in Leaving(d, x) /\ g[2] = chars /\ g[3] = x + 1
          BY <2>2, <3>1
        <4>3. <<x + 1, q + 1>> \in R
          BY <2>3, <2>5, <3>2
        <4>. HIDE DEF g, R
        <4>. QED
          BY <3>3, <4>1, <4>2, <4>3
      <3>. QED
        BY <1>1, <3>2, <3>3
    <2>9. R \in SUBSET (Int \X Int) /\ P \in SUBSET Int
      OBVIOUS
    <2>. HIDE DEF P, R
    <2>. QED
      BY <2>6, <2>7, <2>8, <2>9 DEF Searchable
  <1>3. ASSUME n = 0 PROVE Searchable(d)
    BY <1>1, <1>3 DEF Searchable
  <1>4. Searchable(d)
    BY <1>2, <1>3
  <1>. QED
    BY <1>4 DEF d

-----------------------------------------------------------------------------
\* The graph of an automaton alone, which is also that of its circuit.
SearchNet(g, d) ==
  GoodGraph(g, 0) /\ Len(g) = Len(BreadthFirst(d)) /\ SameGraph(g, d, 0, -1)

\* The states of the automaton that a row stands for.
StatesOf(d, row) == {BreadthFirst(d)[s + 1] : s \in row}

LEMMA CompiledAlone ==
  ASSUME NEW d \in Automaton
  PROVE  SearchNet(AddDfa(<<>>, RenameStates(ConvertDfaToGraph(d), MaxStateIndex(<<>>))), d)
  <1> DEFINE plain == ConvertDfaToGraph(d)
             g == RenameStates(plain, 0)
  <1>1. GoodGraph(plain, 0) /\ Len(plain) = Len(BreadthFirst(d)) /\ SameGraph(plain, d, 0, -1)
    BY ConvertedIsGood, ConvertedIsSame
  <1>. HIDE DEF plain
  <1>2. Len(g) = Len(BreadthFirst(d)) /\ SameGraph(g, d, 0, -1)
    <2>1. PICK base \in Nat : base = 0
      OBVIOUS
    <2>2. /\ Len(RenameStates(plain, base)) = Len(plain)
          /\ SameGraph(RenameStates(plain, base), d, 0, base - 1)
      BY <1>1, RenamedIsSame
    <2>3. base - 1 = -1 /\ g = RenameStates(plain, base)
      BY <2>1
    <2>. HIDE DEF g
    <2>. QED
      BY <1>1, <2>2, <2>3
  <1>3. GoodGraph(g, 0)
    BY <1>1, RenamedIsGood
  <1>4. AddDfa(<<>>, RenameStates(plain, MaxStateIndex(<<>>))) = g
    BY DEF AddDfa, MaxStateIndex
  <1>. HIDE DEF g
  <1>. QED
    BY <1>2, <1>3, <1>4 DEF SearchNet, plain

LEMMA SearchEdges ==
  ASSUME NEW d \in Automaton, SearchNet(net, d), NEW b \in Int
  PROVE  /\ Len(BreadthFirst(d)) \in Nat /\ Len(BreadthFirst(d)) >= 1
         /\ NonZero = 1 .. Len(BreadthFirst(d)) - 1
         /\ \A s \in NonZero : \A k \in 0 .. Len(BreadthFirst(d)) - 1 :
              (\E e \in Into(s) : e[1] = k /\ BytesMatch(e[2], b))
                <=> /\ b # 0
                    /\ \E f \in Leaving(d, BreadthFirst(d)[k + 1]) :
                         b \in f[2] /\ f[3] = BreadthFirst(d)[s + 1]
  <1> DEFINE order == BreadthFirst(d)
             m == Len(order)
  <1>1. m \in Nat /\ m >= 1
    BY BreadthFirstFacts
  <1>2. GoodGraph(net, 0) /\ Len(net) = m /\ SameGraph(net, d, 0, -1)
    BY DEF SearchNet
  <1>3. NonZero = 1 .. m - 1
    BY <1>2 DEF NonZero
  <1>. HIDE DEF m, order
  <1>4. ASSUME NEW s \in 1 .. m - 1, NEW k \in 0 .. m - 1
        PROVE  (\E e \in Into(s) : e[1] = k /\ BytesMatch(e[2], b))
                 <=> b # 0 /\ \E f \in Leaving(d, order[k + 1]) : b \in f[2] /\ f[3] = order[s + 1]
    <2>1. /\ k + 1 \in 1 .. m /\ (k + 1) - 1 = k /\ 0 + (k + 1) = k + 1
          /\ s + 1 \in 1 .. m /\ -1 + (s + 1) = s
      BY <1>1
    <2>2. (\E e \in Into(s) : e[1] = k /\ BytesMatch(e[2], b))
            <=> s \in DOMAIN net[k + 1].edges /\ b \in net[k + 1].edges[s] /\ b # 0
      <3>1. PICK j \in 1 .. Len(net) : j = k + 1
        BY <1>2, <2>1
      <3>2. (\E e \in Into(s) : e[1] = j - 1 /\ BytesMatch(e[2], b))
              <=> s \in DOMAIN net[j].edges /\ b \in net[j].edges[s] /\ b # 0
        BY <1>2, EdgesInto
      <3>. QED
        BY <2>1, <3>1, <3>2
    <2>3. SameEdges(net[k + 1].edges, d, k + 1, -1)
      <3>1. SameEdges(net[0 + (k + 1)].edges, d, k + 1, -1)
        BY <1>2, <2>1 DEF SameGraph, m, order
      <3>. QED
        BY <2>1, <3>1
    <2>4. (s \in DOMAIN net[k + 1].edges /\ b \in net[k + 1].edges[s])
            <=> \E f \in Leaving(d, order[k + 1]) : b \in f[2] /\ f[3] = order[s + 1]
      <3>1. PICK t \in 1 .. m : t = s + 1
        BY <2>1
      <3>2. (-1 + t \in DOMAIN net[k + 1].edges /\ b \in net[k + 1].edges[-1 + t])
            <=> \E f \in Leaving(d, order[k + 1]) : b \in f[2] /\ f[3] = order[t]
        BY <2>3 DEF SameEdges, m, order
      <3>. QED
        BY <2>1, <3>1, <3>2
    <2>. QED
      BY <2>2, <2>4
  <1>. QED
    BY <1>1, <1>3, <1>4 DEF m, order

\* The states reached from some states with a byte.
LEMMA SearchedStates ==
  ASSUME NEW d \in Automaton, SearchNet(net, d), NEW b \in Int,
         NEW from \in SUBSET (0 .. Len(BreadthFirst(d)) - 1)
  PROVE  StatesOf(d, {s \in NonZero : \E e \in Into(s) : e[1] \in from /\ BytesMatch(e[2], b)})
           = Onward(d, StatesOf(d, from), b)
  <1> DEFINE order == BreadthFirst(d)
             m == Len(order)
             to == {s \in NonZero : \E e \in Into(s) : e[1] \in from /\ BytesMatch(e[2], b)}
  <1>1. /\ m \in Nat /\ m >= 1 /\ DOMAIN order = 1 .. m /\ order[1] = d.start
        /\ \A j, k \in 1 .. m : order[j] = order[k] => j = k
        /\ \A s \in ToSet(order) : \A e \in Leaving(d, s) : e[3] \in ToSet(order)
    BY BreadthFirstFacts
  <1>2. NonZero = 1 .. m - 1
    BY SearchEdges
  <1>3. \A s \in NonZero : \A k \in 0 .. m - 1 :
          (\E e \in Into(s) : e[1] = k /\ BytesMatch(e[2], b))
            <=> b # 0 /\ \E f \in Leaving(d, order[k + 1]) : b \in f[2] /\ f[3] = order[s + 1]
    BY SearchEdges
  <1>4. \A x : x \in StatesOf(d, from) <=> \E k \in from : x = order[k + 1]
    BY DEF StatesOf
  <1>5. \A x : x \in StatesOf(d, to) <=> \E s \in to : x = order[s + 1]
    BY DEF StatesOf
  <1>6. from \subseteq 0 .. m - 1
    OBVIOUS
  <1>. HIDE DEF m, order
  <1>7. ASSUME NEW x \in StatesOf(d, to) PROVE x \in Onward(d, StatesOf(d, from), b)
    <2>1. PICK s \in to : x = order[s + 1]
      BY <1>5
    <2>2. PICK e \in Into(s) : e[1] \in from /\ BytesMatch(e[2], b)
      BY <2>1
    <2>3. PICK k \in from : k = e[1]
      BY <2>2
    <2>4. s \in NonZero /\ k \in 0 .. m - 1
      BY <1>6, <2>1
    <2>5. b # 0 /\ \E f \in Leaving(d, order[k + 1]) : b \in f[2] /\ f[3] = order[s + 1]
      BY <1>3, <2>2, <2>3, <2>4
    <2>6. PICK f \in d.edges : f[1] = order[k + 1] /\ b \in f[2] /\ f[3] = x
      BY <2>1, <2>5 DEF Leaving
    <2>7. x \in Successors(d, StatesOf(d, from), b)
      BY <1>4, <2>3, <2>6 DEF Successors
    <2>8. x # d.start
      <3>1. s + 1 \in 1 .. m /\ 1 \in 1 .. m /\ s + 1 # 1
        BY <1>1, <1>2, <2>4
      <3>. QED
        BY <1>1, <2>1, <3>1
    <2>. QED
      BY <2>5, <2>7, <2>8 DEF Onward
  <1>8. ASSUME NEW x \in Onward(d, StatesOf(d, from), b) PROVE x \in StatesOf(d, to)
    <2>1. b # 0 /\ x \in Successors(d, StatesOf(d, from), b) /\ x # d.start
      BY DEF Onward
    <2>2. PICK f \in d.edges : f[1] \in StatesOf(d, from) /\ b \in f[2] /\ f[3] = x
      BY <2>1 DEF Successors
    <2>3. PICK k \in from : f[1] = order[k + 1]
      BY <1>4, <2>2
    <2>4. k \in 0 .. m - 1 /\ k + 1 \in 1 .. m
      BY <1>1, <1>6
    <2>5. f \in Leaving(d, order[k + 1])
      BY <2>3 DEF Leaving
    <2>6. x \in ToSet(order)
      <3>1. order[k + 1] \in ToSet(order)
        BY <1>1, <2>4 DEF ToSet
      <3>. QED
        BY <1>1, <2>2, <2>5, <3>1
    <2>7. PICK t \in 1 .. m : x = order[t]
      BY <1>1, <2>6 DEF ToSet
    <2>8. PICK s \in 1 .. m - 1 : s + 1 = t
      <3>1. t # 1
        BY <1>1, <2>1, <2>7
      <3>2. t - 1 \in 1 .. m - 1 /\ (t - 1) + 1 = t
        BY <1>1, <3>1
      <3>. QED
        BY <3>2
    <2>9. \E e \in Into(s) : e[1] = k /\ BytesMatch(e[2], b)
      BY <1>2, <1>3, <2>1, <2>2, <2>4, <2>5, <2>7, <2>8
    <2>10. s \in to
      BY <1>2, <2>9
    <2>. QED
      BY <1>5, <2>7, <2>8, <2>10
  <1>. HIDE DEF to
  <1>9. StatesOf(d, to) = Onward(d, StatesOf(d, from), b)
    BY <1>7, <1>8
  <1>. QED
    BY <1>9 DEF to

LEMMA SearchedRow ==
  ASSUME NEW d \in Automaton, SearchNet(net, d), NEW b \in Int,
         NEW active, active \ {0} \subseteq NonZero
  PROVE  LET continued == Continued(active, b)
             row == continued \cup IF continued = {} THEN Started(b) ELSE {}
         IN /\ row \subseteq NonZero
            /\ StatesOf(d, row) = SearchStep(d, StatesOf(d, active \ {0}), b)
  <1> DEFINE continued == Continued(active, b)
             started == Started(b)
             row == continued \cup IF continued = {} THEN started ELSE {}
             S == StatesOf(d, active \ {0})
  <1>1. /\ Len(BreadthFirst(d)) \in Nat /\ Len(BreadthFirst(d)) >= 1
        /\ NonZero = 1 .. Len(BreadthFirst(d)) - 1
    BY SearchEdges
  <1>2. StatesOf(d, continued) = Onward(d, S, b)
    <2>1. PICK from : from = active \ {0}
      OBVIOUS
    <2>2. from \in SUBSET (0 .. Len(BreadthFirst(d)) - 1)
      <3>1. NonZero \subseteq 0 .. Len(BreadthFirst(d)) - 1
        BY <1>1
      <3>. QED
        BY <2>1, <3>1
    <2>3. continued = {s \in NonZero : \E e \in Into(s) : e[1] \in from /\ BytesMatch(e[2], b)}
      BY <2>1 DEF Continued
    <2>4. StatesOf(d, {s \in NonZero : \E e \in Into(s) : e[1] \in from /\ BytesMatch(e[2], b)})
            = Onward(d, StatesOf(d, from), b)
      BY <2>2, SearchedStates
    <2>. HIDE DEF continued
    <2>. QED
      BY <2>1, <2>3, <2>4
  <1>3. StatesOf(d, started) = Onward(d, {d.start}, b)
    <2>1. PICK from : from = {0}
      OBVIOUS
    <2>2. from \in SUBSET (0 .. Len(BreadthFirst(d)) - 1)
      BY <1>1, <2>1
    <2>3. started = {s \in NonZero : \E e \in Into(s) : e[1] \in from /\ BytesMatch(e[2], b)}
      BY <2>1 DEF Started
    <2>4. StatesOf(d, {s \in NonZero : \E e \in Into(s) : e[1] \in from /\ BytesMatch(e[2], b)})
            = Onward(d, StatesOf(d, from), b)
      BY <2>2, SearchedStates
    <2>5. StatesOf(d, from) = {d.start}
      <3>1. BreadthFirst(d)[0 + 1] = d.start
        BY BreadthFirstFacts
      <3>. QED
        BY <2>1, <3>1 DEF StatesOf
    <2>. HIDE DEF started
    <2>. QED
      BY <2>3, <2>4, <2>5
  <1>4. continued \subseteq NonZero /\ started \subseteq NonZero
    BY DEF Continued, Started
  <1>. HIDE DEF continued, started, S
  <1>5. StatesOf(d, continued) = {} <=> continued = {}
    BY DEF StatesOf
  <1>6. StatesOf(d, row) = SearchStep(d, S, b)
    <2>1. CASE continued = {}
      <3>1. row = started
        BY <2>1
      <3>. HIDE DEF row
      <3>. QED
        BY <1>2, <1>3, <1>5, <2>1, <3>1 DEF SearchStep
    <2>2. CASE continued # {}
      <3>1. row = continued
        BY <2>2
      <3>. HIDE DEF row
      <3>. QED
        BY <1>2, <1>5, <2>2, <3>1 DEF SearchStep
    <2>. QED
      BY <2>1, <2>2
  <1>. QED
    BY <1>4, <1>6 DEF continued, started, S

\* A circuit without anchors accepts where a row has an accepting state, and
\* everywhere if the start is one.
LEMMA AcceptedWithin ==
  ASSUME NEW d \in Automaton, SearchNet(net, d), NEW i \in 0 .. NumBytes,
         NumBytes \in Nat, rows[i + 1] \subseteq NonZero
  PROVE  Accepted(i) <=> \/ i < NumBytes /\ d.start \in d.eoi
                         \/ StatesOf(d, rows[i + 1]) \cap d.eoi # {}
  <1> DEFINE order == BreadthFirst(d)
             m == Len(order)
             row == rows[i + 1]
  <1>1. m \in Nat /\ m >= 1 /\ order[1] = d.start
    BY BreadthFirstFacts
  <1>2. GoodGraph(net, 0) /\ Len(net) = m /\ SameGraph(net, d, 0, -1)
    BY DEF SearchNet
  <1>3. /\ DOMAIN net = 1 .. m
        /\ \A k \in 1 .. m : net[k].id = 0 + k - 1
    BY <1>2, GraphFacts
  <1>4. NonZero = 1 .. m - 1
    BY <1>2 DEF NonZero
  <1>5. \A k \in 1 .. m : net[k].accept <=> order[k] \in d.eoi
    <2>1. \A k \in 1 .. m : net[0 + k].accept <=> order[k] \in d.eoi
      BY <1>2 DEF SameGraph
    <2>2. \A k \in 1 .. m : 0 + k = k
      BY <1>1
    <2>. HIDE DEF m, order
    <2>. QED
      BY <2>1, <2>2
  <1>6. \A x : x \in StatesOf(d, row) <=> \E s \in row : x = order[s + 1]
    BY DEF StatesOf
  <1>7. States(i) = row \cup IF i < NumBytes THEN {0} ELSE {}
    BY DEF States
  <1>8. row \subseteq 1 .. m - 1
    BY <1>4
  <1>. HIDE DEF m, order, row
  <1>9. ASSUME Accepted(i)
        PROVE  (i < NumBytes /\ d.start \in d.eoi) \/ StatesOf(d, row) \cap d.eoi # {}
    <2>1. PICK k \in 1 .. m : net[k].accept /\ net[k].id \in States(i)
      BY <1>3, <1>9 DEF Accepted, AcceptNodes
    <2>2. net[k].id = k - 1 /\ order[k] \in d.eoi /\ (k - 1) + 1 = k
      BY <1>3, <1>5, <2>1
    <2>3. CASE k - 1 \in row
      BY <1>6, <2>2, <2>3
    <2>4. CASE k - 1 \notin row
      <3>1. k - 1 = 0 /\ i < NumBytes
        BY <1>7, <2>1, <2>2, <2>4
      <3>2. k = 1
        BY <3>1
      <3>. QED
        BY <1>1, <2>2, <3>1, <3>2
    <2>. QED
      BY <2>3, <2>4
  <1>10. ASSUME i < NumBytes, d.start \in d.eoi PROVE Accepted(i)
    <2>1. 1 \in 1 .. m /\ 0 + 1 - 1 = 0
      BY <1>1
    <2>2. net[1].id = 0 /\ net[1].accept
      BY <1>1, <1>3, <1>5, <1>10, <2>1
    <2>3. 0 \in States(i)
      BY <1>7, <1>10
    <2>. QED
      BY <1>3, <2>1, <2>2, <2>3 DEF Accepted, AcceptNodes
  <1>11. ASSUME NEW x \in StatesOf(d, row) \cap d.eoi PROVE Accepted(i)
    <2>1. PICK s \in row : x = order[s + 1]
      BY <1>6
    <2>2. s + 1 \in 1 .. m /\ 0 + (s + 1) - 1 = s
      BY <1>1, <1>8
    <2>3. net[s + 1].id = s /\ net[s + 1].accept
      BY <1>3, <1>5, <2>1, <2>2
    <2>4. s \in States(i)
      BY <1>7
    <2>. QED
      BY <1>3, <2>2, <2>3, <2>4 DEF Accepted, AcceptNodes
  <1>12. Accepted(i) <=> (i < NumBytes /\ d.start \in d.eoi) \/ StatesOf(d, row) \cap d.eoi # {}
    BY <1>9, <1>10, <1>11
  <1>. QED
    BY <1>12 DEF row

\* A word without padding stands somewhere in the message.
HasWord(d) ==
  \E i \in 0 .. MsgBytes : \E j \in i .. MsgBytes :
    Unpadded(msg, i, j) /\ Accepts(d, SubSeq(msg, i + 1, j))

\* The rows so far are a search.
RowsSearch(d) ==
  /\ Len(rows) <= NumBytes + 1
  /\ rows[1] = {}
  /\ \A k \in 1 .. Len(rows) : rows[k] \subseteq NonZero
  /\ \A j \in 1 .. Len(rows) - 1 :
       StatesOf(d, rows[j + 1]) = SearchStep(d, StatesOf(d, rows[j]), In[j])

\* With its last row the circuit has searched the message.
LEMMA SearchedMessage ==
  ASSUME NEW d \in Automaton, SearchNet(net, d), msg \in Message, InRange(msg),
         RowsSearch(d), Len(rows) = NumBytes + 1
  PROVE  LET on == [j \in 0 .. MsgBytes |-> StatesOf(d, rows[j + 2])]
         IN /\ IsSearch(d, msg, on)
            /\ IsAccepted <=> \/ d.start \in d.eoi
                              \/ \E j \in 0 .. MsgBytes : on[j] \cap d.eoi # {}
  <1> DEFINE on == [j \in 0 .. MsgBytes |-> StatesOf(d, rows[j + 2])]
  <1>1. /\ MsgBytes \in Nat /\ NumBytes = MsgBytes + 1 /\ NumBytes \in Nat
        /\ Len(msg) = MsgBytes /\ In[1] = StartByte
        /\ \A j \in 1 .. MsgBytes : In[j + 1] = msg[j]
    BY MsgBytesAssumption, InputBytes DEF NumBytes
  <1>2. \A S : Onward(d, S, StartByte) = {}
    <2>1. \A e \in d.edges : StartByte \notin e[2]
      <3>1. d.edges \in SUBSET (Int \X Bytes \X Int)
        BY DEF Automaton
      <3>2. \A e \in d.edges : e[2] \in Bytes
        BY <3>1
      <3>3. \A c \in Bytes : StartByte \notin c
        BY DEF Bytes, StartByte
      <3>. QED
        BY <3>2, <3>3
    <2>. QED
      BY <2>1 DEF Onward, Successors
  <1>3. StatesOf(d, rows[2]) = {}
    <2>1. PICK j \in 1 .. Len(rows) - 1 : j = 1
      BY <1>1
    <2>2. StatesOf(d, rows[j + 1]) = SearchStep(d, StatesOf(d, rows[j]), In[j])
      BY DEF RowsSearch
    <2>3. In[j] = StartByte /\ j + 1 = 2
      BY <1>1, <2>1
    <2>. QED
      BY <1>2, <2>2, <2>3 DEF SearchStep
  <1>4. \A k \in 1 .. Len(rows) : StatesOf(d, rows[k]) \in SUBSET Int
    <2>1. /\ BreadthFirst(d) \in Seq(Int)
          /\ \A k \in 1 .. Len(BreadthFirst(d)) : BreadthFirst(d)[k] \in Int
      BY BreadthFirstFacts
    <2>2. \A s \in NonZero : s + 1 \in 1 .. Len(BreadthFirst(d))
      <3>1. 0 \in Int
        OBVIOUS
      <3>2. Len(BreadthFirst(d)) \in Nat /\ NonZero = 1 .. Len(BreadthFirst(d)) - 1
        BY <3>1, SearchEdges
      <3>. QED
        BY <3>2
    <2>. QED
      BY <2>1, <2>2 DEF StatesOf, RowsSearch
  <1>5. ASSUME NEW j \in 0 .. MsgBytes - 1
        PROVE  StatesOf(d, rows[j + 3]) = SearchStep(d, StatesOf(d, rows[j + 2]), msg[j + 1])
    <2>1. PICK k \in 1 .. Len(rows) - 1 : k = j + 2
      BY <1>1
    <2>2. k + 1 = j + 3 /\ j + 1 \in 1 .. MsgBytes /\ (j + 1) + 1 = k
      BY <1>1, <2>1
    <2>3. In[k] = msg[j + 1]
      BY <1>1, <2>2
    <2>4. StatesOf(d, rows[k + 1]) = SearchStep(d, StatesOf(d, rows[k]), In[k])
      BY DEF RowsSearch
    <2>. QED
      BY <2>1, <2>2, <2>3, <2>4
  <1>6. IsSearch(d, msg, on)
    <2>1. \A j \in 0 .. MsgBytes : j + 2 \in 1 .. Len(rows)
      BY <1>1
    <2>2. on \in [0 .. Len(msg) -> SUBSET Int]
      BY <1>1, <1>4, <2>1
    <2>3. on[0] = {}
      <3>1. 0 \in 0 .. MsgBytes /\ 0 + 2 = 2
        BY <1>1
      <3>. QED
        BY <1>3, <3>1
    <2>4. ASSUME NEW j \in 0 .. Len(msg) - 1 PROVE on[j + 1] = SearchStep(d, on[j], msg[j + 1])
      <3>1. /\ j \in 0 .. MsgBytes - 1 /\ j \in 0 .. MsgBytes /\ j + 1 \in 0 .. MsgBytes
            /\ (j + 1) + 2 = j + 3
        BY <1>1
      <3>2. on[j] = StatesOf(d, rows[j + 2]) /\ on[j + 1] = StatesOf(d, rows[j + 3])
        BY <3>1
      <3>. QED
        BY <1>5, <3>1, <3>2
    <2>. HIDE DEF on
    <2>. QED
      BY <2>2, <2>3, <2>4 DEF IsSearch
  <1>7. ASSUME NEW i \in 0 .. NumBytes
        PROVE  Accepted(i) <=> \/ i < NumBytes /\ d.start \in d.eoi
                               \/ StatesOf(d, rows[i + 1]) \cap d.eoi # {}
    <2>1. i + 1 \in 1 .. Len(rows)
      BY <1>1
    <2>2. rows[i + 1] \subseteq NonZero
      BY <2>1 DEF RowsSearch
    <2>. QED
      BY <1>1, <2>2, AcceptedWithin
  <1>8. ASSUME IsAccepted
        PROVE  d.start \in d.eoi \/ \E j \in 0 .. MsgBytes : on[j] \cap d.eoi # {}
    <2>1. PICK i \in 0 .. NumBytes : Accepted(i)
      BY <1>8 DEF IsAccepted
    <2>2. CASE i = 0
      <3>1. rows[0 + 1] = {}
        BY DEF RowsSearch
      <3>2. StatesOf(d, rows[i + 1]) = {}
        BY <2>2, <3>1 DEF StatesOf
      <3>. QED
        BY <1>7, <2>1, <3>2
    <2>3. CASE i # 0
      <3>1. PICK j \in 0 .. MsgBytes : j = i - 1
        BY <1>1, <2>3
      <3>2. j + 2 = i + 1
        BY <1>1, <3>1
      <3>3. on[j] = StatesOf(d, rows[i + 1])
        BY <3>2
      <3>. QED
        BY <1>7, <2>1, <3>3
    <2>. QED
      BY <2>2, <2>3
  <1>9. ASSUME d.start \in d.eoi PROVE IsAccepted
    <2>1. PICK i \in 0 .. NumBytes : i = 0
      BY <1>1
    <2>2. Accepted(i)
      BY <1>1, <1>7, <1>9, <2>1
    <2>. QED
      BY <2>2 DEF IsAccepted
  <1>10. ASSUME NEW j \in 0 .. MsgBytes, on[j] \cap d.eoi # {} PROVE IsAccepted
    <2>1. PICK i \in 0 .. NumBytes : i = j + 1
      BY <1>1
    <2>2. i + 1 = j + 2
      BY <1>1, <2>1
    <2>3. Accepted(i)
      BY <1>7, <1>10, <2>2
    <2>. QED
      BY <2>3 DEF IsAccepted
  <1>. QED
    BY <1>6, <1>8, <1>9, <1>10

\* A circuit without anchors accepts a message only if a word stands in it,
\* and if it can search for words it accepts every such message.
LEMMA OutFindsWords ==
  ASSUME NEW d \in Automaton, SearchNet(net, d), msg \in Message, InRange(msg),
         RowsSearch(d), Len(rows) = NumBytes + 1, ~ HasDollar
  PROVE  /\ Out = 1 => HasWord(d)
         /\ Searchable(d) /\ HasWord(d) => Out = 1
  <1> DEFINE search == [j \in 0 .. MsgBytes |-> StatesOf(d, rows[j + 2])]
  <1>1. MsgBytes \in Nat /\ msg \in Seq(Int) /\ Len(msg) = MsgBytes
    BY InputBytes
  <1>2. /\ IsSearch(d, msg, search)
        /\ IsAccepted <=> \/ d.start \in d.eoi
                          \/ \E j \in 0 .. MsgBytes : search[j] \cap d.eoi # {}
    BY SearchedMessage
  <1>. HIDE DEF search
  <1>3. PICK on : on = search
    OBVIOUS
  <1>4. Out = 1 <=> IsAccepted
    BY DEF Out
  <1>5. PICK text \in Seq(Int) : text = msg
    BY <1>1
  <1>6. IsSearch(d, text, on)
    BY <1>2, <1>3, <1>5
  <1>7. ASSUME d.start \in d.eoi PROVE HasWord(d)
    <2>1. PICK i \in 0 .. Len(text) : i = 0
      BY <1>1, <1>5
    <2>2. RunFrom(d, SubSeq(text, i + 1, i)) = {d.start}
      BY RunOfStretches
    <2>3. Accepts(d, SubSeq(text, i + 1, i))
      BY <1>7, <2>2 DEF Accepts
    <2>4. Unpadded(text, i, i)
      BY DEF Unpadded
    <2>5. i \in 0 .. MsgBytes /\ i \in i .. MsgBytes
      BY <1>1, <1>5
    <2>. QED
      BY <1>5, <2>3, <2>4, <2>5 DEF HasWord
  <1>8. ASSUME NEW j \in 0 .. MsgBytes, NEW x \in on[j] \cap d.eoi PROVE HasWord(d)
    <2>1. j \in 0 .. Len(text)
      BY <1>1, <1>5
    <2>2. PICK i \in 0 .. j : Unpadded(text, i, j) /\ x \in RunFrom(d, SubSeq(text, i + 1, j))
      BY <1>6, <2>1, SearchIsSound
    <2>3. Accepts(d, SubSeq(text, i + 1, j))
      BY <2>2 DEF Accepts
    <2>4. i \in 0 .. MsgBytes /\ j \in i .. MsgBytes
      BY <1>1
    <2>. QED
      BY <1>5, <2>2, <2>3, <2>4 DEF HasWord
  <1>9. ASSUME Searchable(d), HasWord(d) PROVE IsAccepted
    <2>1. PICK i \in 0 .. Len(text) : \E j \in i .. Len(text) :
            Unpadded(text, i, j) /\ Accepts(d, SubSeq(text, i + 1, j))
      BY <1>1, <1>5, <1>9 DEF HasWord
    <2>2. PICK j \in i .. Len(text) : Unpadded(text, i, j) /\ Accepts(d, SubSeq(text, i + 1, j))
      BY <2>1
    <2>3. d.start \in d.eoi \/ \E k \in 0 .. Len(text) : on[k] \cap d.eoi # {}
      BY <1>6, <1>9, <2>2, SearchIsComplete
    <2>. QED
      BY <1>1, <1>2, <1>3, <1>5, <2>3
  <1>. QED
    BY <1>2, <1>3, <1>4, <1>7, <1>8, <1>9

-----------------------------------------------------------------------------
Searched == Len(parts) = 1 /\ parts[1].caret = "none" /\ ~ parts[1].dollar

SearchedNet == SearchNet(net, parts[1].dfa)
SearchedRows == RowsSearch(parts[1].dfa)
SearchedOut ==
  /\ out = 1 => HasWord(parts[1].dfa)
  /\ Searchable(parts[1].dfa) /\ HasWord(parts[1].dfa) => out = 1

\* While a regex of one part without anchors is compiled and searched for.
SearchedInv ==
  /\ stage \in {"parts", "bytes", "finished"} /\ config[1].caret = "none" => parts = config
  /\ Searched =>
       /\ stage = "parts" => (next = 1 /\ net = <<>>) \/ (next = 2 /\ SearchedNet)
       /\ stage = "bytes" => SearchedNet /\ InRange(msg) /\ SearchedRows
       /\ stage = "finished" => SearchedOut

LEMMA AutomatonOfSearched ==
  ASSUME RegexInv, Searched
  PROVE  parts[1].dfa \in Automaton
  <1>1. parts \in Seq(Part)
    BY DEF RegexInv
  <1>2. parts[1] \in Part
    <2>1. \A k \in 1 .. Len(parts) : parts[k] \in Part
      BY <1>1
    <2>2. 1 \in 1 .. Len(parts)
      BY DEF Searched
    <2>. QED
      BY <2>1, <2>2
  <1>. QED
    BY <1>2 DEF Part

\* Nothing is asked of the other stages.
LEMMA OtherStagesKeepSearched ==
  ASSUME stage' \notin {"parts", "bytes", "finished"}
  PROVE  SearchedInv'
  BY DEF SearchedInv

LEMMA CaretKeepsSearched ==
  ASSUME AnchoredInv, ProcessCaret
  PROVE  SearchedInv'
  <1>1. /\ stage = "caret" /\ stage' = "parts"
        /\ config[1].caret = "none" => parts' = config
        /\ UNCHANGED <<config, next, net>>
    BY DEF ProcessCaret
  <1>2. next' = 1 /\ net' = <<>>
    BY <1>1 DEF AnchoredInv
  <1>3. config'[1].caret = "none" => parts' = config'
    BY <1>1
  <1>4. stage' # "bytes" /\ stage' # "finished"
    BY <1>1
  <1>. QED
    BY <1>2, <1>3, <1>4 DEF SearchedInv

LEMMA PartKeepsSearched ==
  ASSUME RegexInv, SearchedInv, CompilePart
  PROVE  SearchedInv'
  <1>0. /\ stage = "parts" /\ next <= Len(parts)
        /\ UNCHANGED <<config, parts>>
    BY DEF CompilePart
  <1>1. CASE PartFails(next)
    <2>1. stage' = "error"
      BY <1>1 DEF CompilePart
    <2>. QED
      BY <2>1, OtherStagesKeepSearched
  <1>2. CASE ~ PartFails(next)
    <2> DEFINE glued == AddDfa(net, RenameStates(PartGraph(next), MaxStateIndex(net)))
    <2>1. net' = glued /\ next' = next + 1 /\ stage' = "parts"
      BY <1>0, <1>2 DEF CompilePart
    <2>. HIDE DEF glued
    <2>2. ASSUME Searched PROVE next' = 2 /\ SearchedNet'
      <3>1. PICK d \in Automaton : d = parts[1].dfa
        BY <2>2, AutomatonOfSearched
      <3>2. next = 1 /\ net = <<>>
        BY <1>0, <2>2 DEF SearchedInv, Searched
      <3>3. PartGraph(next) = ConvertDfaToGraph(d)
        BY <2>2, <3>1, <3>2 DEF PartGraph, Searched
      <3>4. SearchNet(glued, d)
        BY <3>2, <3>3, CompiledAlone DEF glued
      <3>5. SearchNet(net', parts'[1].dfa)
        BY <1>0, <2>1, <3>1, <3>4
      <3>. QED
        BY <2>1, <3>2, <3>5 DEF SearchedNet, SearchNet, SameGraph, SameEdges
    <2>3. config[1].caret = "none" => parts = config
      BY <1>0 DEF SearchedInv
    <2>4. Searched' <=> Searched
      BY <1>0 DEF Searched
    <2>. QED
      BY <1>0, <2>1, <2>2, <2>3, <2>4 DEF SearchedInv
  <1>. QED
    BY <1>1, <1>2

LEMMA CircuitKeepsSearched ==
  ASSUME RegexInv, AnchoredInv, SearchedInv, GenerateCircuit
  PROVE  SearchedInv'
  <1>1. /\ stage = "parts" /\ next > Len(parts)
        /\ UNCHANGED <<config, parts, net, rows>>
        /\ \/ stage' = "error"
           \/ stage' = IF InRange(msg') THEN "bytes" ELSE "unsatisfied"
    BY DEF GenerateCircuit, compiled
  <1>2. CASE stage' # "bytes"
    BY <1>1, <1>2, OtherStagesKeepSearched
  <1>3. CASE stage' = "bytes"
    <2>1. InRange(msg')
      BY <1>1, <1>3
    <2>2. ASSUME Searched
          PROVE  SearchedNet' /\ SearchedRows'
      <3>1. SearchedNet /\ rows = <<{}>>
        BY <1>1, <2>2 DEF SearchedInv, AnchoredInv, Searched
      <3>2. Len(rows') = 1 /\ rows'[1] = {} /\ NumBytes' \in Nat
        BY <1>1, <3>1, MsgBytesAssumption DEF NumBytes
      <3>3. 1 .. Len(rows') - 1 = {} /\ \A k \in 1 .. Len(rows') : rows'[k] = {}
        BY <3>2
      <3>4. SearchedRows'
        BY <3>2, <3>3 DEF SearchedRows, RowsSearch
      <3>5. SearchedNet' <=> SearchedNet
        BY <1>1 DEF SearchedNet
      <3>. QED
        BY <3>1, <3>4, <3>5
    <2>3. Searched' <=> Searched
      BY <1>1 DEF Searched
    <2>4. config[1].caret = "none" => parts = config
      BY <1>1 DEF SearchedInv
    <2>. QED
      BY <1>1, <1>3, <2>1, <2>2, <2>3, <2>4 DEF SearchedInv
  <1>. QED
    BY <1>2, <1>3

LEMMA RowsKeepSearched ==
  ASSUME RegexInv, SearchedInv, ReadByte
  PROVE  SearchedInv'
  <1>1. /\ stage = "bytes" /\ stage' = "bytes"
        /\ UNCHANGED <<config, parts, net, msg>>
    BY DEF ReadByte, compiled
  <1>2. ASSUME Searched, NEW d \in Automaton, d = parts[1].dfa
        PROVE  SearchNet(net, d) /\ InRange(msg) /\ RowsSearch(d)'
    <2> DEFINE i == Len(rows) - 1
               b == In[i + 1]
               active == States(i)
               continued == Continued(active, b)
               row == continued \cup IF continued = {} THEN Started(b) ELSE {}
    <2>1. SearchNet(net, d) /\ InRange(msg) /\ RowsSearch(d) /\ msg \in Message
      BY <1>1, <1>2 DEF SearchedInv, SearchedNet, SearchedRows, RegexInv
    <2>2. i < NumBytes /\ rows' = Append(rows, row)
      BY DEF ReadByte
    <2>3. /\ rows \in Seq(SUBSET Nat) /\ Len(rows) \in Nat /\ Len(rows) >= 1
          /\ NumBytes \in Nat /\ NumBytes = MsgBytes + 1 /\ i + 1 = Len(rows)
      <3>1. rows \in Seq(SUBSET Nat) /\ rows # <<>>
        BY DEF RegexInv
      <3>. QED
        BY <3>1, MsgBytesAssumption DEF NumBytes
    <2>4. b \in Int
      <3>1. In \in Seq(Int) /\ Len(In) = MsgBytes + 1
        BY <2>1, InputBytes
      <3>2. i + 1 \in 1 .. Len(In)
        BY <2>2, <2>3, <3>1
      <3>. QED
        BY <3>1, <3>2
    <2>5. 0 \notin NonZero /\ rows[Len(rows)] \subseteq NonZero
      <3>1. 0 \notin NonZero
        BY <2>1, <2>4, SearchEdges
      <3>. QED
        BY <2>1, <2>3, <3>1 DEF RowsSearch
    <2>6. active \ {0} = rows[Len(rows)]
      BY <2>3, <2>5 DEF States
    <2>7. row \subseteq NonZero /\ StatesOf(d, row) = SearchStep(d, StatesOf(d, active \ {0}), b)
      <3>1. PICK on : on = active
        OBVIOUS
      <3>2. PICK c \in Int : c = b
        BY <2>4
      <3>3. on \ {0} \subseteq NonZero
        BY <2>5, <2>6, <3>1
      <3> DEFINE next2 == Continued(on, c) \cup IF Continued(on, c) = {} THEN Started(c) ELSE {}
      <3>4. next2 \subseteq NonZero /\ StatesOf(d, next2) = SearchStep(d, StatesOf(d, on \ {0}), c)
        BY <2>1, <3>3, SearchedRow
      <3>. QED
        BY <3>1, <3>2, <3>4
    <2>. HIDE DEF row, active, b, continued
    <2>8. /\ Len(rows') = Len(rows) + 1 /\ Len(rows') <= NumBytes + 1
          /\ rows'[Len(rows) + 1] = row
          /\ \A k \in 1 .. Len(rows) : rows'[k] = rows[k]
      BY <2>2, <2>3
    <2>9. NonZero' = NonZero /\ In' = In /\ NumBytes' = NumBytes
      BY <1>1 DEF NonZero, In, NumBytes
    <2>10. rows'[1] = {}
      BY <2>1, <2>3, <2>8 DEF RowsSearch
    <2>11. ASSUME NEW k \in 1 .. Len(rows') PROVE rows'[k] \subseteq NonZero
      <3>1. k \in 1 .. Len(rows) \/ k = Len(rows) + 1
        BY <2>3, <2>8
      <3>. QED
        BY <2>1, <2>7, <2>8, <3>1 DEF RowsSearch
    <2>12. ASSUME NEW j \in 1 .. Len(rows') - 1
           PROVE  StatesOf(d, rows'[j + 1]) = SearchStep(d, StatesOf(d, rows'[j]), In[j])
      <3>1. CASE j = Len(rows)
        <4>1. rows'[j + 1] = row /\ rows'[j] = rows[Len(rows)] /\ In[j] = b
          BY <2>3, <2>8, <3>1 DEF b
        <4>. QED
          BY <2>6, <2>7, <4>1
      <3>2. CASE j # Len(rows)
        <4>0. j \in 1 .. Len(rows') - 1 /\ Len(rows') = Len(rows) + 1 /\ Len(rows) \in Nat
          BY <2>3, <2>8
        <4>1. j \in 1 .. Len(rows) - 1 /\ j \in 1 .. Len(rows) /\ j + 1 \in 1 .. Len(rows)
          BY ONLY <3>2, <4>0
        <4>. QED
          BY <2>1, <2>8, <4>1 DEF RowsSearch
      <3>. QED
        BY <3>1, <3>2
    <2>13. RowsSearch(d)'
      BY <2>8, <2>9, <2>10, <2>11, <2>12 DEF RowsSearch, StatesOf
    <2>. QED
      BY <2>1, <2>13
  <1>3. ASSUME Searched
        PROVE  SearchedNet' /\ InRange(msg') /\ SearchedRows'
    <2>1. PICK d \in Automaton : d = parts[1].dfa
      BY <1>3, AutomatonOfSearched
    <2>2. SearchNet(net, d) /\ InRange(msg) /\ RowsSearch(d)'
      BY <1>2, <1>3, <2>1
    <2>3. d = parts'[1].dfa
      BY <1>1, <2>1
    <2>4. SearchedNet' <=> SearchedNet
      BY <1>1 DEF SearchedNet
    <2>5. SearchedRows' <=> RowsSearch(d)'
      BY <2>3 DEF SearchedRows, RowsSearch
    <2>. QED
      BY <1>1, <2>1, <2>2, <2>4, <2>5 DEF SearchedNet
  <1>4. Searched' <=> Searched
    BY <1>1 DEF Searched
  <1>. QED
    BY <1>1, <1>3, <1>4 DEF SearchedInv

LEMMA FinishKeepsSearched ==
  ASSUME RegexInv, SearchedInv, Finish
  PROVE  SearchedInv'
  <1>1. /\ stage = "bytes" /\ Len(rows) = NumBytes + 1
        /\ out' = Out /\ stage' = "finished"
        /\ UNCHANGED <<config, parts, msg>>
    BY DEF Finish, compiled
  <1>2. ASSUME Searched, NEW d \in Automaton, d = parts[1].dfa
        PROVE  /\ out' = 1 => HasWord(d)
               /\ Searchable(d) /\ HasWord(d) => out' = 1
    <2>1. SearchNet(net, d) /\ InRange(msg) /\ RowsSearch(d) /\ msg \in Message
      BY <1>1, <1>2 DEF SearchedInv, SearchedNet, SearchedRows, RegexInv
    <2>2. ~ HasDollar
      BY <1>2 DEF HasDollar, Searched
    <2>. QED
      BY <1>1, <2>1, <2>2, OutFindsWords
  <1>3. ASSUME Searched
        PROVE  /\ out' = 1 => HasWord(parts[1].dfa)
               /\ Searchable(parts[1].dfa) /\ HasWord(parts[1].dfa) => out' = 1
    <2>1. PICK d \in Automaton : d = parts[1].dfa
      BY <1>3, AutomatonOfSearched
    <2>. QED
      BY <1>2, <1>3, <2>1
  <1>4. /\ Searched' <=> Searched
        /\ HasWord(parts[1].dfa)' <=> HasWord(parts[1].dfa)
        /\ Searchable(parts[1].dfa)' <=> Searchable(parts[1].dfa)
    BY <1>1 DEF Searched, HasWord, Unpadded
  <1>. QED
    BY <1>1, <1>3, <1>4 DEF SearchedInv, SearchedOut

LEMMA SearchedInvIsInductive ==
  ASSUME RegexInv, AnchoredInv, SearchedInv, [Next]_vars
  PROVE  SearchedInv'
  <1>1. CASE UNCHANGED vars
    <2>1. UNCHANGED <<config, parts, next, net, stage, msg, rows, out>>
      BY <1>1 DEF vars, circuitVars, compiled, signals
    <2>2. /\ Searched' <=> Searched
          /\ SearchedNet' <=> SearchedNet
          /\ SearchedRows' <=> SearchedRows
          /\ SearchedOut' <=> SearchedOut
      BY <2>1 DEF Searched, SearchedNet, SearchedOut, HasWord, Unpadded, SearchedRows,
                  RowsSearch, NumBytes, NonZero, In, StatesOf
    <2>. QED
      BY <2>1, <2>2 DEF SearchedInv
  <1>2. CASE CircuitStep
    BY <1>2, CaretKeepsSearched, PartKeepsSearched, CircuitKeepsSearched, RowsKeepSearched,
       FinishKeepsSearched DEF CircuitStep
  <1>3. CASE ConstrainExpected \/ CompileDecomposed
    <2>1. stage' \in {"done", "caret"}
      BY <1>3 DEF ConstrainExpected, CompileDecomposed, Compile
    <2>. QED
      BY <2>1, OtherStagesKeepSearched
  <1>4. CASE BuildRule \/ CombineCondition
    <2>1. stage' \in {"error", "combined", "caret"}
      BY <1>4 DEF BuildRule, CombineCondition, Compile
    <2>. QED
      BY <2>1, OtherStagesKeepSearched
  <1>. QED
    BY <1>1, <1>2, <1>3, <1>4 DEF Next, PolicyStep

LEMMA SearchedInvHolds == Spec => [](AnchoredInv /\ SearchedInv)
  <1>1. Init => AnchoredInv /\ SearchedInv
    BY DEF Init, CircuitInit, AnchoredInv, SearchedInv
  <1>. QED
    BY <1>1, RegexInvHolds, AnchoredInvIsInductive, SearchedInvIsInductive, PTL DEF Spec

-----------------------------------------------------------------------------
\* The message that was matched is the one of all circuits.
MessageInv ==
  stage \in {"bytes", "finished"} \/ outputs # <<>> => msg \in Message /\ InRange(msg)

LEMMA MessageIsGiven == \A m \in Message : m # NoMessage
  <1>. SUFFICES ASSUME NEW m \in Message PROVE m # NoMessage
    OBVIOUS
  <1>1. DOMAIN m = 1 .. MsgBytes /\ 1 \in 1 .. MsgBytes
    BY MsgBytesAssumption DEF Message
  <1>2. DOMAIN NoMessage = {}
    BY DEF NoMessage
  <1>. QED
    BY <1>1, <1>2

LEMMA MessageStays ==
  ASSUME msg \in Message, [Next]_vars
  PROVE  msg' = msg
  <1>1. CASE UNCHANGED vars
    BY <1>1 DEF vars, circuitVars, signals
  <1>2. CASE CompileDecomposed \/ BuildRule \/ CombineCondition \/ ConstrainExpected
    BY <1>2 DEF CompileDecomposed, BuildRule, CombineCondition, ConstrainExpected, Compile, signals
  <1>3. CASE ProcessCaret \/ CompilePart \/ ReadByte \/ Finish
    BY <1>3 DEF ProcessCaret, CompilePart, ReadByte, Finish, signals
  <1>4. CASE GenerateCircuit
    BY <1>4, MessageIsGiven DEF GenerateCircuit
  <1>. QED
    BY <1>1, <1>2, <1>3, <1>4 DEF Next, CircuitStep, PolicyStep

LEMMA MessageInvIsInductive ==
  ASSUME RegexInv, MessageInv, [Next]_vars
  PROVE  MessageInv'
  <1>0. ASSUME msg \in Message, InRange(msg) PROVE MessageInv'
    <2>1. msg' = msg
      BY <1>0, MessageStays
    <2>. QED
      BY <1>0, <2>1 DEF MessageInv, Message, InRange
  <1>1. CASE stage \in {"bytes", "finished"} \/ outputs # <<>>
    BY <1>0, <1>1 DEF MessageInv
  <1>2. CASE stage \notin {"bytes", "finished"} /\ outputs = <<>>
    <2>1. CASE UNCHANGED vars
      BY <1>2, <2>1 DEF MessageInv, vars, circuitVars, policyVars
    <2>2. CASE CircuitStep /\ UNCHANGED policyVars
      <3>1. outputs' = <<>>
        BY <1>2, <2>2 DEF policyVars
      <3>2. CASE stage' \notin {"bytes", "finished"}
        BY <3>1, <3>2 DEF MessageInv
      <3>3. CASE stage' \in {"bytes", "finished"}
        <4>1. GenerateCircuit
          BY <1>2, <2>2, <3>3 DEF CircuitStep, ProcessCaret, CompilePart, ReadByte, Finish
        <4>2. msg \in Message \cup {NoMessage}
          BY DEF RegexInv
        <4>3. InRange(msg') /\ msg' \in IF msg = NoMessage THEN Message ELSE {msg}
          BY <3>3, <4>1 DEF GenerateCircuit
        <4>4. msg' \in Message
          BY <4>2, <4>3
        <4>. QED
          BY <4>3, <4>4 DEF MessageInv, Message, InRange
      <3>. QED
        BY <3>2, <3>3
    <2>3. CASE CompileDecomposed \/ BuildRule \/ ConstrainExpected
      <3>1. outputs' = <<>> /\ stage' \notin {"bytes", "finished"}
        BY <1>2, <2>3 DEF CompileDecomposed, BuildRule, ConstrainExpected, Compile, policyVars
      <3>. QED
        BY <3>1 DEF MessageInv
    <2>4. CASE CombineCondition
      BY <1>2, <2>4 DEF CombineCondition, Finished
    <2>. QED
      BY <2>1, <2>2, <2>3, <2>4 DEF Next, PolicyStep
  <1>. QED
    BY <1>1, <1>2

LEMMA MessageInvHolds == Spec => []MessageInv
  <1>1. Init => MessageInv
    BY DEF Init, CircuitInit, PolicyInit, MessageInv
  <1>. QED
    BY <1>1, RegexInvHolds, MessageInvIsInductive, PTL DEF Spec

-----------------------------------------------------------------------------
\* In a text, what has no padding is what does not go beyond the text.
LEMMA WordsOfTexts ==
  ASSUME NEW d, msg \in Message, InRange(msg), NEW n \in 0 .. MsgBytes, IsText(n)
  PROVE  /\ Len(Text(n)) = n
         /\ HasWord(d) <=> \E i \in 0 .. n : EndsOf(d, Text(n), i) # {}
         /\ Accepts(d, Text(n)) <=> Len(Text(n)) \in EndsOf(d, Text(n), 0)
  <1>1. MsgBytes \in Nat /\ msg \in Seq(Int) /\ Len(msg) = MsgBytes
    BY InputBytes
  <1> DEFINE word == Text(n)
  <1>2. Len(word) = n /\ word \in Seq(Int) /\ \A k \in 1 .. n : word[k] = msg[k]
    <2>1. PICK i \in 0 .. Len(msg) : i = 0
      BY <1>1
    <2>2. n \in i .. Len(msg) /\ n - i = n /\ i + 1 = 1 /\ \A k \in 1 .. n : i + k = k
      BY <1>1, <2>1
    <2>3. /\ Len(SubSeq(msg, i + 1, n)) = n - i
          /\ SubSeq(msg, i + 1, n) \in Seq(Int)
          /\ \A k \in 1 .. n - i : SubSeq(msg, i + 1, n)[k] = msg[i + k]
      BY <1>1, <2>2, StretchFacts
    <2>4. word = SubSeq(msg, i + 1, n)
      BY <2>2 DEF Text
    <2>. HIDE DEF word
    <2>. QED
      BY <2>2, <2>3, <2>4
  <1>. HIDE DEF word
  <1>3. ASSUME NEW i \in 0 .. n, NEW j \in i .. n
        PROVE  Accepts(d, SubSeq(word, i + 1, j)) <=> Accepts(d, SubSeq(msg, i + 1, j))
    <2> DEFINE v == SubSeq(word, i + 1, j)
               w == SubSeq(msg, i + 1, j)
    <2>1. i \in 0 .. Len(word) /\ j \in i .. Len(word) /\ i \in 0 .. Len(msg) /\ j \in i .. Len(msg)
      BY <1>1, <1>2
    <2>2. /\ Len(v) = j - i /\ j - i \in Nat
          /\ \A k \in 1 .. j - i : v[k] = word[i + k]
      BY <1>2, <2>1, StretchFacts
    <2>3. Len(w) = j - i /\ \A k \in 1 .. j - i : w[k] = msg[i + k]
      BY <1>1, <2>1, StretchFacts
    <2>4. \A k \in 1 .. j - i : i + k \in 1 .. n
      OBVIOUS
    <2>. HIDE DEF v, w
    <2>5. \A k \in 1 .. j - i : v[k] = w[k]
      BY <1>2, <2>2, <2>3, <2>4
    <2>6. PICK N \in Nat : N = j - i
      BY <2>2
    <2>7. Runs(d, v)[N] = Runs(d, w)[N]
      <3>1. \A k \in 1 .. N : v[k] = w[k]
        BY <2>5, <2>6
      <3>2. \A k \in 0 .. N : Runs(d, v)[k] = Runs(d, w)[k]
        BY ONLY <3>1, RunsAgree
      <3>3. N \in 0 .. N
        OBVIOUS
      <3>. QED
        BY ONLY <3>2, <3>3
    <2>. QED
      BY <2>2, <2>3, <2>6, <2>7 DEF Accepts, RunFrom, v, w
  <1>4. \A i, j : j \in EndsOf(d, word, i)
          <=> j \in i .. n /\ Accepts(d, SubSeq(word, i + 1, j))
    BY <1>2 DEF EndsOf
  <1>5. ASSUME HasWord(d) PROVE \E i \in 0 .. n : EndsOf(d, word, i) # {}
    <2>1. PICK i \in 0 .. MsgBytes : \E j \in i .. MsgBytes :
            Unpadded(msg, i, j) /\ Accepts(d, SubSeq(msg, i + 1, j))
      BY <1>5 DEF HasWord
    <2>2. PICK j \in i .. MsgBytes : Unpadded(msg, i, j) /\ Accepts(d, SubSeq(msg, i + 1, j))
      BY <2>1
    <2>3. CASE i < j
      <3>1. j \in i + 1 .. j /\ j \in 1 .. MsgBytes
        BY <1>1, <2>3
      <3>2. msg[j] # 0
        BY <2>2, <3>1 DEF Unpadded
      <3>3. j <= n
        BY <3>1, <3>2 DEF IsText
      <3>4. i \in 0 .. n /\ j \in i .. n
        BY <2>3, <3>3
      <3>. QED
        BY <1>3, <1>4, <2>2, <3>4
    <2>4. CASE i = j
      <3>1. PICK k \in 0 .. n : k = 0
        OBVIOUS
      <3>2. i \in 0 .. Len(msg) /\ k \in 0 .. Len(msg) /\ k \in k .. n
        BY <1>1, <3>1
      <3>3. /\ RunFrom(d, SubSeq(msg, i + 1, i)) = {d.start}
            /\ RunFrom(d, SubSeq(msg, k + 1, k)) = {d.start}
        BY <1>1, <3>2, RunOfStretches
      <3>4. Accepts(d, SubSeq(msg, k + 1, k))
        BY <2>2, <2>4, <3>3 DEF Accepts
      <3>. QED
        BY <1>3, <1>4, <3>2, <3>4
    <2>5. i <= j
      BY <1>1
    <2>. QED
      BY <1>1, <2>3, <2>4, <2>5
  <1>6. ASSUME NEW i \in 0 .. n, NEW j \in EndsOf(d, word, i) PROVE HasWord(d)
    <2>1. j \in i .. n /\ Accepts(d, SubSeq(msg, i + 1, j))
      BY <1>3, <1>4
    <2>2. i \in 0 .. MsgBytes /\ j \in i .. MsgBytes
      BY <1>1, <2>1
    <2>3. \A k \in i + 1 .. j : msg[k] # 0
      <3>1. \A k \in i + 1 .. j : k \in 1 .. MsgBytes /\ k <= n
        BY <1>1, <2>1
      <3>. QED
        BY <3>1 DEF IsText
    <2>. QED
      BY <2>1, <2>2, <2>3 DEF HasWord, Unpadded
  <1>7. Accepts(d, word) <=> Len(word) \in EndsOf(d, word, 0)
    <2>1. PICK i \in 0 .. n : i = 0
      OBVIOUS
    <2>2. n \in i .. n /\ i + 1 = 1
      BY <2>1
    <2>3. SubSeq(msg, i + 1, n) = word
      BY <2>2 DEF word, Text
    <2>. QED
      BY <1>2, <1>3, <1>4, <2>1, <2>2, <2>3
  <1>. QED
    BY <1>2, <1>5, <1>6, <1>7 DEF word

\* A circuit without anchors accepts whatever has a word in it, wherever the
\* word stands, for every automaton whose attempts are short: the row that
\* loses a match starts the next one at the byte it was lost on, and while an
\* attempt goes on it is as good as what it hides.
THEOREM ShortWordsFound == Spec => []ShortWordsAreFound
  <1>1. RegexInv /\ MessageInv /\ SearchedInv => ShortWordsAreFound
    <2>. SUFFICES ASSUME RegexInv, MessageInv, SearchedInv,
                         Finished, Len(parts) = 1, parts[1].caret = "none", ~ HasDollar,
                         ShortWords(parts[1].dfa),
                         NEW i \in 0 .. MsgBytes,
                         EndsOf(parts[1].dfa, Text(TextLength), i) # {}, IsText(TextLength)
                  PROVE  out = 1
      BY DEF ShortWordsAreFound
    <2>1. Searched
      BY DEF Searched, HasDollar
    <2>2. PICK d \in Automaton : d = parts[1].dfa
      BY <2>1, AutomatonOfSearched
    <2>3. msg \in Message /\ InRange(msg)
      BY DEF MessageInv, Finished
    <2>4. PICK n \in 0 .. MsgBytes : n = TextLength
      BY <2>3, TextEnds
    <2>5. /\ Len(Text(n)) = n
          /\ HasWord(d) <=> \E k \in 0 .. n : EndsOf(d, Text(n), k) # {}
      BY <2>3, <2>4, WordsOfTexts
    <2>6. i \in 0 .. n
      <3>1. PICK j \in i .. n : TRUE
        BY <2>2, <2>4, <2>5 DEF EndsOf
      <3>. QED
        BY <3>1
    <2>7. HasWord(d) /\ Searchable(d)
      BY <2>2, <2>4, <2>5, <2>6, ShortWordsAreSearchable
    <2>. QED
      BY <2>1, <2>2, <2>7 DEF SearchedInv, SearchedOut, Finished
  <1>. QED
    BY <1>1, RegexInvHolds, MessageInvHolds, SearchedInvHolds, PTL

-----------------------------------------------------------------------------
\* What a circuit is to say about the message: whether it is a word of the
\* automaton, or whether a word of it stands in the message.
IsWordOf(d) == \E n \in 0 .. MsgBytes - 1 : IsText(n) /\ Accepts(d, Text(n))
Judged(c, bit) ==
  \A d \in Automaton :
    /\ c.regex = WholeText(d) =>
         (bit = 1 <=> IF c.negate THEN ~ IsWordOf(d) ELSE IsWordOf(d))
    /\ c.regex = Anywhere(d) /\ Searchable(d) =>
         (bit = 1 <=> IF c.negate THEN ~ HasWord(d) ELSE HasWord(d))

LEMMA RegexesOfConditions ==
  ASSUME NEW d \in Automaton
  PROVE  /\ Len(WholeText(d)) = 1 /\ WholeText(d)[1].caret = "bare"
         /\ WholeText(d)[1].dollar /\ WholeText(d)[1].dfa = d
         /\ Len(Anywhere(d)) = 1 /\ Anywhere(d)[1].caret = "none"
         /\ ~ Anywhere(d)[1].dollar /\ Anywhere(d)[1].dfa = d
  BY DEF WholeText, Anywhere

LEMMA OutIsJudged ==
  ASSUME RegexInv, AnchoredInv, SearchedInv, Finished, NEW k, config = conditions[k].regex
  PROVE  Judged(conditions[k], ConditionOut(k))
  <1>0. ConditionOut(k) = 1 <=> IF conditions[k].negate THEN out # 1 ELSE out = 1
    <2>1. out \in {0, 1}
      BY DEF RegexInv
    <2>. QED
      BY <2>1 DEF ConditionOut
  <1>1. ASSUME NEW d \in Automaton, conditions[k].regex = WholeText(d)
        PROVE  out = 1 <=> IsWordOf(d)
    <2>1. Anchored /\ config[1].dfa = d
      BY <1>1, RegexesOfConditions DEF Anchored
    <2>. QED
      BY <2>1 DEF AnchoredInv, Finished, IsWord, IsWordOf
  <1>2. ASSUME NEW d \in Automaton, conditions[k].regex = Anywhere(d), Searchable(d)
        PROVE  out = 1 <=> HasWord(d)
    <2>1. config[1].caret = "none" /\ config = Anywhere(d)
      BY <1>2, RegexesOfConditions
    <2>2. parts = config
      BY <2>1 DEF SearchedInv, Finished
    <2>3. Searched /\ parts[1].dfa = d
      BY <2>1, <2>2, RegexesOfConditions DEF Searched
    <2>. QED
      BY <1>2, <2>3 DEF SearchedInv, SearchedOut, Finished
  <1>. HIDE DEF ConditionOut
  <1>. QED
    BY <1>0, <1>1, <1>2 DEF Judged

\* While the circuits of a policy are evaluated, one after the other.
PolicyInv ==
  /\ stage = "idle" => outputs = <<>>
  /\ rule # NoRule /\ stage \in {"caret", "parts", "bytes", "finished"} =>
       /\ conditions = ExtractLookaheads(rule)
       /\ Len(outputs) < Len(conditions)
       /\ config = conditions[Len(outputs) + 1].regex
  /\ stage \in {"combined", "done"} =>
       /\ rule # NoRule
       /\ conditions = ExtractLookaheads(rule)
       /\ Len(outputs) = Len(conditions) /\ outputs # <<>>
  /\ \A k \in 1 .. Len(outputs) : Judged(conditions[k], outputs[k])
  /\ stage = "done" /\ statement.holds => statement.expected = RegexMatch

JudgedSoFar == \A k \in 1 .. Len(outputs) : Judged(conditions[k], outputs[k])

LEMMA JudgedStays ==
  ASSUME MessageInv, JudgedSoFar, [Next]_vars, outputs' = outputs, conditions' = conditions
  PROVE  JudgedSoFar'
  <1>1. CASE outputs = <<>>
    BY <1>1 DEF JudgedSoFar
  <1>2. CASE outputs # <<>>
    <2>1. msg' = msg
      BY <1>2, MessageStays DEF MessageInv
    <2>2. \A k : Judged(conditions[k], outputs[k])' <=> Judged(conditions[k], outputs[k])
      BY <2>1 DEF Judged, IsWordOf, HasWord, IsText, Text, Unpadded
    <2>. QED
      BY <2>2 DEF JudgedSoFar
  <1>. QED
    BY <1>1, <1>2

LEMMA CircuitKeepsPolicy ==
  ASSUME MessageInv, PolicyInv, CircuitStep, UNCHANGED policyVars
  PROVE  PolicyInv'
  <1>1. /\ stage \in {"caret", "parts", "bytes"}
        /\ stage' \in {"parts", "bytes", "finished", "error", "unsatisfied"}
        /\ config' = config
    BY DEF CircuitStep, ProcessCaret, CompilePart, GenerateCircuit, ReadByte, Finish, compiled
  <1>2. UNCHANGED <<rule, conditions, outputs, statement>>
    BY DEF policyVars
  <1>3. JudgedSoFar'
    <2>1. JudgedSoFar /\ Next
      BY DEF PolicyInv, JudgedSoFar, Next
    <2>. QED
      BY <1>2, <2>1, JudgedStays
  <1>4. /\ stage' # "idle" /\ stage' # "combined" /\ stage' # "done"
    BY <1>1
  <1>5. rule # NoRule =>
          /\ conditions = ExtractLookaheads(rule)
          /\ Len(outputs) < Len(conditions)
          /\ config = conditions[Len(outputs) + 1].regex
    BY <1>1 DEF PolicyInv
  <1>6. rule' # NoRule =>
          /\ conditions' = ExtractLookaheads(rule')
          /\ Len(outputs') < Len(conditions')
          /\ config' = conditions'[Len(outputs') + 1].regex
    BY <1>1, <1>2, <1>5
  <1>. QED
    BY <1>3, <1>4, <1>6 DEF PolicyInv, JudgedSoFar

LEMMA RuleKeepsPolicy ==
  ASSUME RegexInv, PolicyInv, BuildRule
  PROVE  PolicyInv'
  <1>1. outputs' = <<>> /\ Len(outputs') = 0
    BY DEF PolicyInv, BuildRule
  <1>2. CASE stage' = "error"
    BY <1>1, <1>2 DEF PolicyInv
  <1>3. CASE stage' # "error"
    <2>1. /\ rule' = rule /\ rule # NoRule
          /\ conditions' = ExtractLookaheads(rule) /\ ExtractLookaheads(rule) # <<>>
          /\ Compile(conditions'[1].regex)
      BY <1>3 DEF BuildRule
    <2>2. stage' = "caret" /\ config' = conditions'[1].regex
      BY <2>1 DEF Compile
    <2>3. conditions' \in Seq(Condition)
      BY <2>1, LookaheadsAreConditions DEF RegexInv
    <2>4. Len(outputs') < Len(conditions') /\ Len(outputs') + 1 = 1
      BY <1>1, <2>1, <2>3
    <2>. QED
      BY <1>1, <2>1, <2>2, <2>4 DEF PolicyInv
  <1>. QED
    BY <1>2, <1>3

LEMMA CombineKeepsPolicy ==
  ASSUME RegexInv, AnchoredInv, SearchedInv, MessageInv, PolicyInv, CombineCondition
  PROVE  PolicyInv'
  <1> DEFINE n == Len(outputs)
             bit == ConditionOut(n + 1)
  <1>1. /\ stage = "finished" /\ rule # NoRule /\ n < Len(conditions)
        /\ outputs' = Append(outputs, bit)
        /\ UNCHANGED <<rule, conditions, statement>>
    BY DEF CombineCondition, Finished
  <1>2. /\ outputs \in Seq({0, 1}) /\ conditions \in Seq(Condition) /\ out \in {0, 1}
        /\ n \in Nat /\ Len(conditions) \in Nat
    BY DEF RegexInv
  <1>3. conditions = ExtractLookaheads(rule) /\ config = conditions[n + 1].regex
    BY <1>1 DEF PolicyInv
  <1>4. bit \in {0, 1}
    BY <1>2 DEF ConditionOut
  <1>5. Judged(conditions[n + 1], bit)
    <2>1. PICK k \in Nat : k = n + 1
      BY <1>2
    <2>2. Judged(conditions[k], ConditionOut(k))
      BY <1>1, <1>3, <2>1, OutIsJudged DEF Finished
    <2>. QED
      BY <2>1, <2>2
  <1>. HIDE DEF bit
  <1>6. /\ Len(outputs') = n + 1 /\ outputs'[n + 1] = bit /\ outputs' # <<>>
        /\ \A k \in 1 .. n : outputs'[k] = outputs[k]
    BY <1>1, <1>2, <1>4
  <1>7. msg' = msg
    BY DEF CombineCondition, Compile, signals
  <1>8. \A k : Judged(conditions[k], outputs[k])' <=> Judged(conditions[k], outputs'[k])
    BY <1>1, <1>7 DEF Judged, IsWordOf, HasWord, IsText, Text, Unpadded
  <1>9. ASSUME NEW k \in 1 .. Len(outputs') PROVE Judged(conditions[k], outputs'[k])
    <2>1. k \in 1 .. n \/ k = n + 1
      BY <1>2, <1>6
    <2>2. CASE k \in 1 .. n
      BY <1>6, <2>2 DEF PolicyInv
    <2>3. CASE k = n + 1
      BY <1>5, <1>6, <2>3
    <2>. QED
      BY <2>1, <2>2, <2>3
  <1>10. JudgedSoFar'
    BY <1>8, <1>9 DEF JudgedSoFar
  <1>11. CASE Len(outputs') < Len(conditions)
    <2>1. stage' = "caret" /\ config' = conditions[Len(outputs') + 1].regex
      BY <1>11 DEF CombineCondition, Compile
    <2>. QED
      BY <1>1, <1>3, <1>10, <1>11, <2>1 DEF PolicyInv, JudgedSoFar
  <1>12. CASE ~ (Len(outputs') < Len(conditions))
    <2>1. stage' = "combined"
      BY <1>12 DEF CombineCondition
    <2>2. Len(outputs') = Len(conditions)
      BY <1>1, <1>2, <1>6, <1>12
    <2>. QED
      BY <1>1, <1>3, <1>6, <1>10, <2>1, <2>2 DEF PolicyInv, JudgedSoFar
  <1>. QED
    BY <1>11, <1>12

LEMMA ExpectedKeepsPolicy ==
  ASSUME MessageInv, PolicyInv, ConstrainExpected
  PROVE  PolicyInv'
  <1>1. /\ stage = "combined" /\ stage' = "done"
        /\ UNCHANGED <<rule, conditions, outputs>>
    BY DEF ConstrainExpected
  <1>2. statement'.holds => statement'.expected = RegexMatch
    <2>1. PICK e \in 0 .. 2 :
            statement' = [expected |-> e, holds |-> e * (e - 1) = 0 /\ RegexMatch = e]
      BY DEF ConstrainExpected
    <2> DEFINE h == e * (e - 1) = 0 /\ RegexMatch = e
    <2>2. statement' = [expected |-> e, holds |-> h] /\ (h => RegexMatch = e)
      BY <2>1
    <2>. HIDE DEF h
    <2>3. statement'.expected = e /\ statement'.holds = h
      BY <2>2
    <2>. QED
      BY <2>2, <2>3
  <1>3. RegexMatch' = RegexMatch
    BY <1>1 DEF RegexMatch
  <1>4. JudgedSoFar'
    <2>1. JudgedSoFar /\ Next
      BY DEF PolicyInv, JudgedSoFar, Next, PolicyStep
    <2>. QED
      BY <1>1, <2>1, JudgedStays
  <1>. QED
    BY <1>1, <1>2, <1>3, <1>4 DEF PolicyInv, JudgedSoFar

LEMMA PolicyInvIsInductive ==
  ASSUME RegexInv, AnchoredInv, SearchedInv, MessageInv, PolicyInv, [Next]_vars
  PROVE  PolicyInv'
  <1>1. CASE UNCHANGED vars
    <2>1. UNCHANGED <<config, stage, rule, conditions, outputs, statement>>
      BY <1>1 DEF vars, circuitVars, compiled, policyVars
    <2>2. JudgedSoFar' /\ RegexMatch' = RegexMatch
      BY <2>1, JudgedStays DEF PolicyInv, JudgedSoFar, RegexMatch
    <2>. QED
      BY <2>1, <2>2 DEF PolicyInv, JudgedSoFar
  <1>2. CASE CompileDecomposed
    <2>1. rule' = NoRule /\ outputs' = <<>> /\ stage' = "caret"
      BY <1>2 DEF CompileDecomposed, Compile, PolicyInv, policyVars
    <2>. QED
      BY <2>1 DEF PolicyInv
  <1>. QED
    BY <1>1, <1>2, CircuitKeepsPolicy, RuleKeepsPolicy, CombineKeepsPolicy, ExpectedKeepsPolicy
       DEF Next, PolicyStep

LEMMA PolicyInvHolds == Spec => []PolicyInv
  <1>1. Init => PolicyInv
    BY DEF Init, CircuitInit, PolicyInit, PolicyInv
  <1>. QED
    BY <1>1, RegexInvHolds, MessageInvHolds, SearchedInvHolds, PolicyInvIsInductive, PTL DEF Spec

-----------------------------------------------------------------------------
\* What the tail of a policy asks for.
Checked(r) == r.tail = "min" \/ (r.tail = "any" /\ r.dot = "ascii")
TailDfa(r) == AtLeast(DotChars(r), IF r.tail = "min" THEN r.least ELSE 0)
TailRegex(r) == IF r.anchored THEN WholeText(TailDfa(r)) ELSE Anywhere(TailDfa(r))

LEMMA TailIsSearched ==
  ASSUME NEW r \in Rule
  PROVE  /\ TailDfa(r) \in Automaton /\ Searchable(TailDfa(r))
         /\ TailCondition(r) = IF Checked(r) THEN <<[negate |-> FALSE, regex |-> TailRegex(r)]>>
                                            ELSE <<>>
         /\ \A text : TailHolds(r, text) <=>
              (Checked(r) => IF r.anchored THEN Len(text) \in EndsOf(TailDfa(r), text, 0)
                             ELSE \E i \in 0 .. Len(text) : EndsOf(TailDfa(r), text, i) # {})
  <1>1. DotChars(r) \in Bytes /\ r.least \in Nat
    BY CharsAssumption DEF DotChars, Rule
  <1>2. TailDfa(r) \in Automaton /\ Searchable(TailDfa(r))
    <2>1. PICK n \in Nat : n = IF r.tail = "min" THEN r.least ELSE 0
      BY <1>1
    <2>2. TailDfa(r) = AtLeast(DotChars(r), n)
      BY <2>1 DEF TailDfa
    <2>. QED
      BY <1>1, <2>2, AtLeastIsAutomaton, AtLeastIsSearchable
  <1>3. TailCondition(r) = IF Checked(r) THEN <<[negate |-> FALSE, regex |-> TailRegex(r)]>>
                                         ELSE <<>>
    <2>1. CASE r.tail = "min"
      <3>1. TailDfa(r) = AtLeast(DotChars(r), r.least)
        BY <2>1 DEF TailDfa
      <3>. QED
        BY <2>1, <3>1 DEF TailCondition, Checked, TailRegex
    <2>2. CASE r.tail = "any" /\ r.dot = "ascii"
      <3>1. TailDfa(r) = AtLeast(DotChars(r), 0)
        BY <2>2 DEF TailDfa
      <3>. QED
        BY <2>2, <3>1 DEF TailCondition, Checked, TailRegex
    <2>3. CASE ~ Checked(r)
      BY <2>3 DEF TailCondition, Checked
    <2>. QED
      BY <2>1, <2>2, <2>3 DEF Checked
  <1>4. ASSUME NEW text
        PROVE  TailHolds(r, text) <=>
                 (Checked(r) => IF r.anchored THEN Len(text) \in EndsOf(TailDfa(r), text, 0)
                                ELSE \E i \in 0 .. Len(text) : EndsOf(TailDfa(r), text, i) # {})
    <2> DEFINE least == CASE r.tail = "min" -> r.least [] OTHER -> 0
    <2>1. AtLeast(DotChars(r), least) = TailDfa(r)
      BY DEF TailDfa
    <2>. HIDE DEF least
    <2>2. TailHolds(r, text) <=>
            (Checked(r) => IF r.anchored
                           THEN Len(text) \in EndsOf(AtLeast(DotChars(r), least), text, 0)
                           ELSE \E i \in 0 .. Len(text) :
                                  EndsOf(AtLeast(DotChars(r), least), text, i) # {})
      BY DEF TailHolds, Checked, least
    <2>. QED
      BY <2>1, <2>2
  <1>. QED
    BY <1>2, <1>3, <1>4

\* The conditions of a policy: its lookaheads, and then its tail.
LEMMA ConditionsOfRule ==
  ASSUME NEW r \in Rule
  PROVE  LET n == Len(r.looks)
             all == ExtractLookaheads(r)
         IN /\ n \in Nat /\ DOMAIN r.looks = 1 .. n
            /\ \A k \in 1 .. n : r.looks[k] \in Look
            /\ Len(all) = IF Checked(r) THEN n + 1 ELSE n
            /\ \A k \in 1 .. n : all[k] = [negate |-> r.looks[k].negate,
                                           regex |-> Anywhere(r.looks[k].dfa)]
            /\ Checked(r) => all[n + 1] = [negate |-> FALSE, regex |-> TailRegex(r)]
  <1> DEFINE looks == r.looks
             n == Len(looks)
             Ask(k) == [negate |-> looks[k].negate, regex |-> Anywhere(looks[k].dfa)]
             front == [k \in DOMAIN looks |-> Ask(k)]
             tail == TailCondition(r)
             last == [negate |-> FALSE, regex |-> TailRegex(r)]
             S == {Ask(k) : k \in DOMAIN looks} \cup {last}
             all == ExtractLookaheads(r)
  <1>1. looks \in Seq(Look)
    BY DEF Rule
  <1>2. all = front \o tail
    BY DEF ExtractLookaheads
  <1>3. tail = IF Checked(r) THEN <<last>> ELSE <<>>
    BY TailIsSearched
  <1>. HIDE DEF looks, last, all
  <1>4. n \in Nat /\ DOMAIN looks = 1 .. n /\ \A k \in 1 .. n : looks[k] \in Look
    BY <1>1
  <1>. HIDE DEF n, Ask, tail
  <1>5. front \in Seq(S) /\ Len(front) = n /\ \A k \in 1 .. n : front[k] = Ask(k)
    <2>1. front \in [1 .. n -> S] /\ \A k \in 1 .. n : front[k] = Ask(k)
      BY <1>4
    <2>. HIDE DEF front, S
    <2>. QED
      BY <1>4, <2>1
  <1>6. /\ tail \in Seq(S) /\ Len(tail) = IF Checked(r) THEN 1 ELSE 0
        /\ Checked(r) => tail[1] = last
    <2>1. last \in S
      OBVIOUS
    <2>. HIDE DEF S
    <2>2. CASE Checked(r)
      BY <1>3, <2>1, <2>2
    <2>3. CASE ~ Checked(r)
      BY <1>3, <2>3
    <2>. QED
      BY <2>2, <2>3
  <1>. HIDE DEF front, S
  <1>7. /\ Len(all) = Len(front) + Len(tail)
        /\ \A k \in 1 .. Len(front) + Len(tail) :
             all[k] = IF k <= Len(front) THEN front[k] ELSE tail[k - Len(front)]
    <2>1. /\ Len(front \o tail) = Len(front) + Len(tail)
          /\ \A k \in 1 .. Len(front) + Len(tail) :
               (front \o tail)[k] = IF k <= Len(front) THEN front[k] ELSE tail[k - Len(front)]
      BY ONLY <1>5, <1>6, Concatenated
    <2>. QED
      BY <1>2, <2>1
  <1>8. Len(all) = IF Checked(r) THEN n + 1 ELSE n
    BY <1>4, <1>5, <1>6, <1>7
  <1>9. ASSUME NEW k \in 1 .. n PROVE all[k] = Ask(k)
    <2>1. k \in 1 .. Len(front) + Len(tail) /\ k <= Len(front)
      BY <1>4, <1>5, <1>6
    <2>. QED
      BY <1>5, <1>7, <2>1
  <1>10. ASSUME Checked(r) PROVE all[n + 1] = last
    <2>1. /\ n + 1 \in 1 .. Len(front) + Len(tail) /\ ~ (n + 1 <= Len(front))
          /\ (n + 1) - Len(front) = 1
      BY <1>4, <1>5, <1>6, <1>10
    <2>. QED
      BY <1>6, <1>7, <1>10, <2>1
  <1>. QED
    BY <1>4, <1>8, <1>9, <1>10 DEF looks, n, Ask, last, all

\* A proof that a policy matches, or that it does not, exists for no password
\* of which it is not true: whatever the policy is and whichever automata its
\* lookaheads have, the wrapper combines the conditions, negated or not, of
\* one message to one bit, and that bit is the policy's.
THEOREM StatementsAreTrue == Spec => []StatementIsTrue
  <1>1. RegexInv /\ MessageInv /\ PolicyInv => StatementIsTrue
    <2>. SUFFICES ASSUME RegexInv, MessageInv, PolicyInv, Proved, ShortLooks,
                         NEW n \in 0 .. MsgBytes - 1, IsText(n)
                  PROVE  Truthful(n)
      BY DEF StatementIsTrue
    <2> DEFINE looks == rule.looks
               m == Len(looks)
               text == Text(n)
    <2>1. /\ rule \in Rule /\ conditions = ExtractLookaheads(rule)
          /\ Len(outputs) = Len(conditions) /\ outputs # <<>>
          /\ statement.expected = RegexMatch
          /\ \A k \in 1 .. Len(outputs) : Judged(conditions[k], outputs[k])
      BY DEF Proved, PolicyInv, RegexInv
    <2>2. /\ m \in Nat /\ DOMAIN looks = 1 .. m
          /\ \A k \in 1 .. m : looks[k] \in Look
          /\ Len(outputs) = IF Checked(rule) THEN m + 1 ELSE m
          /\ \A k \in 1 .. m : conditions[k] = [negate |-> looks[k].negate,
                                                regex |-> Anywhere(looks[k].dfa)]
          /\ Checked(rule) => conditions[m + 1] = [negate |-> FALSE, regex |-> TailRegex(rule)]
      BY <2>1, ConditionsOfRule
    <2>3. msg \in Message /\ InRange(msg) /\ MsgBytes \in Nat
      BY <2>1, MsgBytesAssumption DEF MessageInv
    <2>4. n \in 0 .. MsgBytes
      BY <2>3
    <2>5. ASSUME NEW d
          PROVE  /\ Len(text) = n
                 /\ HasWord(d) <=> \E i \in 0 .. Len(text) : EndsOf(d, text, i) # {}
                 /\ Accepts(d, text) <=> Len(text) \in EndsOf(d, text, 0)
      BY <2>3, <2>4, WordsOfTexts
    <2>6. \A d : IsWordOf(d) <=> Accepts(d, text)
      <3>1. \A k \in 0 .. MsgBytes - 1 : IsText(k) => k = n
        <4>1. \A k \in 0 .. MsgBytes - 1 : k \in 0 .. MsgBytes
          BY <2>3
        <4>. QED
          BY <2>3, <2>4, <4>1, TextEnds
      <3>. QED
        BY <3>1 DEF IsWordOf
    <2>. HIDE DEF text, looks, m
    <2>7. ASSUME NEW k \in 1 .. m PROVE outputs[k] = 1 <=> LookHolds(looks[k], text)
      <3> DEFINE d == looks[k].dfa
      <3>1. d \in Automaton /\ looks[k].negate \in BOOLEAN
        BY <2>2 DEF Look
      <3>2. Searchable(d)
        <4>1. ShortWords(d)
          BY <2>2 DEF ShortLooks, looks
        <4>. HIDE DEF d
        <4>. QED
          BY <3>1, <4>1, ShortWordsAreSearchable
      <3>3. k \in 1 .. Len(outputs)
        BY <2>2
      <3>4. Judged(conditions[k], outputs[k])
        BY <2>1, <3>3
      <3>5. conditions[k].regex = Anywhere(d) /\ conditions[k].negate = looks[k].negate
        <4>1. conditions[k] = [negate |-> looks[k].negate, regex |-> Anywhere(looks[k].dfa)]
          BY <2>2
        <4>. QED
          BY ONLY <4>1
      <3>6. LookHolds(looks[k], text)
              <=> ((\E i \in 0 .. Len(text) : EndsOf(d, text, i) # {}) # looks[k].negate)
        BY DEF LookHolds
      <3>. HIDE DEF d
      <3>7. outputs[k] = 1 <=> IF looks[k].negate THEN ~ HasWord(d) ELSE HasWord(d)
        BY <3>1, <3>2, <3>4, <3>5 DEF Judged
      <3>8. CASE looks[k].negate = TRUE
        BY <2>5, <3>6, <3>7, <3>8
      <3>9. CASE looks[k].negate = FALSE
        BY <2>5, <3>6, <3>7, <3>9
      <3>. QED
        BY <3>1, <3>8, <3>9
    <2>8. ASSUME Checked(rule) PROVE outputs[m + 1] = 1 <=> TailHolds(rule, text)
      <3> DEFINE d == TailDfa(rule)
      <3>1. /\ d \in Automaton /\ Searchable(d)
            /\ TailHolds(rule, text) <=>
                 (Checked(rule) => IF rule.anchored THEN Len(text) \in EndsOf(d, text, 0)
                                   ELSE \E i \in 0 .. Len(text) : EndsOf(d, text, i) # {})
        BY <2>1, TailIsSearched
      <3>2. m + 1 \in 1 .. Len(outputs)
        BY <2>2, <2>8
      <3>3. Judged(conditions[m + 1], outputs[m + 1])
        BY <2>1, <3>2
      <3>4. /\ ~ conditions[m + 1].negate
            /\ conditions[m + 1].regex = IF rule.anchored THEN WholeText(d) ELSE Anywhere(d)
        BY <2>2, <2>8 DEF TailRegex
      <3>. HIDE DEF d
      <3>5. CASE rule.anchored
        <4>1. outputs[m + 1] = 1 <=> IsWordOf(d)
          BY <3>1, <3>3, <3>4, <3>5 DEF Judged
        <4>. QED
          BY <2>5, <2>6, <2>8, <3>1, <3>5, <4>1
      <3>6. CASE ~ rule.anchored
        <4>1. outputs[m + 1] = 1 <=> HasWord(d)
          BY <3>1, <3>3, <3>4, <3>6 DEF Judged
        <4>. QED
          BY <2>5, <2>8, <3>1, <3>6, <4>1
      <3>. QED
        BY <3>5, <3>6
    <2>9. ~ Checked(rule) => TailHolds(rule, text)
      BY <2>1, TailIsSearched
    <2>10. statement.expected = 1 <=> \A k \in 1 .. Len(outputs) : outputs[k] = 1
      <3>1. DOMAIN outputs = 1 .. Len(outputs)
        <4>1. outputs \in Seq({0, 1})
          BY DEF RegexInv
        <4>. QED
          BY <4>1
      <3>. QED
        BY <2>1, <3>1 DEF RegexMatch
    <2>11. \A k : k \in 1 .. Len(outputs) <=> k \in 1 .. m \/ (Checked(rule) /\ k = m + 1)
      BY <2>2
    <2>12. statement.expected = 1 <=>
             (\A k \in 1 .. m : LookHolds(looks[k], text)) /\ TailHolds(rule, text)
      BY <2>7, <2>8, <2>9, <2>10, <2>11
    <2>. QED
      BY <2>2, <2>12 DEF Truthful, PolicyHolds, looks, text
  <1>. QED
    BY <1>1, RegexInvHolds, MessageInvHolds, PolicyInvHolds, PTL

-----------------------------------------------------------------------------
\* The ends of the words of several parts are well defined.
LEMMA EndsDef ==
  ASSUME NEW ds, NEW input, NEW i
  PROVE  EndsAfter(ds, input, i)
           = [k \in Nat |-> IF k = 0 THEN {i}
                            ELSE UNION {EndsOf(ds[k], input, j) : j \in EndsAfter(ds, input, i)[k - 1]}]
  <1> DEFINE begin == {i}
             After(k, s) == UNION {EndsOf(ds[k], input, j) : j \in s}
             Turn(k, s) == IF k = 0 THEN begin ELSE After(k, s)
  <1>. HIDE DEF begin, After
  <1> DEFINE IsTally(f, n) == f = [k \in 0 .. n |-> Turn(k, f[k - 1])]
             Defined == {n \in Nat : \E f : IsTally(f, n)}
  <1>1. 0 \in Defined
    <2>1. IsTally([k \in 0 .. 0 |-> begin], 0)
      OBVIOUS
    <2>. QED
      BY <2>1
  <1>2. ASSUME NEW n \in Nat, n \in Defined PROVE n + 1 \in Defined
    <2>1. PICK f : IsTally(f, n)
      BY <1>2
    <2> DEFINE h == [k \in 0 .. n + 1 |-> Turn(k, f[k - 1])]
    <2>2. \A k \in 0 .. n : h[k] = f[k]
      BY <2>1
    <2>3. \A k \in 0 .. n + 1 : k # 0 => k - 1 \in 0 .. n
      OBVIOUS
    <2>4. \A k \in 0 .. n + 1 : h[k] = Turn(k, h[k - 1])
      BY <2>2, <2>3
    <2>5. IsTally(h, n + 1)
      BY <2>4
    <2>. QED
      <3>. HIDE DEF h, IsTally
      <3>. QED
        BY <2>5
  <1>3. \A n \in Nat : \E f : IsTally(f, n)
    <2>1. Nat \subseteq Defined
      <3>. HIDE DEF Defined
      <3>. QED
        BY <1>1, <1>2, NatInduct
    <2>. QED
      BY <2>1
  <1> DEFINE F(n) == CHOOSE f : IsTally(f, n)
             g == [k \in Nat |-> F(k)[k]]
  <1>4. \A n \in Nat : IsTally(F(n), n)
    <2>. HIDE DEF IsTally
    <2>. QED
      BY <1>3
  <1>5. \A n \in Nat : F(n + 1)[n] = F(n)[n]
    <2> DEFINE Same(n) == {k \in Nat : k <= n => F(n + 1)[k] = F(n)[k]}
    <2>1. ASSUME NEW n \in Nat PROVE n \in Same(n)
      <3>. HIDE DEF F
      <3>0. IsTally(F(n), n) /\ IsTally(F(n + 1), n + 1)
        <4>1. n + 1 \in Nat
          OBVIOUS
        <4>. HIDE DEF IsTally
        <4>. QED
          BY <1>4, <4>1
      <3>1. /\ F(n) = [k \in 0 .. n |-> Turn(k, F(n)[k - 1])]
            /\ F(n + 1) = [k \in 0 .. n + 1 |-> Turn(k, F(n + 1)[k - 1])]
        BY <3>0
      <3>2. 0 \in Same(n)
        BY <3>1
      <3>3. ASSUME NEW k \in Nat, k \in Same(n) PROVE k + 1 \in Same(n)
        <4>. SUFFICES ASSUME k + 1 <= n PROVE F(n + 1)[k + 1] = F(n)[k + 1]
          OBVIOUS
        <4>1. F(n + 1)[k] = F(n)[k]
          BY <3>3
        <4>2. k + 1 \in 0 .. n /\ k + 1 \in 0 .. n + 1 /\ k + 1 # 0 /\ (k + 1) - 1 = k
          OBVIOUS
        <4>. QED
          BY <3>1, <4>1, <4>2
      <3>. HIDE DEF Same
      <3>. QED
        BY <3>2, <3>3, NatInduct
    <2>. HIDE DEF F
    <2>. QED
      BY <2>1
  <1>6. ASSUME NEW k \in Nat PROVE g[k] = Turn(k, g[k - 1])
    <2>1. F(k) = [j \in 0 .. k |-> Turn(j, F(k)[j - 1])]
      BY <1>4
    <2>2. g[k] = F(k)[k]
      OBVIOUS
    <2>3. k # 0 => k - 1 \in Nat /\ (k - 1) + 1 = k /\ g[k - 1] = F(k - 1)[k - 1]
      OBVIOUS
    <2>4. k # 0 => F(k)[k - 1] = F(k - 1)[k - 1]
      <3>. HIDE DEF F
      <3>. QED
        BY <1>5, <2>3
    <2>. HIDE DEF F, g
    <2>. QED
      BY <2>1, <2>2, <2>3, <2>4
  <1>7. g = [k \in Nat |-> Turn(k, g[k - 1])]
    <2>1. g = [k \in Nat |-> g[k]]
      OBVIOUS
    <2>. HIDE DEF g
    <2>. QED
      BY <1>6, <2>1
  <1>. HIDE DEF g
  <1>. QED
    BY <1>7 DEF EndsAfter, begin, After


LEMMA EndsOfNext ==
  ASSUME NEW ds, NEW input, NEW i, NEW n \in Nat \ {0}
  PROVE  EndsAfter(ds, input, i)[n]
           = UNION {EndsOf(ds[n], input, j) : j \in EndsAfter(ds, input, i)[n - 1]}
  BY EndsDef

LEMMA EndsAreInside ==
  ASSUME NEW ds, NEW input \in Seq(Int), NEW i \in 0 .. Len(input)
  PROVE  \A n \in Nat : EndsAfter(ds, input, i)[n] \subseteq 0 .. Len(input)
  <1> DEFINE Inside == {n \in Nat : EndsAfter(ds, input, i)[n] \subseteq 0 .. Len(input)}
  <1>1. 0 \in Inside
    <2>1. EndsAfter(ds, input, i)[0] = {i}
      BY EndsDef
    <2>. QED
      BY <2>1
  <1>2. ASSUME NEW n \in Nat, n \in Inside PROVE n + 1 \in Inside
    <2>1. n + 1 \in Nat /\ n + 1 # 0 /\ (n + 1) - 1 = n
      OBVIOUS
    <2>2. EndsAfter(ds, input, i)[n + 1]
            = UNION {EndsOf(ds[n + 1], input, j) : j \in EndsAfter(ds, input, i)[n]}
      BY <2>1, EndsDef
    <2>3. ASSUME NEW j \in 0 .. Len(input)
          PROVE  EndsOf(ds[n + 1], input, j) \subseteq 0 .. Len(input)
      BY DEF EndsOf
    <2>4. EndsAfter(ds, input, i)[n] \subseteq 0 .. Len(input)
      BY <1>2
    <2>. QED
      BY <2>1, <2>2, <2>3, <2>4
  <1>3. Nat \subseteq Inside
    <2>. HIDE DEF Inside
    <2>. QED
      BY <1>1, <1>2, NatInduct
  <1>. QED
    BY <1>3

\* Part p of the regex is in state q after k bytes of the input, for a match
\* that began somewhere.
Reading(refs, input, p, q, k) ==
  \E i \in 0 .. Len(input) : \E j \in EndsAfter(refs, input, i)[p - 1] :
    j <= k /\ q \in RunFrom(refs[p], SubSeq(input, j + 1, k))

\* Without another byte, state q of part p is state s of part r.
Continues(refs, p, q, r, s) ==
  \/ r = p /\ s = q
  \/ /\ r > p
     /\ q \in refs[p].eoi
     /\ \A m \in p + 1 .. r - 1 : refs[m].start \in refs[m].eoi
     /\ s = refs[r].start

LEMMA ReadingBegins ==
  ASSUME NEW refs, NEW input \in Seq(Int), NEW k \in 0 .. Len(input)
  PROVE  Reading(refs, input, 1, refs[1].start, k)
  <1>1. EndsAfter(refs, input, k)[0] = {k}
    BY EndsDef
  <1>2. RunFrom(refs[1], SubSeq(input, k + 1, k)) = {refs[1].start}
    BY RunOfStretches
  <1>. QED
    BY <1>1, <1>2 DEF Reading

LEMMA ReadingEnds ==
  ASSUME NEW refs, NEW input \in Seq(Int), NEW k \in 0 .. Len(input), NEW p \in Nat \ {0},
         NEW q, Reading(refs, input, p, q, k), q \in refs[p].eoi
  PROVE  \E i \in 0 .. Len(input) : k \in EndsAfter(refs, input, i)[p]
  <1>0. PICK i \in 0 .. Len(input) : \E j \in EndsAfter(refs, input, i)[p - 1] :
          j <= k /\ q \in RunFrom(refs[p], SubSeq(input, j + 1, k))
    BY DEF Reading
  <1>1. PICK j \in EndsAfter(refs, input, i)[p - 1] :
          j <= k /\ q \in RunFrom(refs[p], SubSeq(input, j + 1, k))
    BY <1>0
  <1>2. p - 1 \in Nat /\ p # 0 /\ p \in Nat
    OBVIOUS
  <1>3. j \in 0 .. Len(input)
    BY <1>2, EndsAreInside
  <1>4. k \in EndsOf(refs[p], input, j)
    BY <1>1, <1>3 DEF EndsOf, Accepts
  <1>5. EndsAfter(refs, input, i)[p]
          = UNION {EndsOf(refs[p], input, x) : x \in EndsAfter(refs, input, i)[p - 1]}
    BY <1>2, EndsDef
  <1>. QED
    BY <1>4, <1>5

LEMMA ReadingContinues ==
  ASSUME NEW refs, NEW input \in Seq(Int), NEW k \in 0 .. Len(input),
         NEW p \in Nat \ {0}, NEW q, Reading(refs, input, p, q, k),
         NEW r \in Nat, NEW s, Continues(refs, p, q, r, s)
  PROVE  Reading(refs, input, r, s, k)
  <1>1. CASE r = p /\ s = q
    BY <1>1
  <1>2. CASE /\ r > p
             /\ q \in refs[p].eoi
             /\ \A m \in p + 1 .. r - 1 : refs[m].start \in refs[m].eoi
             /\ s = refs[r].start
    <2>1. PICK i \in 0 .. Len(input) : k \in EndsAfter(refs, input, i)[p]
      BY <1>2, ReadingEnds
    <2> DEFINE Passed == {n \in Nat : p + n < r => k \in EndsAfter(refs, input, i)[p + n]}
    <2>2. 0 \in Passed
      <3>1. p + 0 = p
        OBVIOUS
      <3>. QED
        BY <2>1, <3>1
    <2>3. ASSUME NEW n \in Nat, n \in Passed PROVE n + 1 \in Passed
      <3>1. SUFFICES ASSUME p + (n + 1) < r PROVE k \in EndsAfter(refs, input, i)[p + (n + 1)]
        OBVIOUS
      <3>2. PICK m \in Nat : m = p + (n + 1)
        OBVIOUS
      <3>3. /\ m # 0 /\ m - 1 = p + n /\ m \in p + 1 .. r - 1 /\ p + n < r
        BY <3>1, <3>2
      <3>4. k \in EndsAfter(refs, input, i)[m - 1]
        BY <2>3, <3>3
      <3>5. k \in EndsOf(refs[m], input, k)
        <4>1. refs[m].start \in refs[m].eoi
          BY <1>2, <3>3
        <4>2. RunFrom(refs[m], SubSeq(input, k + 1, k)) = {refs[m].start}
          BY RunOfStretches
        <4>. QED
          BY <4>1, <4>2 DEF EndsOf, Accepts
      <3>6. EndsAfter(refs, input, i)[m]
              = UNION {EndsOf(refs[m], input, x) : x \in EndsAfter(refs, input, i)[m - 1]}
        <4>1. m \in Nat \ {0}
          BY <3>3
        <4>. HIDE DEF Passed
        <4>. QED
          BY ONLY <4>1, EndsOfNext
      <3>7. k \in EndsAfter(refs, input, i)[m]
        BY <3>4, <3>5, <3>6
      <3>. QED
        BY <3>2, <3>7
    <2>4. \A n \in Nat : n \in Passed
      <3>. HIDE DEF Passed
      <3>. QED
        BY <2>2, <2>3, NatInduct
    <2>5. k \in EndsAfter(refs, input, i)[r - 1]
      <3>1. PICK n \in Nat : n = r - 1 - p
        BY <1>2
      <3>2. p + n = r - 1 /\ p + n < r
        BY <3>1
      <3>. QED
        BY <2>4, <3>1, <3>2
    <2>6. RunFrom(refs[r], SubSeq(input, k + 1, k)) = {refs[r].start}
      BY RunOfStretches
    <2>. QED
      BY <1>2, <2>5, <2>6 DEF Reading
  <1>. QED
    BY <1>1, <1>2 DEF Continues

LEMMA ReadingGoesOn ==
  ASSUME NEW refs, NEW input \in Seq(Int), NEW k \in 0 .. Len(input) - 1,
         NEW p \in Nat \ {0}, NEW q, Reading(refs, input, p, q, k),
         NEW s \in Successors(refs[p], {q}, input[k + 1])
  PROVE  Reading(refs, input, p, s, k + 1)
  <1>0. PICK i \in 0 .. Len(input) : \E j \in EndsAfter(refs, input, i)[p - 1] :
          j <= k /\ q \in RunFrom(refs[p], SubSeq(input, j + 1, k))
    BY DEF Reading
  <1>1. PICK j \in EndsAfter(refs, input, i)[p - 1] :
          j <= k /\ q \in RunFrom(refs[p], SubSeq(input, j + 1, k))
    BY <1>0
  <1>2. p - 1 \in Nat
    OBVIOUS
  <1>3. j \in 0 .. Len(input) /\ k \in j .. Len(input) - 1 /\ j <= k + 1
    BY <1>1, <1>2, EndsAreInside
  <1>4. RunFrom(refs[p], SubSeq(input, j + 1, k + 1))
          = Successors(refs[p], RunFrom(refs[p], SubSeq(input, j + 1, k)), input[k + 1])
    <2>1. PICK x \in 0 .. Len(input) : x = j
      BY <1>3
    <2>2. PICK d : d = refs[p]
      OBVIOUS
    <2>3. /\ RunFrom(d, SubSeq(input, x + 1, x)) = {d.start}
          /\ \A y \in x .. Len(input) - 1 :
               RunFrom(d, SubSeq(input, x + 1, y + 1))
                 = Successors(d, RunFrom(d, SubSeq(input, x + 1, y)), input[y + 1])
      BY ONLY RunOfStretches
    <2>. QED
      BY <1>3, <2>1, <2>2, <2>3
  <1>5. s \in RunFrom(refs[p], SubSeq(input, j + 1, k + 1))
    BY <1>1, <1>4 DEF Successors
  <1>. QED
    BY <1>3, <1>5 DEF Reading

-----------------------------------------------------------------------------
\* A byte leads from state q of part p to node y and what it stands for.
Moves(refs, M, p, q, c, y) ==
  \E r \in Nat \ {0} : \E s, z :
    Continues(refs, p, q, r, s) /\ z \in Successors(refs[r], {s}, c) /\ <<y, r, z>> \in M

NodeSound(node, refs, K, M, p, q) ==
  /\ node.accept => \E s : Continues(refs, p, q, K, s) /\ s \in refs[K].eoi
  /\ \A t \in DOMAIN node.edges \ {0} : \A c \in node.edges[t] : Moves(refs, M, p, q, c, t + 1)

\* What the nodes of the graph of K parts stand for: M relates the position of
\* a node to states of the parts, and its edges to steps of the parts.
NetSound(g, refs, K, M) ==
  /\ GoodGraph(g, 0)
  /\ M \subseteq (1 .. Len(g)) \X (1 .. K) \X Int
  /\ <<1, 1, refs[1].start>> \in M
  /\ \A x \in 1 .. Len(g), p \in 1 .. K, q \in Int :
       <<x, p, q>> \in M => NodeSound(g[x], refs, K, M, p, q)

LEMMA MovesBy ==
  ASSUME NEW refs, NEW M, NEW p, NEW q, NEW c, NEW y, NEW r \in Nat \ {0}, NEW s, NEW z,
         Continues(refs, p, q, r, s), z \in Successors(refs[r], {s}, c), <<y, r, z>> \in M
  PROVE  Moves(refs, M, p, q, c, y)
  BY DEF Moves

LEMMA SameEdgesMove ==
  ASSUME NEW d \in Automaton, NEW base \in Nat, NEW g, GoodGraph(g, base),
         Len(g) = Len(BreadthFirst(d)), SameGraph(g, d, 0, base - 1)
  PROVE  \A k \in 1 .. Len(g) : \A t \in DOMAIN g[k].edges : \A c \in g[k].edges[t] :
           \E s \in 1 .. Len(g) : /\ t = base - 1 + s
                                 /\ BreadthFirst(d)[s] \in Successors(d, {BreadthFirst(d)[k]}, c)
  <1>0. SUFFICES ASSUME NEW k \in 1 .. Len(g), NEW t \in DOMAIN g[k].edges, NEW c \in g[k].edges[t]
                 PROVE  \E s \in 1 .. Len(g) :
                          /\ t = base - 1 + s
                          /\ BreadthFirst(d)[s] \in Successors(d, {BreadthFirst(d)[k]}, c)
    OBVIOUS
  <1> DEFINE order == BreadthFirst(d)
             n == Len(g)
             s == t - base + 1
  <1>1. n \in Nat /\ GoodEdges(g[k].edges, base, base + n - 1)
    BY GraphFacts
  <1>2. t \in base .. base + n - 1
    BY <1>1 DEF GoodEdges
  <1>. HIDE DEF n
  <1>3. s \in 1 .. n /\ base - 1 + s = t
    BY <1>1, <1>2
  <1>4. SameEdges(g[k].edges, d, k, base - 1)
    <2>1. 0 + k = k /\ k \in 1 .. n
      BY <1>1 DEF n
    <2>2. SameEdges(g[0 + k].edges, d, k, base - 1)
      BY <2>1 DEF SameGraph, n
    <2>. QED
      BY <2>1, <2>2
  <1>. HIDE DEF s
  <1>5. PICK e \in Leaving(d, order[k]) : c \in e[2] /\ e[3] = order[s]
    BY <1>3, <1>4 DEF SameEdges, n
  <1>6. order[s] \in Successors(d, {order[k]}, c)
    BY <1>5 DEF Successors, Leaving
  <1>. QED
    BY <1>3, <1>6 DEF n

\* The first part: an automaton, or a caret alone.
LEMMA FirstIsSound ==
  ASSUME NEW d \in Automaton, NEW g, SearchNet(g, d), NEW refs, refs[1] = d
  PROVE  \E M : NetSound(g, refs, 1, M)
  <1> DEFINE order == BreadthFirst(d)
             n == Len(g)
             M == {<<k, 1, order[k]>> : k \in 1 .. n}
  <1>1. GoodGraph(g, 0) /\ n = Len(order) /\ SameGraph(g, d, 0, -1)
    BY DEF SearchNet
  <1>2. order \in Seq(Int) /\ Len(order) >= 1 /\ order[1] = d.start
    BY BreadthFirstFacts
  <1>3. n \in Nat /\ n >= 1 /\ \A k \in 1 .. n : order[k] \in Int
    <2>. HIDE DEF order
    <2>. QED
      BY <1>1, <1>2
  <1>4. M \subseteq (1 .. n) \X (1 .. 1) \X Int
    <2>. HIDE DEF order, n
    <2>. QED
      BY <1>3
  <1>5. <<1, 1, refs[1].start>> \in M
    <2>. HIDE DEF order, n
    <2>. QED
      BY <1>2, <1>3
  <1>6. ASSUME NEW x \in 1 .. n, NEW p \in 1 .. 1, NEW q \in Int, <<x, p, q>> \in M
        PROVE  NodeSound(g[x], refs, 1, M, p, q)
    <2>1. p = 1 /\ q = order[x]
      <3>. HIDE DEF order, n
      <3>. QED
        BY <1>6
    <2>2. \A s : Continues(refs, p, s, 1, s)
      BY <2>1 DEF Continues
    <2>3. g[x].accept => q \in refs[1].eoi
      <3>1. 0 + x = x /\ x \in 1 .. Len(order)
        BY <1>1, <1>3
      <3>2. g[0 + x].accept <=> order[x] \in d.eoi
        BY <1>1, <3>1 DEF SameGraph
      <3>. QED
        BY <2>1, <3>1, <3>2
    <2>4. ASSUME NEW t \in DOMAIN g[x].edges, NEW c \in g[x].edges[t]
          PROVE  Moves(refs, M, p, q, c, t + 1)
      <3>1. PICK base \in Nat : base = 0
        OBVIOUS
      <3>2. GoodGraph(g, base) /\ SameGraph(g, d, 0, base - 1)
        BY <1>1, <3>1
      <3>3. PICK s \in 1 .. n : t = base - 1 + s /\ order[s] \in Successors(d, {order[x]}, c)
        <4>1. Len(g) = Len(BreadthFirst(d)) /\ GoodGraph(g, base) /\ SameGraph(g, d, 0, base - 1)
          BY <1>1, <3>2
        <4>2. \A k \in 1 .. Len(g) : \A u \in DOMAIN g[k].edges : \A b \in g[k].edges[u] :
                \E s \in 1 .. Len(g) :
                  /\ u = base - 1 + s
                  /\ BreadthFirst(d)[s] \in Successors(d, {BreadthFirst(d)[k]}, b)
          BY ONLY <4>1, SameEdgesMove
        <4>. QED
          BY <4>2
      <3>4. t + 1 = s
        <4>. HIDE DEF n
        <4>. QED
          BY <3>1, <3>3, <1>3
      <3>5. <<t + 1, 1, order[s]>> \in M
        BY <3>4
      <3>. HIDE DEF order, M, n
      <3>6. Continues(refs, p, q, 1, q)
        BY <2>2
      <3>7. order[s] \in Successors(refs[1], {q}, c)
        BY <2>1, <3>3
      <3>. QED
        <4>1. PICK r \in Nat \ {0} : r = 1
          OBVIOUS
        <4>2. /\ Continues(refs, p, q, r, q) /\ order[s] \in Successors(refs[r], {q}, c)
              /\ <<t + 1, r, order[s]>> \in M
          BY <3>5, <3>6, <3>7, <4>1
        <4>. QED
          BY ONLY <4>2, MovesBy
    <2>. HIDE DEF M, n, order
    <2>. QED
      BY <2>2, <2>3, <2>4 DEF NodeSound
  <1>. HIDE DEF M
  <1>7. NetSound(g, refs, 1, M)
    BY <1>1, <1>4, <1>5, <1>6 DEF NetSound
  <1>. QED
    BY <1>7

LEMMA CaretIsSound ==
  ASSUME NEW g, CaretNet(g), NEW refs, refs[1] = CaretDfa
  PROVE  \E M : NetSound(g, refs, 1, M)
  <1> DEFINE M == {<<1, 1, 0>>, <<2, 1, 1>>}
  <1>1. /\ GoodGraph(g, 0) /\ Len(g) = 2
        /\ ~ g[1].accept /\ DOMAIN g[1].edges = {1} /\ g[1].edges[1] = {StartByte}
        /\ DOMAIN g[2].edges = {}
    BY DEF CaretNet, StartOnly
  <1>2. refs[1].start = 0 /\ refs[1].eoi = {1} /\ refs[1].edges = {<<0, {StartByte}, 1>>}
    BY DEF CaretDfa
  <1>3. M \subseteq (1 .. 2) \X (1 .. 1) \X Int /\ <<1, 1, refs[1].start>> \in M
    BY <1>2
  <1>4. ASSUME NEW x \in 1 .. 2, NEW p \in 1 .. 1, NEW q \in Int, <<x, p, q>> \in M
        PROVE  NodeSound(g[x], refs, 1, M, p, q)
    <2>1. p = 1 /\ ((x = 1 /\ q = 0) \/ (x = 2 /\ q = 1))
      BY <1>4
    <2>2. Continues(refs, p, q, 1, q)
      BY <2>1 DEF Continues
    <2>3. g[x].accept => q \in refs[1].eoi
      BY <1>1, <1>2, <2>1
    <2>4. ASSUME NEW t \in DOMAIN g[x].edges, NEW c \in g[x].edges[t]
          PROVE  Moves(refs, M, p, q, c, t + 1)
      <3>1. x = 1 /\ t = 1 /\ q = 0 /\ c = StartByte
        BY <1>1, <2>1
      <3>2. 1 \in Successors(refs[1], {q}, c)
        <4> DEFINE e == <<0, {StartByte}, 1>>
        <4>1. e \in refs[1].edges /\ e[1] \in {q} /\ c \in e[2] /\ e[3] = 1
          BY <1>2, <3>1
        <4>. HIDE DEF e
        <4>. QED
          BY <4>1 DEF Successors
      <3>3. <<t + 1, 1, 1>> \in M
        BY <3>1
      <3>. HIDE DEF M
      <3>. QED
        <4>1. PICK r \in Nat \ {0} : r = 1
          OBVIOUS
        <4>2. PICK z : z = 1
          OBVIOUS
        <4>3. /\ Continues(refs, p, q, r, q) /\ z \in Successors(refs[r], {q}, c)
              /\ <<t + 1, r, z>> \in M
          BY <2>2, <3>2, <3>3, <4>1, <4>2
        <4>. QED
          BY ONLY <4>3, MovesBy
    <2>. HIDE DEF M
    <2>. QED
      BY <2>2, <2>3, <2>4 DEF NodeSound
  <1>. HIDE DEF M
  <1>5. NetSound(g, refs, 1, M)
    BY <1>1, <1>3, <1>4 DEF NetSound
  <1>. QED
    BY <1>5

\* The first part: a group (^|...), if nothing leaves what the start byte
\* leads to.
LEMMA RenamedFacts ==
  ASSUME NEW g, GoodGraph(g, 0), NEW base \in Nat
  PROVE  \A k \in 1 .. Len(g) :
           /\ RenameStates(g, base)[k].accept = g[k].accept
           /\ \A t \in DOMAIN RenameStates(g, base)[k].edges :
                /\ t \in Int
                /\ t - base \in DOMAIN g[k].edges
                /\ RenameStates(g, base)[k].edges[t] = g[k].edges[t - base]
  <1> DEFINE n == Len(g)
             Edges(old) == [j \in {base + i : i \in DOMAIN old} |-> old[j - base]]
             h == RenameStates(g, base)
  <1>1. /\ n \in Nat /\ n >= 1 /\ DOMAIN g = 1 .. n
        /\ \A k \in 1 .. n : GoodEdges(g[k].edges, 0, 0 + n - 1)
    BY GraphFacts
  <1>2. h = [k \in 1 .. n |-> Node(base + k - 1, g[k].accept, Edges(g[k].edges))]
    BY <1>1 DEF RenameStates
  <1>. HIDE DEF h, Edges
  <1>3. SUFFICES ASSUME NEW k \in 1 .. n
                 PROVE  /\ h[k].accept = g[k].accept
                        /\ \A t \in DOMAIN h[k].edges :
                             /\ t \in Int /\ t - base \in DOMAIN g[k].edges
                             /\ h[k].edges[t] = g[k].edges[t - base]
    BY DEF h
  <1>4. h[k].accept = g[k].accept /\ h[k].edges = Edges(g[k].edges)
    BY <1>2 DEF Node
  <1>5. \A i \in DOMAIN g[k].edges : i \in Int
    <2>1. \A i \in 0 .. 0 + n - 1 : i \in Int
      BY <1>1
    <2>. QED
      BY <1>1, <2>1 DEF GoodEdges
  <1> DEFINE old == g[k].edges
  <1>6. ASSUME NEW t \in DOMAIN Edges(old)
        PROVE  t \in Int /\ t - base \in DOMAIN old /\ Edges(old)[t] = old[t - base]
    <2>1. PICK i \in DOMAIN old : t = base + i
      BY DEF Edges
    <2>2. i \in Int /\ t - base = i
      BY <1>5, <2>1
    <2>3. Edges(old)[t] = old[t - base]
      BY DEF Edges
    <2>. QED
      BY <2>1, <2>2, <2>3
  <1>. QED
    BY <1>4, <1>6

LEMMA GroupIsSound ==
  ASSUME NEW d \in Automaton, NEW h, SearchNet(h, d), WithoutStart(h), CanModifyForCaret(h),
         \A e \in d.edges : e[1] \notin d.eoi \ {d.start},
         NEW g, g = RenameStates(ModifyGraphForCaret(h), 0),
         NEW refs, refs[1] = GroupDfa(d)
  PROVE  \E M : NetSound(g, refs, 1, M)
  <1> DEFINE order == BreadthFirst(d)
             n == Len(h)
             k1 == Min(AcceptNodes(h) \ {1})
             to == h[k1].id
             old == h[1].edges
             Label(k) == (IF k \in DOMAIN old THEN old[k] ELSE {})
                         \cup (IF k = to THEN {StartByte} ELSE {})
             edges == [k \in DOMAIN old \cup {to} |-> Label(k)]
             first == Node(0, FALSE, edges)
             changed == ModifyGraphForCaret(h)
             M == {<<k, 1, order[k]>> : k \in 2 .. n} \cup {<<1, 1, -2>>, <<k1, 1, -1>>}
  <1>1. GoodGraph(h, 0) /\ n = Len(order) /\ SameGraph(h, d, 0, -1)
    BY DEF SearchNet
  <1>2. /\ order \in Seq(Int) /\ Len(order) >= 1 /\ order[1] = d.start
        /\ \A j, k \in 1 .. Len(order) : order[j] = order[k] => j = k
    BY BreadthFirstFacts
  <1>3. n \in Nat /\ n >= 1 /\ \A k \in 1 .. n : order[k] \in Int
    <2>. HIDE DEF order
    <2>. QED
      BY <1>1, <1>2
  <1>4. /\ DOMAIN h = 1 .. n /\ h = [k \in 1 .. n |-> h[k]]
        /\ AcceptNodes(h) \subseteq 1 .. n
        /\ \A k \in 1 .. n : h[k].id = 0 + k - 1
    BY <1>1, GraphFacts
  <1>5. k1 \in 2 .. n /\ h[k1].accept /\ to + 1 = k1
    <2> DEFINE S == AcceptNodes(h) \ {1}
    <2>1. S # {} /\ S \in SUBSET Nat
      BY <1>4 DEF CanModifyForCaret
    <2>2. Min(S) \in S
      <3>. HIDE DEF S
      <3>. QED
        BY <2>1, MinFacts
    <2>3. k1 \in 1 .. n /\ k1 # 1 /\ h[k1].accept
      BY <1>4, <2>2 DEF AcceptNodes
    <2>. HIDE DEF k1, n
    <2>4. k1 \in 2 .. n
      BY <1>3, <2>3
    <2>. QED
      BY <1>4, <2>3, <2>4
  <1>6. changed = [h EXCEPT ![1] = first]
    BY DEF ModifyGraphForCaret
  <1>7. /\ GoodGraph(changed, 0) /\ GoodGraph(g, 0)
        /\ Len(changed) = n /\ Len(g) = n
    <2>1. GoodGraph(changed, 0)
      BY <1>1, ModifiedIsGood
    <2>2. GoodGraph(g, 0)
      BY <2>1, RenamedIsGood
    <2>3. DOMAIN changed = 1 .. n
      <3>. HIDE DEF changed, first, n
      <3>. QED
        BY <1>4, <1>6
    <2>4. DOMAIN g = 1 .. n
      <3>1. g = RenameStates(changed, 0)
        OBVIOUS
      <3>. HIDE DEF changed, n
      <3>. QED
        BY <2>3, <3>1 DEF RenameStates
    <2>5. /\ Len(changed) \in Nat /\ DOMAIN changed = 1 .. Len(changed) /\ Len(changed) >= 1
          /\ Len(g) \in Nat /\ DOMAIN g = 1 .. Len(g) /\ Len(g) >= 1
      <3>. HIDE DEF changed
      <3>. QED
        BY <2>1, <2>2, GraphFacts
    <2>. HIDE DEF changed, n
    <2>6. Len(changed) = n
      BY <1>3, <2>3, <2>5
    <2>7. Len(g) = n
      BY <1>3, <2>4, <2>5
    <2>. QED
      BY <2>1, <2>2, <2>6, <2>7
  <1>8. ASSUME NEW k \in 1 .. n
        PROVE  /\ g[k].accept = changed[k].accept
               /\ \A t \in DOMAIN g[k].edges :
                    t \in Int /\ t \in DOMAIN changed[k].edges /\ g[k].edges[t] = changed[k].edges[t]
    <2>1. PICK base \in Nat : base = 0
      OBVIOUS
    <2>2. /\ RenameStates(changed, base)[k].accept = changed[k].accept
          /\ \A t \in DOMAIN RenameStates(changed, base)[k].edges :
               /\ t \in Int
               /\ t - base \in DOMAIN changed[k].edges
               /\ RenameStates(changed, base)[k].edges[t] = changed[k].edges[t - base]
      <3>. HIDE DEF changed, n
      <3>. QED
        BY <1>7, RenamedFacts
    <2>3. g = RenameStates(changed, base) /\ \A t \in Int : t - base = t
      BY <2>1
    <2>. HIDE DEF changed, n
    <2>. QED
      BY <2>2, <2>3
  <1>9. /\ ~ g[1].accept
        /\ \A t \in DOMAIN g[1].edges : \A c \in g[1].edges[t] :
             (t \in DOMAIN old /\ c \in old[t]) \/ (t = to /\ c = StartByte)
    <2>1. 1 \in 1 .. n
      BY <1>3
    <2>2. changed[1].accept = FALSE /\ changed[1].edges = edges
      <3>1. changed[1] = first
        <4>. HIDE DEF first, n, changed
        <4>. QED
          BY <1>4, <1>6, <2>1
      <3>. HIDE DEF edges, changed
      <3>. QED
        BY <3>1 DEF Node
    <2>3. \A t \in DOMAIN edges : edges[t] = Label(t)
      <3>. HIDE DEF Label
      <3>. QED
        OBVIOUS
    <2>4. \A t : \A c \in Label(t) : (t \in DOMAIN old /\ c \in old[t]) \/ (t = to /\ c = StartByte)
      <3>. HIDE DEF old, to
      <3>. QED
        OBVIOUS
    <2>. HIDE DEF changed, edges, Label, old, to, n
    <2>. QED
      BY <1>8, <2>1, <2>2, <2>3, <2>4
  <1>10. ASSUME NEW x \in 2 .. n
         PROVE  /\ g[x].accept => order[x] \in d.eoi
                /\ \A t \in DOMAIN g[x].edges : t \in DOMAIN h[x].edges /\ g[x].edges[t] = h[x].edges[t]
    <2>1. x \in 1 .. n /\ x # 1 /\ 0 + x = x
      BY <1>3
    <2>2. changed[x] = h[x]
      <3>. HIDE DEF first, n, changed
      <3>. QED
        BY <1>4, <1>6, <2>1
    <2>3. h[0 + x].accept <=> order[x] \in d.eoi
      BY <1>1, <2>1 DEF SameGraph
    <2>. HIDE DEF changed, order, n
    <2>. QED
      BY <1>8, <2>1, <2>2, <2>3
  <1>11. \A k \in 1 .. n : \A t \in DOMAIN h[k].edges : \A c \in h[k].edges[t] :
           \E s \in 1 .. n : t + 1 = s /\ order[s] \in Successors(d, {order[k]}, c)
    <2>1. PICK base \in Nat : base = 0
      OBVIOUS
    <2>2. Len(h) = Len(BreadthFirst(d)) /\ GoodGraph(h, base) /\ SameGraph(h, d, 0, base - 1)
      BY <1>1, <2>1
    <2>3. \A k \in 1 .. Len(h) : \A u \in DOMAIN h[k].edges : \A b \in h[k].edges[u] :
            \E s \in 1 .. Len(h) :
              /\ u = base - 1 + s
              /\ BreadthFirst(d)[s] \in Successors(d, {BreadthFirst(d)[k]}, b)
      BY ONLY <2>2, SameEdgesMove
    <2>4. \A s \in 1 .. n : \A u : u = base - 1 + s => u + 1 = s
      <3>. HIDE DEF n
      <3>. QED
        BY <1>3, <2>1
    <2>5. SUFFICES ASSUME NEW k \in 1 .. n, NEW t \in DOMAIN h[k].edges, NEW c \in h[k].edges[t]
                   PROVE  \E s \in 1 .. n : t + 1 = s /\ order[s] \in Successors(d, {order[k]}, c)
      <3>. HIDE DEF n, order
      <3>. QED
        OBVIOUS
    <2>6. PICK s \in 1 .. n : t = base - 1 + s /\ order[s] \in Successors(d, {order[k]}, c)
      BY ONLY <2>3, <2>5
    <2>. HIDE DEF n, order
    <2>. QED
      BY <2>4, <2>6
  <1> DEFINE G == refs[1]
  <1>12. /\ G.start = -2 /\ G.eoi = d.eoi \cup {-1}
         /\ d.edges \subseteq G.edges /\ <<-2, {StartByte}, -1>> \in G.edges
         /\ \A e \in d.edges : e[1] = d.start => <<-2, e[2], e[3]>> \in G.edges
    BY DEF GroupDfa
  <1>. HIDE DEF G, changed, edges, first, Label, to, old, k1
  <1>13. M \subseteq (1 .. n) \X (1 .. 1) \X Int /\ <<1, 1, G.start>> \in M
    <2>. HIDE DEF order, n
    <2>. QED
      BY <1>3, <1>5, <1>12
  <1>14. \A s \in 1 .. n : s # 1 => <<s, 1, order[s]>> \in M
    <2>. HIDE DEF order, n
    <2>. QED
      BY <1>3
  <1>15. <<k1, 1, -1>> \in M
    OBVIOUS
  <1>16. ASSUME NEW x, NEW p, NEW q, <<x, p, q>> \in M
         PROVE  /\ p = 1
                /\ \/ x = 1 /\ q = -2
                   \/ x \in 2 .. n /\ q = order[x]
                   \/ x = k1 /\ q = -1
    <2>. HIDE DEF order, n
    <2>. QED
      BY <1>16
  <1>. HIDE DEF M
  <1>17. ASSUME NEW q, NEW c, NEW z, NEW y, z \in Successors(G, {q}, c), <<y, 1, z>> \in M
         PROVE  Moves(refs, M, 1, q, c, y)
    <2>1. PICK r \in Nat \ {0} : r = 1
      OBVIOUS
    <2>2. Continues(refs, r, q, r, q) /\ z \in Successors(refs[r], {q}, c) /\ <<y, r, z>> \in M
      BY <1>17, <2>1 DEF G, Continues
    <2>3. Moves(refs, M, r, q, c, y)
      BY ONLY <2>2, MovesBy
    <2>. QED
      BY <2>1, <2>3
  <1>18. ASSUME NEW x \in 1 .. n, NEW p \in 1 .. 1, NEW q \in Int, <<x, p, q>> \in M
         PROVE  NodeSound(g[x], refs, 1, M, p, q)
    <2>1. p = 1
      BY <1>16, <1>18
    <2>2. Continues(refs, p, q, 1, q)
      BY <2>1 DEF Continues
    <2>3. CASE x = 1 /\ q = -2
      <3>1. ASSUME NEW t \in DOMAIN g[x].edges \ {0}, NEW c \in g[x].edges[t]
            PROVE  Moves(refs, M, p, q, c, t + 1)
        <4>1. CASE t \in DOMAIN old /\ c \in old[t]
          <5>1. PICK s \in 1 .. n : t + 1 = s /\ order[s] \in Successors(d, {order[1]}, c)
            <6>1. 1 \in 1 .. n
              BY <1>3
            <6>. HIDE DEF order, n
            <6>. QED
              BY <1>11, <4>1, <6>1 DEF old
          <5>2. s # 1
            <6>1. t \in Int
              BY <1>8, <2>3
            <6>. HIDE DEF n
            <6>. QED
              BY <5>1, <6>1
          <5>3. PICK e \in d.edges : e[1] = d.start /\ c \in e[2] /\ e[3] = order[s]
            <6>. HIDE DEF order, n
            <6>. QED
              BY <1>2, <5>1 DEF Successors
          <5>4. order[s] \in Successors(G, {q}, c)
            <6> DEFINE f == <<-2, e[2], e[3]>>
            <6>1. f \in G.edges /\ f[1] \in {q} /\ c \in f[2] /\ f[3] = order[s]
              BY <1>12, <2>3, <5>3
            <6>. HIDE DEF f
            <6>. QED
              BY <6>1 DEF Successors
          <5>. HIDE DEF order, n
          <5>. QED
            BY <1>14, <1>17, <2>1, <5>1, <5>2, <5>4
        <4>2. CASE t = to /\ c = StartByte
          <5>1. -1 \in Successors(G, {q}, c)
            <6> DEFINE f == <<-2, {StartByte}, -1>>
            <6>1. f \in G.edges /\ f[1] \in {q} /\ c \in f[2] /\ f[3] = -1
              BY <1>12, <2>3, <4>2
            <6>. HIDE DEF f
            <6>. QED
              BY <6>1 DEF Successors
          <5>. QED
            BY <1>5, <1>15, <1>17, <2>1, <4>2, <5>1
        <4>. QED
          BY <1>9, <2>3, <4>1, <4>2
      <3>. QED
        BY <1>9, <2>3, <3>1 DEF NodeSound
    <2>4. CASE x \in 2 .. n /\ q = order[x]
      <3>1. g[x].accept => q \in refs[1].eoi
        BY <1>10, <1>12, <2>4 DEF G
      <3>2. ASSUME NEW t \in DOMAIN g[x].edges \ {0}, NEW c \in g[x].edges[t]
            PROVE  Moves(refs, M, p, q, c, t + 1)
        <4>1. PICK s \in 1 .. n : t + 1 = s /\ order[s] \in Successors(d, {order[x]}, c)
          <5>. HIDE DEF order, n
          <5>. QED
            BY <1>10, <1>11, <2>4
        <4>2. s # 1
          <5>1. t \in Int
            BY <1>8
          <5>. HIDE DEF n
          <5>. QED
            BY <4>1, <5>1
        <4>3. order[s] \in Successors(G, {q}, c)
          BY <1>12, <2>4, <4>1 DEF Successors
        <4>. HIDE DEF order, n
        <4>. QED
          BY <1>14, <1>17, <2>1, <4>1, <4>2, <4>3
      <3>. QED
        BY <2>2, <3>1, <3>2 DEF NodeSound
    <2>5. CASE x = k1 /\ q = -1
      <3>1. q \in refs[1].eoi
        BY <1>12, <2>5 DEF G
      <3>2. ASSUME NEW t \in DOMAIN g[x].edges \ {0}, NEW c \in g[x].edges[t]
            PROVE  FALSE
        <4>1. PICK s \in 1 .. n : order[s] \in Successors(d, {order[x]}, c)
          <5>. HIDE DEF order, n
          <5>. QED
            BY <1>5, <1>10, <1>11, <2>5
        <4>2. PICK e \in d.edges : e[1] = order[x]
          BY <4>1 DEF Successors
        <4>3. order[x] \in d.eoi
          <5>1. 0 + x = x
            BY <1>3
          <5>2. h[0 + x].accept <=> order[x] \in d.eoi
            BY <1>1 DEF SameGraph
          <5>. QED
            BY <1>5, <2>5, <5>1, <5>2
        <4>4. order[x] # d.start
          <5>1. 1 \in 1 .. Len(order) /\ x \in 1 .. Len(order) /\ x # 1
            BY <1>1, <1>2, <1>5, <2>5
          <5>. QED
            BY <1>2, <5>1
        <4>. QED
          BY <4>2, <4>3, <4>4
      <3>. QED
        BY <2>2, <3>1, <3>2 DEF NodeSound
    <2>. QED
      BY <1>16, <1>18, <2>3, <2>4, <2>5
  <1>19. NetSound(g, refs, 1, M)
    BY <1>7, <1>13, <1>18 DEF NetSound, G
  <1>. QED
    BY <1>19

-----------------------------------------------------------------------------
\* Another part joins the graph.
LEMMA ContinuesToNext ==
  ASSUME NEW refs, NEW K \in Nat \ {0}, NEW p \in 1 .. K, NEW q, NEW s,
         Continues(refs, p, q, K, s), s \in refs[K].eoi
  PROVE  Continues(refs, p, q, K + 1, refs[K + 1].start)
  <1>1. K + 1 > p /\ (K + 1) - 1 = K
    OBVIOUS
  <1>2. CASE K = p /\ s = q
    <2>1. p + 1 .. K = {}
      BY <1>2
    <2>. QED
      BY <1>1, <1>2, <2>1 DEF Continues
  <1>3. CASE /\ K > p
             /\ q \in refs[p].eoi
             /\ \A m \in p + 1 .. K - 1 : refs[m].start \in refs[m].eoi
             /\ s = refs[K].start
    <2>1. \A m \in p + 1 .. K : m \in p + 1 .. K - 1 \/ m = K
      OBVIOUS
    <2>2. \A m \in p + 1 .. K : refs[m].start \in refs[m].eoi
      BY <1>3, <2>1
    <2>. QED
      BY <1>1, <1>3, <2>2 DEF Continues
  <1>. QED
    BY <1>2, <1>3 DEF Continues

LEMMA JoinedNodes ==
  ASSUME NEW net0, GoodGraph(net0, 0), NEW h, GoodGraph(h, Len(net0) - 1)
  PROVE  /\ Len(AddDfa(net0, h)) = Len(net0) - 1 + Len(h)
         /\ \A x \in 1 .. Len(net0) :
              AddDfa(net0, h)[x] = IF net0[x].accept THEN ProcessAcceptState(net0[x], h[1]) ELSE net0[x]
         /\ \A k \in 2 .. Len(h) : AddDfa(net0, h)[Len(net0) - 1 + k] = h[k]
  <1> DEFINE n == Len(net0)
             m == Len(h)
             Old(k) == IF net0[k].accept THEN ProcessAcceptState(net0[k], h[1]) ELSE net0[k]
             front == [k \in DOMAIN net0 |-> Old(k)]
             back == Tail(h)
             all == AddDfa(net0, h)
  <1>1. n \in Nat /\ n >= 1 /\ DOMAIN net0 = 1 .. n
    BY GraphFacts
  <1>2. m \in Nat /\ m >= 1 /\ DOMAIN h = 1 .. m /\ h = [k \in 1 .. m |-> h[k]]
    <2>1. n - 1 \in Nat
      <3>. HIDE DEF n
      <3>. QED
        BY <1>1
    <2>2. PICK base \in Nat : base = n - 1
      BY <2>1
    <2>3. GoodGraph(h, base)
      BY <2>2
    <2>. QED
      BY <2>3, GraphFacts
  <1>3. all = front \o back
    <2>1. net0 # <<>>
      <3>1. 1 \in DOMAIN net0
        BY <1>1
      <3>. QED
        BY <3>1
    <2>. QED
      BY <2>1 DEF AddDfa
  <1>. HIDE DEF all, Old
  <1>4. DOMAIN front = 1 .. n /\ \A k \in 1 .. n : front[k] = Old(k)
    <2>. HIDE DEF n
    <2>. QED
      BY <1>1
  <1>5. front = [k \in 1 .. n |-> front[k]]
    <2>. HIDE DEF n
    <2>. QED
      BY <1>1
  <1>. HIDE DEF front
  <1> DEFINE S == ToSet(front) \cup ToSet(h)
  <1>6. front \in Seq(S) /\ Len(front) = n
    <2>1. \A k \in 1 .. n : front[k] \in S
      BY <1>4 DEF ToSet
    <2>. HIDE DEF S, n
    <2>. QED
      BY <1>1, <1>5, <2>1
  <1>7. h \in Seq(S)
    <2>1. \A k \in 1 .. m : h[k] \in S
      BY <1>2 DEF ToSet
    <2>. HIDE DEF S, m
    <2>. QED
      BY <1>2, <2>1
  <1>. HIDE DEF S
  <1>8. back \in Seq(S) /\ Len(back) = m - 1 /\ \A k \in 1 .. m - 1 : back[k] = h[k + 1]
    BY <1>2, <1>7
  <1>. HIDE DEF back, n, m
  <1>9. /\ Len(front \o back) = Len(front) + Len(back)
        /\ \A k \in 1 .. Len(front) + Len(back) :
             (front \o back)[k] = IF k <= Len(front) THEN front[k] ELSE back[k - Len(front)]
    BY ONLY <1>6, <1>8, Concatenated
  <1>10. /\ Len(all) = n + (m - 1)
         /\ \A k \in 1 .. n + (m - 1) : all[k] = IF k <= n THEN front[k] ELSE back[k - n]
    BY <1>3, <1>6, <1>8, <1>9
  <1>11. Len(all) = n - 1 + m
    BY <1>1, <1>2, <1>10
  <1>12. ASSUME NEW x \in 1 .. n PROVE all[x] = Old(x)
    <2>1. x \in 1 .. n + (m - 1) /\ x <= n
      BY <1>1, <1>2
    <2>. QED
      BY <1>4, <1>10, <2>1
  <1>13. ASSUME NEW k \in 2 .. m PROVE all[n - 1 + k] = h[k]
    <2>1. /\ n - 1 + k \in 1 .. n + (m - 1) /\ ~ (n - 1 + k <= n) /\ (n - 1 + k) - n = k - 1
          /\ k - 1 \in 1 .. m - 1 /\ (k - 1) + 1 = k
      <3>1. n \in Nat /\ m \in Nat
        BY <1>1, <1>2
      <3>. QED
        BY ONLY <3>1
    <2>. QED
      BY <1>8, <1>10, <2>1
  <1>. QED
    BY <1>11, <1>12, <1>13 DEF all, n, m, Old

LEMMA MovesAmongMore ==
  ASSUME NEW refs, NEW M, NEW N, M \subseteq N, NEW p, NEW q, NEW c, NEW y,
         Moves(refs, M, p, q, c, y)
  PROVE  Moves(refs, N, p, q, c, y)
  BY DEF Moves

LEMMA JoinIsSound ==
  ASSUME NEW refs, NEW K \in Nat \ {0}, NEW glued, NEW M, NetSound(glued, refs, K, M),
         NEW d \in Automaton, refs[K + 1] = d,
         NEW base \in Nat, base + 1 = Len(glued),
         NEW h, GoodGraph(h, base), Len(h) = Len(BreadthFirst(d)), SameGraph(h, d, 0, base - 1),
         ~ ComesBack(d) \/ (K = 1 /\ CaretNet(glued))
  PROVE  \E N : NetSound(AddDfa(glued, h), refs, K + 1, N)
  <1> DEFINE order == BreadthFirst(d)
             n == Len(glued)
             m == Len(h)
             all == AddDfa(glued, h)
             alone == K = 1 /\ CaretNet(glued)
             S == {k \in 1 .. m : k # 1 \/ alone}
             N == M \cup {<<base + k, K + 1, order[k]>> : k \in S}
  <1>1. /\ GoodGraph(glued, 0) /\ M \subseteq (1 .. n) \X (1 .. K) \X Int
        /\ <<1, 1, refs[1].start>> \in M
        /\ \A x \in 1 .. n, p \in 1 .. K, q \in Int :
             <<x, p, q>> \in M => NodeSound(glued[x], refs, K, M, p, q)
    BY DEF NetSound
  <1>2. n \in Nat /\ n >= 1 /\ base = n - 1
    <2>1. Len(glued) \in Nat /\ Len(glued) >= 1
      BY <1>1, GraphFacts
    <2>. QED
      BY <2>1
  <1>3. /\ order \in Seq(Int) /\ Len(order) >= 1 /\ order[1] = d.start
    BY BreadthFirstFacts
  <1>4. m \in Nat /\ m >= 1 /\ \A k \in 1 .. m : order[k] \in Int
    <2>1. m = Len(order)
      OBVIOUS
    <2>. HIDE DEF order, m
    <2>. QED
      BY <1>3, <2>1
  <1>5. /\ Len(all) = base + m
        /\ \A x \in 1 .. n :
              all[x] = IF glued[x].accept THEN ProcessAcceptState(glued[x], h[1]) ELSE glued[x]
        /\ \A k \in 2 .. m : all[base + k] = h[k]
    <2>1. GoodGraph(h, Len(glued) - 1) /\ Len(glued) - 1 = base
      BY <1>2
    <2>2. /\ Len(AddDfa(glued, h)) = Len(glued) - 1 + Len(h)
          /\ \A x \in 1 .. Len(glued) :
               AddDfa(glued, h)[x]
                 = IF glued[x].accept THEN ProcessAcceptState(glued[x], h[1]) ELSE glued[x]
          /\ \A k \in 2 .. Len(h) : AddDfa(glued, h)[Len(glued) - 1 + k] = h[k]
      BY ONLY <1>1, <2>1, JoinedNodes
    <2>. QED
      BY <2>1, <2>2
  <1>6. GoodGraph(all, 0)
    <2>1. MaxStateIndex(glued) = base
      <3>1. MaxStateIndex(glued) = Len(glued) - 1
        BY <1>1, LastIndex
      <3>. QED
        BY <1>2, <3>1
    <2>2. GoodGraph(h, MaxStateIndex(glued))
      BY <2>1
    <2>. QED
      BY <1>1, <2>2, AddedIsGood
  <1>7. \A k \in 1 .. m : \A t \in DOMAIN h[k].edges : \A c \in h[k].edges[t] :
          \E s \in S : t + 1 = base + s /\ order[s] \in Successors(d, {order[k]}, c)
    <2>1. SUFFICES ASSUME NEW k \in 1 .. m, NEW t \in DOMAIN h[k].edges, NEW c \in h[k].edges[t]
                   PROVE  \E s \in S : t + 1 = base + s /\ order[s] \in Successors(d, {order[k]}, c)
      OBVIOUS
    <2>2. \A i \in 1 .. Len(h) : \A u \in DOMAIN h[i].edges : \A b \in h[i].edges[u] :
            \E s \in 1 .. Len(h) :
              /\ u = base - 1 + s
              /\ BreadthFirst(d)[s] \in Successors(d, {BreadthFirst(d)[i]}, b)
      BY SameEdgesMove
    <2>3. PICK s \in 1 .. m : t = base - 1 + s /\ order[s] \in Successors(d, {order[k]}, c)
      BY <2>2
    <2>4. t + 1 = base + s
      <3>. HIDE DEF m
      <3>. QED
        BY <1>2, <1>4, <2>3
    <2>5. s \in S
      <3>1. SUFFICES ASSUME s = 1 PROVE alone
        OBVIOUS
      <3>2. ComesBack(d)
        BY <1>3, <2>3, <3>1 DEF ComesBack, Successors
      <3>. QED
        BY <3>2
    <2>. HIDE DEF S, order
    <2>. QED
      BY <2>3, <2>4, <2>5
  <1>8. \A k \in S : k \in 1 .. m /\ <<base + k, K + 1, order[k]>> \in N
    OBVIOUS
  <1>9. M \subseteq N /\ \A k \in 1 .. m : k \notin S => k = 1
    OBVIOUS
  <1>10. ASSUME NEW p, NEW q, NEW k \in 1 .. m, Continues(refs, p, q, K + 1, order[k]),
                NEW t \in DOMAIN h[k].edges, NEW c \in h[k].edges[t]
         PROVE  Moves(refs, N, p, q, c, t + 1)
    <2>1. PICK s \in S : t + 1 = base + s /\ order[s] \in Successors(d, {order[k]}, c)
      BY <1>7
    <2>2. <<base + s, K + 1, order[s]>> \in N
      BY <1>8
    <2>. HIDE DEF N, S, order
    <2>3. PICK r \in Nat \ {0} : r = K + 1
      OBVIOUS
    <2>4. PICK from : from = order[k]
      OBVIOUS
    <2>5. /\ Continues(refs, p, q, r, from) /\ order[s] \in Successors(refs[r], {from}, c)
          /\ <<t + 1, r, order[s]>> \in N
      BY <1>10, <2>1, <2>2, <2>3, <2>4
    <2>. QED
      BY ONLY <2>5, MovesBy
  <1>11. N \subseteq (1 .. Len(all)) \X (1 .. K + 1) \X Int /\ <<1, 1, refs[1].start>> \in N
    <2>1. /\ \A k \in S : base + k \in 1 .. Len(all)
          /\ 1 .. n \subseteq 1 .. Len(all) /\ 1 .. K \subseteq 1 .. K + 1 /\ K + 1 \in 1 .. K + 1
      <3>1. \A k \in S : k \in 1 .. m
        OBVIOUS
      <3>2. \A k \in 1 .. m : base + k \in 1 .. Len(all)
        <4>. HIDE DEF m, n, all
        <4>. QED
          BY <1>2, <1>4, <1>5
      <3>3. 1 .. n \subseteq 1 .. Len(all)
        <4>. HIDE DEF m, n, all
        <4>. QED
          BY <1>2, <1>4, <1>5
      <3>. HIDE DEF S, m, n, all
      <3>. QED
        BY <3>1, <3>2, <3>3
    <2>2. \A k \in S : order[k] \in Int
      BY <1>4
    <2>3. \A y \in M : y \in (1 .. Len(all)) \X (1 .. K + 1) \X Int
      <3>. HIDE DEF all, n
      <3>. QED
        BY <1>1, <2>1
    <2>. HIDE DEF S, m, n, all, order
    <2>. QED
      BY <1>1, <2>1, <2>2, <2>3
  <1>12. \A x, p, q : <<x, p, q>> \in N =>
           \/ <<x, p, q>> \in M
           \/ \E k \in S : x = base + k /\ p = K + 1 /\ q = order[k]
    <2>. HIDE DEF S, order
    <2>. QED
      OBVIOUS
  <1>. HIDE DEF N
  \* The nodes that were there.
  <1>13. ASSUME NEW x \in 1 .. n, NEW p \in 1 .. K, NEW q \in Int, <<x, p, q>> \in M
         PROVE  NodeSound(all[x], refs, K + 1, N, p, q)
    <2>1. NodeSound(glued[x], refs, K, M, p, q)
      BY <1>1, <1>13
    <2>2. \A t \in DOMAIN glued[x].edges \ {0} : \A c \in glued[x].edges[t] :
            Moves(refs, N, p, q, c, t + 1)
      BY <1>9, <2>1, MovesAmongMore DEF NodeSound
    <2>3. CASE ~ glued[x].accept
      <3>1. all[x] = glued[x]
        BY <1>5, <2>3
      <3>. QED
        BY <2>2, <2>3, <3>1 DEF NodeSound
    <2>4. CASE glued[x].accept
      <3> DEFINE merged == MergeEdges(glued[x].edges, h[1].edges)
      <3>1. all[x].accept = h[1].accept /\ all[x].edges = merged
        <4>1. all[x] = ProcessAcceptState(glued[x], h[1])
          BY <1>5, <2>4
        <4>. HIDE DEF all
        <4>. QED
          BY <4>1 DEF ProcessAcceptState, Node
      <3>2. Continues(refs, p, q, K + 1, d.start)
        <4>1. PICK s : Continues(refs, p, q, K, s) /\ s \in refs[K].eoi
          BY <2>1, <2>4 DEF NodeSound
        <4>2. Continues(refs, p, q, K + 1, refs[K + 1].start)
          BY <4>1, ContinuesToNext
        <4>. QED
          BY <4>2
      <3>3. all[x].accept => d.start \in refs[K + 1].eoi
        <4>1. 1 \in 1 .. Len(order) /\ 0 + 1 = 1
          BY <1>3
        <4>2. h[0 + 1].accept <=> order[1] \in d.eoi
          BY <4>1 DEF SameGraph
        <4>. HIDE DEF all, order
        <4>. QED
          BY <1>3, <3>1, <4>1, <4>2
      <3>4. ASSUME NEW t \in DOMAIN merged \ {0}, NEW c \in merged[t]
            PROVE  Moves(refs, N, p, q, c, t + 1)
        <4>1. \/ t \in DOMAIN h[1].edges /\ c \in h[1].edges[t]
              \/ t \in DOMAIN glued[x].edges /\ c \in glued[x].edges[t]
          BY DEF MergeEdges
        <4>2. CASE t \in DOMAIN h[1].edges /\ c \in h[1].edges[t]
          <5>1. PICK k \in 1 .. m : k = 1
            BY <1>4
          <5>2. Continues(refs, p, q, K + 1, order[k])
            BY <1>3, <3>2, <5>1
          <5>3. t \in DOMAIN h[k].edges /\ c \in h[k].edges[t]
            BY <4>2, <5>1
          <5>. HIDE DEF order, m, merged
          <5>. QED
            BY <1>10, <5>2, <5>3
        <4>3. CASE t \in DOMAIN glued[x].edges /\ c \in glued[x].edges[t]
          BY <2>2, <4>3
        <4>. QED
          BY <4>1, <4>2, <4>3
      <3>. HIDE DEF merged, all
      <3>. QED
        BY <3>1, <3>2, <3>3, <3>4 DEF NodeSound
    <2>. QED
      BY <2>3, <2>4
  \* The nodes of the part.
  <1>14. ASSUME NEW k \in S
         PROVE  /\ all[base + k].accept => h[k].accept
                /\ \A t \in DOMAIN all[base + k].edges : \A c \in all[base + k].edges[t] :
                     t \in DOMAIN h[k].edges /\ c \in h[k].edges[t]
    <2>1. CASE k # 1
      <3>1. k \in 2 .. m
        <4>1. k \in 1 .. m
          OBVIOUS
        <4>. HIDE DEF m, S
        <4>. QED
          BY <1>4, <2>1, <4>1
      <3>2. all[base + k] = h[k]
        BY <1>5, <3>1
      <3>. QED
        BY <3>2
    <2>2. CASE k = 1
      <3>1. alone
        BY <2>2
      <3>2. n = 2 /\ base + k = 2 /\ glued[2].accept /\ DOMAIN glued[2].edges = {}
        BY <2>2, <3>1 DEF CaretNet
      <3>3. all[2] = ProcessAcceptState(glued[2], h[1])
        <4>1. 2 \in 1 .. n
          BY <3>2
        <4>. QED
          BY <1>5, <3>2, <4>1
      <3>4. all[2].accept = h[1].accept /\ all[2].edges = MergeEdges(glued[2].edges, h[1].edges)
        <4>. HIDE DEF all
        <4>. QED
          BY <3>3 DEF ProcessAcceptState, Node
      <3>5. \A t \in DOMAIN all[2].edges : t \in DOMAIN h[1].edges /\ all[2].edges[t] = h[1].edges[t]
        <4>. HIDE DEF all
        <4>. QED
          BY <3>2, <3>4 DEF MergeEdges
      <3>. HIDE DEF all
      <3>. QED
        BY <2>2, <3>2, <3>4, <3>5
    <2>. QED
      BY <2>1, <2>2
  <1>15. ASSUME NEW k \in S
         PROVE  NodeSound(all[base + k], refs, K + 1, N, K + 1, order[k])
    <2>1. Continues(refs, K + 1, order[k], K + 1, order[k])
      BY DEF Continues
    <2>2. k \in 1 .. m
      OBVIOUS
    <2>3. h[k].accept => order[k] \in refs[K + 1].eoi
      <3>1. k \in 1 .. Len(order) /\ 0 + k = k
        BY <2>2
      <3>2. h[0 + k].accept <=> order[k] \in d.eoi
        BY <3>1 DEF SameGraph
      <3>. HIDE DEF order
      <3>. QED
        BY <3>1, <3>2
    <2>. HIDE DEF all, order, m, S
    <2>4. ASSUME NEW t \in DOMAIN all[base + k].edges, NEW c \in all[base + k].edges[t]
          PROVE  Moves(refs, N, K + 1, order[k], c, t + 1)
      <3>1. t \in DOMAIN h[k].edges /\ c \in h[k].edges[t]
        BY <1>14
      <3>. QED
        BY <1>10, <2>1, <2>2, <3>1
    <2>. QED
      BY <1>14, <2>1, <2>3, <2>4 DEF NodeSound
  <1>16. ASSUME NEW x \in 1 .. Len(all), NEW p \in 1 .. K + 1, NEW q \in Int, <<x, p, q>> \in N
         PROVE  NodeSound(all[x], refs, K + 1, N, p, q)
    <2>1. CASE <<x, p, q>> \in M
      <3>1. x \in 1 .. n /\ p \in 1 .. K /\ q \in Int
        <4>. HIDE DEF n, all
        <4>. QED
          BY <1>1, <2>1
      <3>. HIDE DEF n, all
      <3>. QED
        BY <1>13, <2>1, <3>1
    <2>2. CASE \E k \in S : x = base + k /\ p = K + 1 /\ q = order[k]
      <3>. HIDE DEF S, all, order
      <3>. QED
        BY <1>15, <2>2
    <2>. QED
      BY <1>12, <1>16, <2>1, <2>2
  <1>. HIDE DEF all
  <1>17. NetSound(all, refs, K + 1, N)
    BY <1>6, <1>11, <1>16 DEF NetSound
  <1>. QED
    BY <1>17 DEF all

-----------------------------------------------------------------------------
\* What the states that are on after j - 1 bytes stand for was read.
RowsSound(M) ==
  \A j \in 1 .. Len(rows) : \A s \in rows[j] :
    \E p \in 1 .. Len(parts), q \in Int :
      <<s + 1, p, q>> \in M /\ Reading(References, In, p, q, j - 1)

\* After the parts compiled so far, and while the circuit is evaluated.
SoundParts == \E M : NetSound(net, References, next - 1, M)
SoundRows == \E M : NetSound(net, References, Len(parts), M) /\ RowsSound(M)

SoundInv ==
  /\ stage = "parts" =>
       /\ Len(parts) >= 1 /\ next <= Len(parts) + 1
       /\ parts[1].caret # "none" => Len(parts) >= 2
       /\ next = 1 => net = <<>>
       /\ next = 2 /\ parts[1].caret = "bare" => CaretNet(net)
       /\ Separable /\ next > 1 => SoundParts
  /\ stage = "bytes" => Len(parts) >= 1 /\ InRange(msg) /\ (Separable => SoundRows)
  /\ MatchIsSound

LEMMA OtherStagesKeepSound ==
  ASSUME stage' \notin {"parts", "bytes", "finished"}
  PROVE  SoundInv'
  BY DEF SoundInv, MatchIsSound, Finished

LEMMA ReferencesFacts ==
  ASSUME parts \in Seq(Part)
  PROVE  /\ Len(parts) \in Nat /\ Len(References) = Len(parts)
         /\ \A k \in 1 .. Len(parts) : References[k] = ReferenceDfa(k) /\ parts[k].dfa \in Automaton
         /\ \A k \in 1 .. Len(parts) : parts[k].caret \in {"none", "bare", "group"}
  <1>1. Len(parts) \in Nat /\ DOMAIN parts = 1 .. Len(parts) /\ \A k \in 1 .. Len(parts) : parts[k] \in Part
    OBVIOUS
  <1>2. References = [k \in 1 .. Len(parts) |-> ReferenceDfa(k)]
    BY <1>1 DEF References
  <1>3. References = [k \in 1 .. Len(parts) |-> References[k]]
    BY <1>2
  <1>4. Len(References) = Len(parts)
    BY <1>1, <1>3, Listed
  <1>. QED
    BY <1>1, <1>2, <1>4 DEF Part

LEMMA CaretKeepsSound ==
  ASSUME RegexInv, AnchoredInv, ProcessCaret
  PROVE  SoundInv'
  <1> DEFINE c == config[1]
             first == [c EXCEPT !.dfa = c.group, !.dollar = FALSE, !.public = FALSE]
             rest == [config EXCEPT ![1].caret = "none"]
  <1>1. /\ stage = "caret" /\ stage' = "parts"
        /\ parts' = IF c.caret = "none" THEN config ELSE <<first>> \o rest
        /\ UNCHANGED <<config, next, net>>
    BY DEF ProcessCaret
  <1>2. next' = 1 /\ net' = <<>>
    BY <1>1 DEF AnchoredInv
  <1>3. config \in Seq(Part) /\ config # <<>> /\ Len(config) \in Nat /\ Len(config) >= 1
    <2>1. config \in Seq(Part) /\ config # <<>>
      BY <1>1 DEF RegexInv
    <2>. QED
      BY <2>1
  <1>4. CASE c.caret = "none"
    <2>1. parts' = config
      BY <1>1, <1>4
    <2>2. Len(parts') >= 1 /\ next' <= Len(parts') + 1 /\ parts'[1].caret = "none"
      BY <1>2, <1>3, <1>4, <2>1
    <2>. QED
      BY <1>1, <1>2, <2>2 DEF SoundInv, MatchIsSound, Finished
  <1>5. CASE c.caret # "none"
    <2>1. parts' = <<first>> \o rest
      BY <1>1, <1>5
    <2>2. DOMAIN rest = 1 .. Len(config)
      BY <1>3
    <2>. HIDE DEF first, rest
    <2>3. Len(rest) = Len(config)
      <3>1. PICK n \in Nat : n = Len(config)
        BY <1>3
      <3>2. rest = [k \in 1 .. n |-> rest[k]]
        <4>1. rest = [k \in DOMAIN rest |-> rest[k]]
          BY DEF rest
        <4>. QED
          BY <2>2, <3>1, <4>1
      <3>. QED
        BY <3>1, <3>2, Listed
    <2> DEFINE S == {first} \cup ToSet(rest)
    <2>4. <<first>> \in Seq(S) /\ Len(<<first>>) = 1
      <3>1. first \in S
        OBVIOUS
      <3>. HIDE DEF S
      <3>. QED
        BY <3>1
    <2>5. rest \in Seq(S)
      <3>1. PICK n \in Nat : n = Len(config)
        BY <1>3
      <3>2. \A k \in 1 .. n : rest[k] \in S
        BY <2>2, <3>1 DEF ToSet
      <3>3. rest = [k \in 1 .. n |-> rest[k]]
        <4>1. rest = [k \in DOMAIN rest |-> rest[k]]
          BY DEF rest
        <4>. QED
          BY <2>2, <3>1, <4>1
      <3>. HIDE DEF S
      <3>. QED
        BY <3>2, <3>3
    <2>. HIDE DEF S
    <2>6. Len(<<first>> \o rest) = 1 + Len(config)
      BY <2>3, <2>4, <2>5
    <2>7. Len(parts') >= 2 /\ next' <= Len(parts') + 1
      BY <1>2, <1>3, <2>1, <2>6
    <2>. QED
      BY <1>1, <1>2, <2>7 DEF SoundInv, MatchIsSound, Finished
  <1>. QED
    BY <1>4, <1>5

\* The first part begins the graph.
LEMMA FirstPartIsSound ==
  ASSUME RegexInv, Len(parts) >= 1, next = 1, net = <<>>, ~ PartFails(next),
         parts[1].caret # "none" => Len(parts) >= 2,
         NEW glued, glued = AddDfa(net, RenameStates(PartGraph(next), MaxStateIndex(net)))
  PROVE  /\ parts[1].caret = "bare" => CaretNet(glued)
         /\ Separable => \E M : NetSound(glued, References, 1, M)
  <1>1. parts \in Seq(Part)
    BY DEF RegexInv
  <1>2. 1 \in 1 .. Len(parts)
    BY <1>1, ReferencesFacts
  <1>3. References[1] = ReferenceDfa(1) /\ parts[1].caret \in {"none", "bare", "group"}
    BY <1>1, <1>2, ReferencesFacts
  <1>4. PICK d \in Automaton : d = parts[1].dfa
    BY <1>1, <1>2, ReferencesFacts
  <1>5. PICK refs : refs = References
    OBVIOUS
  <1> DEFINE h == ConvertDfaToGraph(d)
  <1>6. SearchNet(h, d) /\ WithoutStart(h)
    BY ConvertedIsGood, ConvertedIsSame DEF SearchNet
  <1>7. MaxStateIndex(net) = 0 /\ \A g : AddDfa(net, g) = g
    BY DEF MaxStateIndex, AddDfa
  <1>8. CASE parts[1].caret = "none"
    <2>1. refs[1] = d /\ PartGraph(next) = h
      BY <1>3, <1>4, <1>5, <1>8 DEF ReferenceDfa, PartGraph
    <2>2. SearchNet(glued, d)
      BY <2>1, CompiledAlone
    <2>3. \E M : NetSound(glued, refs, 1, M)
      BY <2>1, <2>2, FirstIsSound
    <2>. QED
      BY <1>5, <1>8, <2>3
  <1>9. CASE parts[1].caret = "bare"
    <2>1. refs[1] = CaretDfa /\ PartGraph(next) = CaretGraph
      BY <1>3, <1>5, <1>9 DEF ReferenceDfa, PartGraph
    <2>2. CaretNet(glued)
      BY <1>7, <2>1, CaretIsRenamed
    <2>3. \E M : NetSound(glued, refs, 1, M)
      BY <2>1, <2>2, CaretIsSound
    <2>. QED
      BY <1>5, <2>2, <2>3
  <1>10. CASE parts[1].caret = "group"
    <2>1. refs[1] = GroupDfa(d) /\ PartGraph(next) = ModifyGraphForCaret(h)
      BY <1>3, <1>4, <1>5, <1>10 DEF ReferenceDfa, PartGraph
    <2>2. CanModifyForCaret(h)
      BY <1>4, <1>10 DEF PartFails
    <2>3. glued = RenameStates(ModifyGraphForCaret(h), 0)
      BY <1>7, <2>1
    <2>4. ASSUME Separable
          PROVE  \A e \in d.edges : e[1] \notin d.eoi \ {d.start}
      <3>1. 2 \in 2 .. Len(parts)
        BY <1>1, <1>10, ReferencesFacts
      <3>. QED
        BY <1>4, <1>10, <2>4, <3>1 DEF Separable
    <2>. HIDE DEF h
    <2>5. ASSUME Separable PROVE \E M : NetSound(glued, refs, 1, M)
      BY <1>6, <2>1, <2>2, <2>3, <2>4, <2>5, GroupIsSound
    <2>. QED
      BY <1>5, <1>10, <2>5
  <1>. QED
    BY <1>3, <1>8, <1>9, <1>10

LEMMA NextPartIsSound ==
  ASSUME RegexInv, next > 1, next <= Len(parts), Separable, SoundParts,
         next = 2 /\ parts[1].caret = "bare" => CaretNet(net),
         NEW glued, glued = AddDfa(net, RenameStates(PartGraph(next), MaxStateIndex(net)))
  PROVE  \E M : NetSound(glued, References, next, M)
  <1>1. parts \in Seq(Part) /\ next \in Nat \ {0}
    BY DEF RegexInv
  <1>2. next \in 2 .. Len(parts) /\ next \in 1 .. Len(parts) /\ next # 1
    BY <1>1, ReferencesFacts
  <1>3. PICK K \in Nat \ {0} : K = next - 1 /\ K + 1 = next
    BY <1>1
  <1>4. PICK refs : refs = References
    OBVIOUS
  <1>5. PICK d \in Automaton : d = parts[next].dfa
    BY <1>1, <1>2, ReferencesFacts
  <1>6. refs[K + 1] = d
    BY <1>1, <1>2, <1>3, <1>4, <1>5, ReferencesFacts DEF ReferenceDfa
  <1>7. PICK old : old = net
    OBVIOUS
  <1>8. PICK M : NetSound(old, refs, K, M)
    BY <1>3, <1>4, <1>7 DEF SoundParts
  <1>9. PICK base \in Nat : base + 1 = Len(old) /\ MaxStateIndex(old) = base
    <2>1. GoodGraph(old, 0)
      BY <1>8 DEF NetSound
    <2>2. MaxStateIndex(old) = Len(old) - 1 /\ Len(old) \in Nat /\ Len(old) >= 1
      BY <2>1, LastIndex, GraphFacts
    <2>. QED
      BY <2>2
  <1> DEFINE plain == ConvertDfaToGraph(d)
             h == RenameStates(plain, base)
  <1>10. PartGraph(next) = plain
    BY <1>2, <1>5 DEF PartGraph
  <1>11. GoodGraph(plain, 0) /\ Len(plain) = Len(BreadthFirst(d)) /\ SameGraph(plain, d, 0, -1)
    BY ConvertedIsGood, ConvertedIsSame
  <1>12. glued = AddDfa(old, h)
    BY <1>7, <1>9, <1>10
  <1>. HIDE DEF plain
  <1>13. GoodGraph(h, base) /\ Len(h) = Len(BreadthFirst(d)) /\ SameGraph(h, d, 0, base - 1)
    <2>1. GoodGraph(h, base)
      BY <1>11, RenamedIsGood
    <2>2. Len(h) = Len(plain) /\ SameGraph(h, d, 0, base - 1)
      BY <1>11, RenamedIsSame
    <2>. QED
      BY <1>11, <2>1, <2>2
  <1>14. ~ ComesBack(d) \/ (K = 1 /\ CaretNet(old))
    <2>1. ~ ComesBack(parts[next].dfa) \/ (next = 2 /\ parts[1].caret = "bare")
      BY <1>2 DEF Separable
    <2>2. next = 2 => K = 1
      BY <1>3
    <2>. QED
      BY <1>5, <1>7, <2>1, <2>2
  <1>. HIDE DEF h
  <1>15. \E N : NetSound(AddDfa(old, h), refs, K + 1, N)
    BY ONLY <1>6, <1>8, <1>9, <1>13, <1>14, JoinIsSound
  <1>. QED
    BY <1>3, <1>4, <1>12, <1>15

LEMMA PartKeepsSound ==
  ASSUME RegexInv, SoundInv, CompilePart
  PROVE  SoundInv'
  <1>0. /\ stage = "parts" /\ next <= Len(parts)
        /\ UNCHANGED <<config, parts>>
    BY DEF CompilePart
  <1>1. CASE PartFails(next)
    <2>1. stage' = "error"
      BY <1>1 DEF CompilePart
    <2>. QED
      BY <2>1, OtherStagesKeepSound
  <1>2. CASE ~ PartFails(next)
    <2> DEFINE glued == AddDfa(net, RenameStates(PartGraph(next), MaxStateIndex(net)))
    <2>1. net' = glued /\ next' = next + 1 /\ stage' = "parts"
      BY <1>0, <1>2 DEF CompilePart
    <2>2. next \in Nat \ {0} /\ parts \in Seq(Part) /\ Len(parts) \in Nat
      BY ReferencesFacts DEF RegexInv
    <2>3. /\ Len(parts) >= 1
          /\ parts[1].caret # "none" => Len(parts) >= 2
          /\ next = 1 => net = <<>>
          /\ next = 2 /\ parts[1].caret = "bare" => CaretNet(net)
          /\ Separable /\ next > 1 => SoundParts
      BY <1>0 DEF SoundInv
    <2>4. ASSUME next = 1
          PROVE  /\ parts[1].caret = "bare" => CaretNet(glued)
                 /\ Separable => \E M : NetSound(glued, References, 1, M)
      <3>1. net = <<>>
        BY <2>3, <2>4
      <3>. QED
        BY <1>2, <2>3, <2>4, <3>1, FirstPartIsSound
    <2>5. ASSUME next # 1, Separable PROVE \E M : NetSound(glued, References, next, M)
      <3>1. next > 1 /\ SoundParts
        BY <2>2, <2>3, <2>5
      <3>. QED
        BY <1>0, <2>3, <2>5, <3>1, NextPartIsSound
    <2>. HIDE DEF glued
    <2>6. Separable => \E M : NetSound(glued, References, next, M)
      BY <2>4, <2>5
    <2>7. (Separable' <=> Separable) /\ References' = References
      BY <1>0 DEF Separable, References, ReferenceDfa
    <2>8. next' - 1 = next /\ next' <= Len(parts) + 1 /\ next' # 1 /\ (next' = 2 => next = 1)
      BY <1>0, <2>1, <2>2
    <2>9. Separable' => SoundParts'
      BY <2>1, <2>6, <2>7, <2>8 DEF SoundParts
    <2>10. next' = 2 /\ parts'[1].caret = "bare" => CaretNet(net')
      BY <1>0, <2>1, <2>4, <2>8
    <2>. QED
      BY <1>0, <2>1, <2>3, <2>8, <2>9, <2>10 DEF SoundInv, MatchIsSound, Finished, CaretNet
  <1>. QED
    BY <1>1, <1>2

LEMMA CircuitKeepsSound ==
  ASSUME RegexInv, AnchoredInv, SoundInv, GenerateCircuit
  PROVE  SoundInv'
  <1>1. /\ stage = "parts" /\ next > Len(parts)
        /\ UNCHANGED <<config, parts, next, net, rows>>
        /\ \/ stage' = "error"
           \/ stage' = IF InRange(msg') THEN "bytes" ELSE "unsatisfied"
    BY DEF GenerateCircuit, compiled
  <1>2. CASE stage' # "bytes"
    BY <1>1, <1>2, OtherStagesKeepSound
  <1>3. CASE stage' = "bytes"
    <2>1. InRange(msg')
      BY <1>1, <1>3
    <2>2. Len(parts) >= 1 /\ next <= Len(parts) + 1 /\ (Separable /\ next > 1 => SoundParts)
      BY <1>1 DEF SoundInv
    <2>3. next - 1 = Len(parts) /\ next > 1
      <3>1. next \in Nat /\ Len(parts) \in Nat
        BY ReferencesFacts DEF RegexInv
      <3>. QED
        BY <1>1, <2>2, <3>1
    <2>4. rows' = <<{}>>
      BY <1>1 DEF AnchoredInv
    <2>5. (Separable' <=> Separable) /\ References' = References
      BY <1>1 DEF Separable, References, ReferenceDfa
    <2>6. ASSUME Separable' PROVE SoundRows'
      <3>1. PICK M : NetSound(net, References, Len(parts), M)
        BY <2>2, <2>3, <2>5, <2>6 DEF SoundParts
      <3>2. \A j \in 1 .. Len(rows') : rows'[j] = {}
        BY <2>4
      <3>3. RowsSound(M)'
        BY <3>2 DEF RowsSound
      <3>4. NetSound(net', References', Len(parts'), M)
        BY <1>1, <2>5, <3>1
      <3>. QED
        BY <3>3, <3>4 DEF SoundRows
    <2>. QED
      BY <1>1, <1>3, <2>1, <2>2, <2>6 DEF SoundInv, MatchIsSound, Finished
  <1>. QED
    BY <1>2, <1>3

\* A state that a byte switches on stands for what was read with that byte.
LEMMA RowIsSound ==
  ASSUME NEW refs, NEW input \in Seq(Int), NEW K \in Nat, NEW M, NetSound(net, refs, K, M),
         NEW i \in 0 .. Len(input) - 1,
         NEW x \in 1 .. Len(net), NEW p \in 1 .. K, NEW q \in Int,
         <<x, p, q>> \in M, Reading(refs, input, p, q, i),
         NEW s \in NonZero,
         \E e \in Into(s) : e[1] = x - 1 /\ BytesMatch(e[2], input[i + 1])
  PROVE  \E r \in 1 .. K, z \in Int :
           <<s + 1, r, z>> \in M /\ Reading(refs, input, r, z, i + 1)
  <1>1. PICK c \in Int : c = input[i + 1]
    <2>1. i + 1 \in 1 .. Len(input)
      OBVIOUS
    <2>. QED
      BY <2>1
  <1>2. GoodGraph(net, 0) /\ M \subseteq (1 .. Len(net)) \X (1 .. K) \X Int
    BY DEF NetSound
  <1>3. s \in DOMAIN net[x].edges /\ c \in net[x].edges[s]
    <2>1. \E e \in Into(s) : e[1] = x - 1 /\ BytesMatch(e[2], c)
      BY <1>1
    <2>. QED
      BY <1>2, <2>1, EdgesInto
  <1>4. s # 0
    BY DEF NonZero
  <1>5. Moves(refs, M, p, q, c, s + 1)
    <2>1. NodeSound(net[x], refs, K, M, p, q)
      BY DEF NetSound
    <2>. QED
      BY <1>3, <1>4, <2>1 DEF NodeSound
  <1>6. PICK r \in Nat \ {0} : \E from, z :
          Continues(refs, p, q, r, from) /\ z \in Successors(refs[r], {from}, c) /\ <<s + 1, r, z>> \in M
    BY <1>5 DEF Moves
  <1>7. PICK from, z :
          Continues(refs, p, q, r, from) /\ z \in Successors(refs[r], {from}, c) /\ <<s + 1, r, z>> \in M
    BY <1>6
  <1>8. i \in 0 .. Len(input) /\ p \in Nat \ {0} /\ r \in Nat
    BY <1>6
  <1>9. Reading(refs, input, r, from, i)
    BY <1>7, <1>8, ReadingContinues
  <1>10. Reading(refs, input, r, z, i + 1)
    BY <1>1, <1>6, <1>7, <1>9, ReadingGoesOn
  <1>11. r \in 1 .. K /\ z \in Int
    BY <1>2, <1>7
  <1>. QED
    BY <1>7, <1>10, <1>11

LEMMA InputFacts ==
  ASSUME RegexInv, stage = "bytes", InRange(msg)
  PROVE  In \in Seq(Int) /\ Len(In) = NumBytes /\ NumBytes \in Nat
  <1>1. msg \in Message
    BY DEF RegexInv
  <1>. QED
    BY <1>1, InputBytes, MsgBytesAssumption DEF NumBytes

LEMMA RowsKeepSound ==
  ASSUME RegexInv, SoundInv, ReadByte
  PROVE  SoundInv'
  <1> DEFINE i == Len(rows) - 1
             b == In[i + 1]
             continued == Continued(States(i), b)
             row == continued \cup IF continued = {} THEN Started(b) ELSE {}
  <1>1. /\ stage = "bytes" /\ stage' = "bytes" /\ i < NumBytes
        /\ rows' = Append(rows, row)
        /\ UNCHANGED <<config, parts, net, msg>>
    BY DEF ReadByte, compiled
  <1>2. Len(parts) >= 1 /\ InRange(msg) /\ (Separable => SoundRows)
    BY <1>1 DEF SoundInv
  <1>3. PICK input \in Seq(Int) : input = In /\ Len(input) = NumBytes
    BY <1>1, <1>2, InputFacts
  <1>4. /\ rows \in Seq(SUBSET Nat) /\ Len(rows) \in Nat /\ Len(rows) >= 1
        /\ i \in 0 .. Len(input) - 1 /\ i + 1 = Len(rows)
    <2>1. rows \in Seq(SUBSET Nat) /\ rows # <<>>
      BY DEF RegexInv
    <2>2. Len(rows) \in Nat /\ Len(rows) >= 1
      BY <2>1
    <2>. QED
      BY <1>1, <1>3, <2>1, <2>2
  <1>. HIDE DEF row
  <1>5. /\ Len(rows') = Len(rows) + 1 /\ rows'[Len(rows) + 1] = row
        /\ \A k \in 1 .. Len(rows) : rows'[k] = rows[k]
    BY <1>1, <1>4
  <1>6. /\ Separable' <=> Separable
        /\ References' = References /\ In' = In
    BY <1>1 DEF Separable, References, ReferenceDfa, In
  <1>7. ASSUME Separable PROVE SoundRows'
    <2>1. PICK refs : refs = References
      OBVIOUS
    <2>2. PICK K \in Nat : K = Len(parts)
      BY ReferencesFacts DEF RegexInv
    <2>3. PICK M : NetSound(net, refs, K, M) /\ RowsSound(M)
      BY <1>2, <1>7, <2>1, <2>2 DEF SoundRows
    <2>4. /\ M \subseteq (1 .. Len(net)) \X (1 .. K) \X Int
          /\ <<1, 1, refs[1].start>> \in M
      BY <2>3 DEF NetSound
    <2>5. PICK j \in 0 .. Len(input) - 1 : j = i
      BY <1>4
    <2>6. ASSUME NEW s \in row
          PROVE  \E r \in 1 .. K, z \in Int :
                   <<s + 1, r, z>> \in M /\ Reading(refs, input, r, z, j + 1)
      <3>1. CASE s \in continued
        <4>1. s \in NonZero /\ \E e \in Into(s) : e[1] \in States(i) \ {0} /\ BytesMatch(e[2], b)
          BY <3>1 DEF Continued
        <4>2. PICK e \in Into(s) : e[1] \in States(i) \ {0} /\ BytesMatch(e[2], b)
          BY <4>1
        <4>3. e[1] \in rows[Len(rows)] /\ e[1] \in Nat
          <5>1. e[1] \in rows[i + 1]
            BY <4>2 DEF States
          <5>2. rows[Len(rows)] \in SUBSET Nat
            BY <1>4
          <5>. QED
            BY <1>4, <5>1, <5>2
        <4>4. PICK n \in Nat : n = e[1]
          BY <4>3
        <4>5. PICK k \in 1 .. Len(rows) : k = Len(rows) /\ k - 1 = j
          <5>1. Len(rows) \in 1 .. Len(rows)
            BY <1>4
          <5>2. Len(rows) - 1 = j
            BY <2>5
          <5>. QED
            BY <5>1, <5>2
        <4>6. PICK p \in 1 .. K : \E q \in Int : <<n + 1, p, q>> \in M /\ Reading(refs, input, p, q, j)
          <5>1. n \in rows[k]
            BY <4>3, <4>4, <4>5
          <5>2. \E p \in 1 .. Len(parts), q \in Int :
                  <<n + 1, p, q>> \in M /\ Reading(References, In, p, q, k - 1)
            BY <2>3, <5>1 DEF RowsSound
          <5>. QED
            BY <1>3, <2>1, <2>2, <4>5, <5>2
        <4>7. PICK q \in Int : <<n + 1, p, q>> \in M /\ Reading(refs, input, p, q, j)
          BY <4>6
        <4>8. PICK x \in 1 .. Len(net) : x = n + 1
          BY <2>4, <4>7
        <4>9. \E f \in Into(s) : f[1] = x - 1 /\ BytesMatch(f[2], input[j + 1])
          <5>1. x - 1 = n
            BY <4>8
          <5>. QED
            BY <1>3, <2>5, <4>2, <4>4, <5>1
        <4>10. <<x, p, q>> \in M /\ Reading(refs, input, p, q, j)
          BY <4>7, <4>8
        <4>. HIDE DEF i, b, continued
        <4>. QED
          BY <2>3, <4>1, <4>9, <4>10, RowIsSound
      <3>2. CASE s \in Started(b)
        <4>1. s \in NonZero /\ \E e \in Into(s) : e[1] = 0 /\ BytesMatch(e[2], b)
          BY <3>2 DEF Started
        <4>2. PICK x \in 1 .. Len(net) : x = 1
          BY <2>4
        <4>3. PICK p \in 1 .. K : p = 1
          BY <2>4
        <4>4. PICK q \in Int : q = refs[1].start
          BY <2>4
        <4>5. <<x, p, q>> \in M
          BY <2>4, <4>2, <4>3, <4>4
        <4>6. Reading(refs, input, p, q, j)
          <5>1. j \in 0 .. Len(input)
            OBVIOUS
          <5>2. Reading(refs, input, 1, refs[1].start, j)
            BY <5>1, ReadingBegins
          <5>. QED
            BY <4>3, <4>4, <5>2
        <4>7. \E f \in Into(s) : f[1] = x - 1 /\ BytesMatch(f[2], input[j + 1])
          <5>1. x - 1 = 0
            BY <4>2
          <5>. QED
            BY <1>3, <2>5, <4>1, <5>1
        <4>. HIDE DEF i, b, continued
        <4>. QED
          BY <2>3, <4>1, <4>5, <4>6, <4>7, RowIsSound
      <3>. QED
        BY <2>6, <3>1, <3>2 DEF row
    <2>. HIDE DEF i, b, continued
    <2>7. ASSUME NEW k \in 1 .. Len(rows'), NEW s \in rows'[k]
          PROVE  \E p \in 1 .. Len(parts), q \in Int :
                   <<s + 1, p, q>> \in M /\ Reading(References, In, p, q, k - 1)
      <3>1. CASE k = Len(rows) + 1
        <4>1. s \in row /\ k - 1 = j + 1
          BY <1>4, <1>5, <2>5, <2>7, <3>1
        <4>. QED
          BY <1>3, <2>1, <2>2, <2>6, <4>1
      <3>2. CASE k # Len(rows) + 1
        <4>1. k \in 1 .. Len(rows)
          BY <1>4, <1>5, <3>2
        <4>2. s \in rows[k]
          BY <1>5, <2>7, <4>1
        <4>. QED
          BY <2>3, <4>1, <4>2 DEF RowsSound
      <3>. QED
        BY <3>1, <3>2
    <2>8. RowsSound(M)'
      BY <1>1, <1>6, <2>7 DEF RowsSound
    <2>9. NetSound(net', References', Len(parts'), M)
      BY <1>1, <1>6, <2>1, <2>2, <2>3
    <2>. QED
      BY <2>8, <2>9 DEF SoundRows
  <1>. QED
    BY <1>1, <1>2, <1>6, <1>7 DEF SoundInv, MatchIsSound, Finished

\* An accepting state that is on ends a word of every part, one after the other.
LEMMA AcceptedIsRead ==
  ASSUME RegexInv, stage = "bytes", InRange(msg), Len(parts) >= 1, SoundRows,
         Len(rows) = NumBytes + 1, NEW i \in 0 .. NumBytes, Accepted(i)
  PROVE  \E j \in 0 .. NumBytes : i \in EndsOfAll(References, In, j)
  <1>1. PICK input \in Seq(Int) : input = In /\ Len(input) = NumBytes
    BY InputFacts
  <1>2. PICK refs : refs = References
    OBVIOUS
  <1>3. PICK K \in Nat \ {0} : K = Len(parts) /\ K = Len(refs)
    BY <1>2, ReferencesFacts DEF RegexInv
  <1>4. PICK M : NetSound(net, refs, K, M) /\ RowsSound(M)
    BY <1>2, <1>3 DEF SoundRows
  <1>5. /\ GoodGraph(net, 0) /\ M \subseteq (1 .. Len(net)) \X (1 .. K) \X Int
        /\ <<1, 1, refs[1].start>> \in M
    BY <1>4 DEF NetSound
  <1>6. PICK k \in 1 .. Len(net) : net[k].accept /\ k - 1 \in States(i)
    <2>1. PICK k \in AcceptNodes(net) : net[k].id \in States(i)
      BY DEF Accepted
    <2>2. k \in 1 .. Len(net) /\ net[k].id = 0 + k - 1 /\ net[k].accept
      BY <1>5, <2>1, GraphFacts DEF AcceptNodes
    <2>3. 0 + k - 1 = k - 1
      BY <2>2
    <2>. QED
      BY <2>1, <2>2, <2>3
  <1>7. i \in 0 .. Len(input) /\ NumBytes \in Nat
    BY <1>1, MsgBytesAssumption DEF NumBytes
  <1>8. PICK p \in 1 .. K : \E q \in Int : <<k, p, q>> \in M /\ Reading(refs, input, p, q, i)
    <2>1. CASE k - 1 \in rows[i + 1]
      <3>1. PICK j \in 1 .. Len(rows) : j = i + 1 /\ j - 1 = i
        BY <1>7
      <3>2. PICK n : n = k - 1 /\ n + 1 = k
        OBVIOUS
      <3>3. n \in rows[j]
        BY <2>1, <3>1, <3>2
      <3>4. \E p \in 1 .. Len(parts), q \in Int :
              <<n + 1, p, q>> \in M /\ Reading(References, In, p, q, j - 1)
        BY <1>4, <3>3 DEF RowsSound
      <3>. QED
        BY <1>1, <1>2, <1>3, <3>1, <3>2, <3>4
    <2>2. CASE k - 1 = 0
      <3>1. k = 1 /\ 1 \in 1 .. K
        BY <2>2
      <3>2. refs[1].start \in Int
        BY <1>5
      <3>3. Reading(refs, input, 1, refs[1].start, i)
        BY <1>7, ReadingBegins
      <3>. QED
        BY <1>5, <3>1, <3>2, <3>3
    <2>. QED
      BY <1>6, <2>1, <2>2 DEF States
  <1>9. PICK q \in Int : <<k, p, q>> \in M /\ Reading(refs, input, p, q, i)
    BY <1>8
  <1>10. PICK s : Continues(refs, p, q, K, s) /\ s \in refs[K].eoi
    <2>1. NodeSound(net[k], refs, K, M, p, q)
      BY <1>4, <1>9 DEF NetSound
    <2>. QED
      BY <1>6, <2>1 DEF NodeSound
  <1>11. Reading(refs, input, K, s, i)
    <2>1. p \in Nat \ {0} /\ K \in Nat
      OBVIOUS
    <2>. QED
      BY <1>7, <1>9, <1>10, <2>1, ReadingContinues
  <1>12. \E j \in 0 .. Len(input) : i \in EndsAfter(refs, input, j)[K]
    BY <1>7, <1>10, <1>11, ReadingEnds
  <1>. QED
    BY <1>1, <1>2, <1>3, <1>12 DEF EndsOfAll

LEMMA FinishKeepsSound ==
  ASSUME RegexInv, SoundInv, Finish
  PROVE  SoundInv'
  <1>1. /\ stage = "bytes" /\ Len(rows) = NumBytes + 1
        /\ out' = Out /\ stage' = "finished"
        /\ UNCHANGED <<config, parts, msg>>
    BY DEF Finish, compiled
  <1>2. Len(parts) >= 1 /\ InRange(msg) /\ (Separable => SoundRows)
    BY <1>1 DEF SoundInv
  <1>3. /\ Separable' <=> Separable
        /\ References' = References /\ In' = In /\ NumBytes' = NumBytes
        /\ HasDollar' <=> HasDollar
        /\ PaddingStart' = PaddingStart
    BY <1>1 DEF Separable, References, ReferenceDfa, In, NumBytes, HasDollar, PaddingStart
  <1>4. ASSUME Separable, Out = 1
        PROVE  \E j \in 0 .. NumBytes : \E i \in EndsOfAll(References, In, j) :
                 HasDollar => i = PaddingStart
    <2>1. IsAccepted /\ (HasDollar => EndAnchorCheck)
      BY <1>4 DEF Out
    <2>2. PICK i \in 0 .. NumBytes : Accepted(i) /\ (HasDollar => i = PaddingStart)
      <3>1. CASE HasDollar
        <4>1. PICK i \in 0 .. NumBytes - 1 : i = PaddingStart /\ Accepted(i)
          BY <2>1, <3>1 DEF EndAnchorCheck
        <4>2. i \in 0 .. NumBytes
          BY MsgBytesAssumption DEF NumBytes
        <4>. QED
          BY <4>1, <4>2
      <3>2. CASE ~ HasDollar
        BY <2>1, <3>2 DEF IsAccepted
      <3>. QED
        BY <3>1, <3>2
    <2>3. \E j \in 0 .. NumBytes : i \in EndsOfAll(References, In, j)
      BY <1>1, <1>2, <1>4, <2>2, AcceptedIsRead
    <2>. QED
      BY <2>2, <2>3
  <1>5. MatchIsSound'
    BY <1>1, <1>3, <1>4 DEF MatchIsSound
  <1>. QED
    BY <1>1, <1>5 DEF SoundInv

LEMMA SoundInvIsInductive ==
  ASSUME RegexInv, AnchoredInv, SoundInv, [Next]_vars
  PROVE  SoundInv'
  <1>1. CASE UNCHANGED vars
    <2>1. UNCHANGED <<config, parts, next, net, stage, msg, rows, out>>
      BY <1>1 DEF vars, circuitVars, compiled, signals
    <2>2. /\ Separable' <=> Separable
          /\ References' = References /\ In' = In /\ NumBytes' = NumBytes
          /\ HasDollar' <=> HasDollar
          /\ PaddingStart' = PaddingStart
      BY <2>1 DEF Separable, References, ReferenceDfa, In, NumBytes, HasDollar, PaddingStart
    <2>3. /\ SoundParts' <=> SoundParts
          /\ SoundRows' <=> SoundRows
          /\ MatchIsSound' <=> MatchIsSound
          /\ CaretNet(net)' <=> CaretNet(net)
      BY <2>1, <2>2 DEF SoundParts, SoundRows, RowsSound, MatchIsSound, Finished
    <2>. QED
      BY <2>1, <2>2, <2>3 DEF SoundInv
  <1>2. CASE CircuitStep
    BY <1>2, CaretKeepsSound, PartKeepsSound, CircuitKeepsSound, RowsKeepSound,
       FinishKeepsSound DEF CircuitStep
  <1>3. CASE ConstrainExpected \/ CompileDecomposed
    <2>1. stage' \in {"done", "caret"}
      BY <1>3 DEF ConstrainExpected, CompileDecomposed, Compile
    <2>. QED
      BY <2>1, OtherStagesKeepSound
  <1>4. CASE BuildRule \/ CombineCondition
    <2>1. stage' \in {"error", "combined", "caret"}
      BY <1>4 DEF BuildRule, CombineCondition, Compile
    <2>. QED
      BY <2>1, OtherStagesKeepSound
  <1>. QED
    BY <1>1, <1>2, <1>3, <1>4 DEF Next, PolicyStep

\* Whatever the parts of a regex, their anchors and the padding: if no run of a
\* part comes back to the part's start, the circuit accepts only an input with
\* a stretch that is a word of the first part, then one of the second, and so
\* on, up to the end of the text if the last part ends with $.
THEOREM MatchesAreSound == Spec => []MatchIsSound
  <1>1. Init => SoundInv
    BY DEF Init, CircuitInit, SoundInv, MatchIsSound, Finished
  <1>2. SoundInv => MatchIsSound
    BY DEF SoundInv
  <1>. QED
    BY <1>1, <1>2, SoundInvIsInductive, RegexInvHolds, SearchedInvHolds, PTL DEF Spec

=============================================================================
