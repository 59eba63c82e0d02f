------------------------------ MODULE MCRegex ------------------------------
(***************************************************************************)
(* The compiler and the policy builder over two letters, for every automaton *)
(* with at most two states, some with longer words, and some regexes of    *)
(* several parts.                                                          *)
(***************************************************************************)
EXTENDS LookaheadPolicy

CONSTANT Large   \* is every automaton tried, or only what policies need?

Dfa(eoi, edges) == [start |-> 0, eoi |-> eoi, edges |-> edges]
a == {1}
b == {2}
ab == {1, 2}

\* Every trim automaton of two states, both of them reachable.  Letters that
\* lead to the same state share a label.
Delta == [{0, 1} \X ab -> {0, 1, 2}]   \* 2 is the dead state
EdgesOf(f) ==
  {<<s, {c \in ab : f[s, c] = t}, t>> : <<s, t>> \in {x \in {0, 1} \X {0, 1} :
      \E c \in ab : f[x[1], c] = x[2]}}
TwoStates ==
  {Dfa(eoi, EdgesOf(f)) : <<eoi, f>> \in
     {x \in {{0}, {1}, {0, 1}} \X Delta :
        /\ \E c \in ab : x[2][0, c] = 1
        /\ \E s \in x[1] : s = 1 \/ \E c \in ab : x[2][1, c] = 0
        /\ ~ (x[1] = {0, 1} /\ \A c \in ab : x[2][0, c] = x[2][1, c])}}

A == Dfa({1}, {<<0, a, 1>>})
B == Dfa({1}, {<<0, b, 1>>})
AorB == Dfa({1}, {<<0, ab, 1>>})
ManyA == Dfa({1}, {<<0, a, 1>>, <<1, a, 1>>})
AsThenB == Dfa({1}, {<<0, a, 0>>, <<0, b, 1>>})
AB == Dfa({2}, {<<0, a, 1>>, <<1, b, 2>>})
AorAB == Dfa({1, 2}, {<<0, a, 1>>, <<1, b, 2>>})
AAB == Dfa({3}, {<<0, a, 1>>, <<1, a, 2>>, <<2, b, 3>>})
AABAorB == Dfa({4}, {<<0, a, 1>>, <<1, a, 2>>, <<2, b, 3>>, <<3, a, 4>>, <<0, b, 4>>})
OptionalA == Dfa({0, 1}, {<<0, a, 1>>})

PartOf(caret, d, dollar, public) ==
  [caret |-> caret, group |-> Dfa(OptionalA.eoi, OptionalA.edges), dfa |-> d,
   dollar |-> dollar, public |-> public]
Single == {<<PartOf(c, d, e, FALSE)>> : c \in {"none", "bare"}, d \in TwoStates \cup {AB, AorAB, AAB, AABAorB},
                                      e \in BOOLEAN}
Public ==
  {<<PartOf(c, A, FALSE, FALSE), PartOf("none", d, FALSE, TRUE), PartOf("none", f, e, FALSE)>> :
     c \in {"none", "bare", "group"}, d \in {B, AorB, ManyA, AB, OptionalA},
     f \in {A, B, AorAB}, e \in BOOLEAN}
  \cup {<<PartOf(c, d, FALSE, TRUE), PartOf("none", f, e, FALSE)>> :
     c \in {"none", "bare", "group"}, d \in {AorAB, ManyA, AsThenB, OptionalA}, f \in {B, AB}, e \in BOOLEAN}
  \cup {<<PartOf("none", d, FALSE, p), PartOf("none", f, FALSE, TRUE)>> :
     d \in {ManyA, AorAB}, f \in {AorB, ManyA}, p \in BOOLEAN}
Misplaced == {<<PartOf("none", A, TRUE, FALSE), PartOf("none", B, FALSE, FALSE)>>}

MCDecomposed == IF Large THEN Single \cup Public \cup Misplaced ELSE {}

LookFor(negate, d) == [negate |-> negate, dfa |-> d]
Policy(looks, tail, least, anchored, dot) ==
  [looks |-> looks, tail |-> tail, least |-> least, anchored |-> anchored, dot |-> dot]
PasswordRules ==
  {Policy(l, t, 2, anchored, dot) :
     l \in {<<>>, <<LookFor(FALSE, A)>>, <<LookFor(FALSE, A), LookFor(TRUE, AB)>>, <<LookFor(TRUE, AAB)>>},
     t \in {"none", "any", "min", "max", "other"}, anchored \in BOOLEAN, dot \in {"utf8", "ascii"}}

=============================================================================
