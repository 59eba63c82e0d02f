-------------------------- MODULE LookaheadPolicy --------------------------
(***************************************************************************)
(* build_lookahead_circuits.js: a password policy is split into its        *)
(* lookaheads and its tail, each of them is compiled to a circuit of its   *)
(* own, and a wrapper circuit combines their outputs and compares the      *)
(* result with the public input expected_match.  The hash of the password  *)
(* and the writing of files are left out.                                  *)
(*                                                                         *)
(* A rule is [looks, tail, least, anchored, dot]: the automata X of its    *)
(* lookaheads (?=.*X) and (?!.*X), the kind of its tail, the N of a tail   *)
(* .{N,}, whether ^ and $ stand around the tail, and the dot mode.         *)
(***************************************************************************)
EXTENDS RegexCircuit

CONSTANTS
  Decomposed, \* the regexes that are compiled without a policy around them
  Rules,      \* the policies
  AnyChar,    \* the bytes that . stands for in utf8 mode: one-byte characters
  Printable   \* the bytes that . stands for in ascii mode

Part == [caret : {"none", "bare", "group"}, group : Automaton, dfa : Automaton,
         dollar : BOOLEAN, public : BOOLEAN]
Look == [negate : BOOLEAN, dfa : Automaton]
Rule == [looks : Seq(Look), tail : {"none", "any", "min", "max", "other"}, least : Nat,
         anchored : BOOLEAN, dot : {"utf8", "ascii"}]

ASSUME DecomposedAssumption == Decomposed \subseteq Seq(Part) \ {<<>>}
ASSUME RulesAssumption == Rules \subseteq Rule
ASSUME CharsAssumption == AnyChar \in Bytes /\ Printable \in Bytes

VARIABLES
  rule,        \* the policy
  conditions,  \* its conditions, [negate, regex]
  outputs,     \* condition_out, of the subcircuits evaluated so far
  statement    \* [expected, holds]: the public input, and whether a proof exists

policyVars == <<rule, conditions, outputs, statement>>

NoRule == [looks |-> <<>>]
NoStatement == [expected |-> 0, holds |-> FALSE]

PolicyInit(r) ==
  /\ rule = r
  /\ conditions = <<>>
  /\ outputs = <<>>
  /\ statement = NoStatement

-----------------------------------------------------------------------------
DotChars(r) == IF r.dot = "ascii" THEN Printable ELSE AnyChar

\* Chars{n,}, as an automaton.
AtLeast(chars, n) ==
  [start |-> 0, eoi |-> {n},
   edges |-> {<<k, chars, k + 1>> : k \in 0 .. n - 1} \cup {<<n, chars, n>>}]

WholeText(d) == <<[caret |-> "bare", group |-> d, dfa |-> d, dollar |-> TRUE, public |-> FALSE]>>
Anywhere(d) == <<[caret |-> "none", group |-> d, dfa |-> d, dollar |-> FALSE, public |-> FALSE]>>

TailFails(r) == r.tail = "other"

\* .* is a condition in ascii mode only, and an upper limit never is one.
TailCondition(r) ==
  LET Tail1(d) == <<[negate |-> FALSE, regex |-> IF r.anchored THEN WholeText(d) ELSE Anywhere(d)]>>
  IN CASE r.tail = "min" -> Tail1(AtLeast(DotChars(r), r.least))
       [] r.tail = "any" /\ r.dot = "ascii" -> Tail1(AtLeast(DotChars(r), 0))
       [] OTHER -> <<>>

\* The leading .* of a lookahead is dropped: its circuit searches anyway.
ExtractLookaheads(r) ==
  [k \in DOMAIN r.looks |-> [negate |-> r.looks[k].negate, regex |-> Anywhere(r.looks[k].dfa)]]
  \o TailCondition(r)

\* The first condition is handed to the compiler.
BuildRule ==
  /\ stage = "idle"
  /\ rule # NoRule
  /\ IF TailFails(rule) \/ ExtractLookaheads(rule) = <<>>
     THEN /\ stage' = "error"
          /\ UNCHANGED <<conditions, compiled, signals>>
     ELSE /\ conditions' = ExtractLookaheads(rule)
          /\ Compile(conditions'[1].regex)
  /\ UNCHANGED <<rule, outputs, statement>>

ConditionOutUnnegated(k) == out
ConditionOut(k) == IF conditions[k].negate THEN 1 - out ELSE out

\* The wrapper takes the output of a subcircuit and goes on to the next one.
CombineCondition ==
  /\ Finished
  /\ rule # NoRule
  /\ Len(outputs) < Len(conditions)
  /\ outputs' = Append(outputs, ConditionOut(Len(outputs) + 1))
  /\ IF Len(outputs') < Len(conditions)
     THEN Compile(conditions[Len(outputs') + 1].regex)
     ELSE stage' = "combined" /\ UNCHANGED <<compiled, signals>>
  /\ UNCHANGED <<rule, conditions, statement>>

RegexMatch == IF \A k \in DOMAIN outputs : outputs[k] = 1 THEN 1 ELSE 0

\* The constraints on expected_match, for any value given to it.
ConstrainExpected ==
  /\ stage = "combined"
  /\ \E e \in 0 .. 2 :
       statement' = [expected |-> e, holds |-> e * (e - 1) = 0 /\ RegexMatch = e]
  /\ stage' = "done"
  /\ UNCHANGED <<compiled, signals, rule, conditions, outputs>>

PolicyStep == BuildRule \/ CombineCondition \/ ConstrainExpected

\* zk-regex decomposed: one regex, without a policy around it.
CompileDecomposed ==
  /\ stage = "idle"
  /\ rule = NoRule
  /\ \E c \in Decomposed : Compile(c)
  /\ UNCHANGED policyVars

vars == <<circuitVars, policyVars>>

Init ==
  /\ CircuitInit
  /\ \E r \in Rules \cup {NoRule} : PolicyInit(r)

Next ==
  \/ CompileDecomposed
  \/ CircuitStep /\ UNCHANGED policyVars
  \/ PolicyStep

Spec == Init /\ [][Next]_vars

-----------------------------------------------------------------------------
Proved == stage = "done" /\ statement.holds

\* The policy on a text, by its regex.  A . that the rule's tail leaves
\* unchecked stands for every byte.
LookHolds(look, text) ==
  (\E i \in 0 .. Len(text) : EndsOf(look.dfa, text, i) # {}) # look.negate
TailHolds(r, text) ==
  LET least == CASE r.tail = "min" -> r.least [] OTHER -> 0
      checked == r.tail = "min" \/ (r.tail = "any" /\ r.dot = "ascii")
      From(i) == EndsOf(AtLeast(DotChars(r), least), text, i)
  IN checked => IF r.anchored THEN Len(text) \in From(0)
                ELSE \E i \in 0 .. Len(text) : From(i) # {}
PolicyHolds(r, text) ==
  (\A k \in DOMAIN r.looks : LookHolds(r.looks[k], text)) /\ TailHolds(r, text)

ShortLooks == \A k \in DOMAIN rule.looks : ShortWords(rule.looks[k].dfa)
Truthful(n) == statement.expected = 1 <=> PolicyHolds(rule, Text(n))

\* What a proof states is true: it exists with expected_match = 1 only for a
\* password that satisfies the policy, and with 0 only for one that does not,
\* if the password is shorter than the message and attempts at its lookaheads
\* end after two bytes.  All conditions, negated or not, must be about the
\* same message and end up in one bit.
StatementIsTrue ==
  Proved /\ ShortLooks => \A n \in 0 .. MsgBytes - 1 : IsText(n) => Truthful(n)

\* build_lookahead_circuits.js:37, "Negative lookahead: (?!.*X)" and line 36:
\* X may be any regex, and may stand anywhere.
LookaheadsAreSearched ==
  Proved => \A n \in 0 .. MsgBytes - 1 : IsText(n) => Truthful(n)

\* build_lookahead_circuits.js:39, a maximum of msg_bytes is "satisfied by
\* msg[20]": a password may fill the message.
FullTextsAreJudged ==
  Proved /\ ShortLooks /\ IsText(MsgBytes) => Truthful(MsgBytes)

=============================================================================
