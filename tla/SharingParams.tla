---------------------------- MODULE SharingParams ----------------------------
(***************************************************************************)
(* How the parameters of the packed sharing are chosen: n parties, packing *)
(* factor l, threshold t, and the three evaluation domains.  The program   *)
(* takes the numbers from its command line and hands them to one of two    *)
(* constructors.  It is built without overflow checks and without debug    *)
(* assertions, so usize arithmetic wraps and the assertions on the sizes   *)
(* of the domains are not there.                                           *)
(***************************************************************************)
EXTENDS Integers

CONSTANTS
  Bits,       \* the width of usize
  TwoAdicity, \* the field has a subgroup of order 2^k for every k <= this
  MaxL        \* bound on the packing factor of a run without an n argument

ASSUME BitsAssumption == Bits \in Nat /\ Bits >= 3
\* The field of Bn254 has two-adicity 28, and usize has 64 bits.
ASSUME TwoAdicityAssumption == TwoAdicity \in Nat /\ TwoAdicity < Bits - 1

PowerOfTwo[k \in Nat] == IF k = 0 THEN 1 ELSE 2 * PowerOfTwo[k - 1]

Word == PowerOfTwo[Bits]
Usize == 0 .. Word - 1
PowersOfTwo == {PowerOfTwo[k] : k \in 0 .. Bits - 1}
\* The sizes of subgroup that the field has.
Subgroups == {PowerOfTwo[k] : k \in 0 .. TwoAdicity}

\* There is a process for every party, so 4 * l is far from the bound of usize.
ASSUME MaxLAssumption == MaxL \in Nat /\ 4 * MaxL < Word

VARIABLES
  args,    \* the command line: [l, t, n, explicit], explicit if n is given
  outcome, \* "unset", "panicked" or "built"
  pp       \* PackedSharingParams, once built: the sizes of its domains too

vars == <<args, outcome, pp>>

Absent == [n |-> 0, l |-> 0, t |-> 0, share |-> 0, secret |-> 0, secret2 |-> 0]

-----------------------------------------------------------------------------
IsPowerOfTwo(x) == x \in PowersOfTwo

\* usize::next_power_of_two, which wraps to 0.
NextPowerOfTwo(x) ==
  IF \E p \in PowersOfTwo : x <= p
  THEN CHOOSE p \in PowersOfTwo :
         x <= p /\ \A q \in PowersOfTwo : x <= q => p <= q
  ELSE 0

\* Radix2EvaluationDomain::new rounds up to a power of two, and there may be
\* no such subgroup.
HasDomain(x) == NextPowerOfTwo(x) \in Subgroups
DomainSize(x) == NextPowerOfTwo(x)

Plus(x, y) == (x + y) % Word
Times(x, y) == (x * y) % Word
Minus(x, y) == (x - y) % Word

\* The three unwrap calls panic when a domain does not exist.
NewUnchecked(n, l, t) ==
  IF HasDomain(n) /\ HasDomain(Plus(l, t)) /\ HasDomain(Times(2, Plus(l, t)))
  THEN /\ outcome' = "built"
       /\ pp' = [n |-> n, l |-> l, t |-> t,
                 share |-> DomainSize(n),
                 secret |-> DomainSize(Plus(l, t)),
                 secret2 |-> DomainSize(Times(2, Plus(l, t)))]
  ELSE outcome' = "panicked" /\ UNCHANGED pp

\* Variant: the fewest parties that the degree of a product allows.
NewTight(l) == NewUnchecked(Minus(Times(4, l), 1), l, l)
New(l) == NewUnchecked(Times(4, l), l, l)

\* Variant: without the assertion that the threshold is below n/2 - l.
ChecksLess(n, l, t) ==
  /\ IsPowerOfTwo(n)
  /\ IsPowerOfTwo(Plus(l, t))
  /\ Times(2, Plus(l, t)) <= n
Checks(n, l, t) ==
  /\ IsPowerOfTwo(n)
  /\ IsPowerOfTwo(Plus(l, t))
  /\ Times(2, Plus(l, t)) <= n
  /\ t < Minus(n \div 2, l)

NewWithParams(n, l, t) ==
  IF Checks(n, l, t)
  THEN NewUnchecked(n, l, t)
  ELSE outcome' = "panicked" /\ UNCHANGED pp

-----------------------------------------------------------------------------
Init ==
  /\ args \in [l : 1 .. MaxL, t : {0}, n : {0}, explicit : {FALSE}]
              \cup [l : Usize, t : Usize, n : Usize, explicit : {TRUE}]
  /\ outcome = "unset"
  /\ pp = Absent

\* main: the n argument selects the constructor; without it t is not read.
Choose ==
  /\ outcome = "unset"
  /\ IF args.explicit THEN NewWithParams(args.n, args.l, args.t)
                      ELSE New(args.l)
  /\ UNCHANGED args

Next == Choose
Spec == Init /\ [][Next]_vars

-----------------------------------------------------------------------------
Built == outcome = "built"

Exact ==
  /\ pp.share = pp.n
  /\ pp.secret = pp.l + pp.t
  /\ pp.secret2 = 2 * (pp.l + pp.t)

\* Shares of a product have degree at most 2(l + t - 1): that many and one
\* are needed, and what is left of the n shares may be missing.
Dropouts == pp.n - (2 * (pp.l + pp.t - 1) + 1)

\* usize wraps in every line of new_with_params (secret-sharing/src/pss.rs:51),
\* yet for l and t below half of its range nothing it accepts has wrapped:
\* the domains are exact, and shares of a product survive the loss of any
\* two parties, one more than the implicit parameters promise.
ExplicitParamsReconstruct ==
  Built /\ args.explicit /\ 2 * pp.l < Word /\ 2 * pp.t < Word =>
    Exact /\ Dropouts > 2

\* With a packing factor that is a power of two the implicit parameters have
\* exact domains, and shares of a product survive the loss of one party but
\* not of two (secret-sharing/src/pss.rs:11).
ImplicitParamsTolerateOne ==
  Built /\ ~ args.explicit /\ IsPowerOfTwo(args.l) => Exact /\ Dropouts = 1

=============================================================================
