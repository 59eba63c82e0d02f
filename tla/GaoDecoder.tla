----------------------------- MODULE GaoDecoder -----------------------------
(***************************************************************************)
(* Decoding of the shares of a polynomial some of which are wrong: Euclid's *)
(* algorithm on the polynomial through the received shares and the one     *)
(* that vanishes on the share domain, stopped half way.                    *)
(***************************************************************************)
EXTENDS PackedSharing

CONSTANTS
  Dimension, \* a message has this many coefficients
  Messages,  \* the messages that are encoded
  Noise      \* what is added to the shares on their way

VARIABLES
  word,    \* [message, noise]
  decoded  \* [status, h]: "none", "message" h, or "panicked"

decoderVars == <<word, decoded>>

NotDecoded == [status |-> "none", h |-> <<>>]

\* A polynomial is trimmed; zero has the coefficient 0.
Trim(p) ==
  LET top == {i \in DOMAIN p : p[i] # 0}
      deg == IF top = {} THEN 0 ELSE CHOOSE d \in top : \A i \in top : i <= d
  IN [i \in 0 .. deg |-> p[i]]
Degree(p) == Size(p) - 1
IsZero(p) == \A i \in DOMAIN p : p[i] = 0
MinusTimes(a, q, b) ==
  Trim([i \in 0 .. (IF Size(a) > Size(q) + Size(b) THEN Size(a) ELSE Size(q) + Size(b)) |->
          ((IF i \in DOMAIN a THEN a[i] ELSE 0)
           - Total(Size(q), LAMBDA j : IF i - j \in DOMAIN b THEN q[j] * b[i - j] ELSE 0)) % Q])
Monomial(c, d) == [i \in 0 .. d |-> IF i = d THEN c ELSE 0]

\* Long division: [q, r] with a = q b + r.
DivideWithQAndR(a, b) ==
  FoldLeft(LAMBDA st, d :
             IF IsZero(st.r) \/ Degree(st.r) - Degree(b) # d THEN st
             ELSE LET c == (st.r[Degree(st.r)] * Inv(b[Degree(b)])) % Q IN
                  [q |-> MinusTimes(st.q, Monomial((-c) % Q, d), [i \in {0} |-> 1]),
                   r |-> MinusTimes(st.r, Monomial(c, d), b)],
           [q |-> [i \in {0} |-> 0], r |-> a],
           [k \in 1 .. (IF Degree(a) >= Degree(b) THEN Degree(a) - Degree(b) + 1 ELSE 0)
              |-> Degree(a) - Degree(b) + 1 - k])

\* Variant: the algorithm runs one degree further.
StopLate(n, k) == (n + k) \div 2 - 1
Stop(n, k) == (n + k) \div 2

\* Euclid's algorithm until the remainder has a degree below Stop.
PartialXgcd(a, b, n, k) ==
  LET Step(st) ==
        IF Degree(st.r) < Stop(n, k) THEN st
        ELSE LET q == DivideWithQAndR(st.pr, st.r).q IN
             [r |-> MinusTimes(st.pr, q, st.r), pr |-> st.r,
              s |-> MinusTimes(st.ps, q, st.s), ps |-> st.s]
      One == [i \in {0} |-> 1]
      Zero == [i \in {0} |-> 0]
  IN FoldLeft(LAMBDA st, i : Step(st), [r |-> b, pr |-> a, s |-> One, ps |-> Zero],
              [i \in 1 .. n |-> i])

\* X^N - 1 vanishes on the share domain.
Vanishing == [i \in 0 .. N |-> IF i = N THEN 1 ELSE IF i = 0 THEN (-1) % Q ELSE 0]

\* The message, or a panic when the division leaves a remainder.
DecodeToMessage(code, n, k) ==
  LET st == PartialXgcd(Vanishing, Trim(FromShares(code)), n, k)
      h == DivideWithQAndR(st.r, st.s)
  IN [status |-> IF IsZero(h.r) THEN "message" ELSE "panicked", h |-> h.q]

-----------------------------------------------------------------------------
DecoderInit ==
  /\ word \in [message : Messages, noise : Noise]
  /\ decoded = NotDecoded

Decode ==
  /\ decoded = NotDecoded
  /\ LET sent == OnShares(word.message)
         code == [i \in DOMAIN sent |-> (sent[i] + word.noise[i]) % Q]
     IN decoded' = DecodeToMessage(code, N, Dimension)
  /\ UNCHANGED word

DecoderSpec == DecoderInit /\ [][Decode]_decoderVars

Errors == {i \in DOMAIN word.noise : word.noise[i] # 0}

\* As long as at most half of the spare shares are wrong the decoder returns
\* the message itself, without its zero coefficients of highest degree, and
\* its assertion does not fail (secret-sharing/src/gao.rs:51).
CorrectsHalfTheSpareShares ==
  decoded.status # "none" /\ 2 * Cardinality(Errors) <= N - Dimension =>
    decoded = [status |-> "message", h |-> Trim(word.message)]

=============================================================================
