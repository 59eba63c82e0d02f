--------------------------- MODULE PackedSharing ---------------------------
(***************************************************************************)
(* Packed secret sharing over a small prime field: l secrets and t random  *)
(* points are the values of a polynomial on the secret domain, a coset,    *)
(* and the shares its values on the share domain.  Arrays start at 0.      *)
(***************************************************************************)
EXTENDS Integers, SequencesExt

CONSTANTS
  Q,        \* the field has Q elements
  Generator,\* of its multiplicative group, and the offset of the cosets
  N, L, T   \* parties, packing factor, threshold

ASSUME QAssumption == Q \in Nat /\ Q > 2
ASSUME SizesAssumption == {N, L, T} \subseteq Nat \ {0} /\ 2 * (L + T) <= N

-----------------------------------------------------------------------------
\* x to the power k from a table, and 1/x.
Powers ==
  FoldLeft(LAMBDA tab, x : Append(tab, FoldLeft(LAMBDA s, k : Append(s, (Last(s) * x) % Q), <<1>>,
                                                [k \in 1 .. Q - 2 |-> k])),
           <<>>, [x \in 1 .. Q - 1 |-> x])
Pow(x, k) == Powers[x % Q][(k % (Q - 1)) + 1]
Inv(x) == Pow(x, Q - 2)

\* f itself, evaluated once.
Eager(f) == f @@ <<>>
Total(k, f(_)) == FoldLeft(LAMBDA s, i : (s + f(i - 1)) % Q, 0, [i \in 1 .. k |-> i])
Size(v) == Cardinality(DOMAIN v)
Array(k, f(_)) == [i \in 0 .. k - 1 |-> f(i)]
\* The first k entries, or zeros after the last one.
Resize(v, k) == Eager([i \in 0 .. k - 1 |-> IF i \in DOMAIN v THEN v[i] ELSE 0])

\* A generator of the subgroup of order k, and p(x).
Root(k) == Pow(Generator, (Q - 1) \div k)
EvalAt(p, x) == Total(Size(p), LAMBDA i : p[i] * Pow(x, i))

\* The transforms of a domain: k points from offset on.
Fft(p, k, offset) ==
  LET c == Resize(p, k) IN Eager([i \in 0 .. k - 1 |-> EvalAt(c, offset * Pow(Root(k), i))])
Ifft(v, k, offset) ==
  LET c == Resize(v, k)
      back == Inv(Root(k))
  IN Eager([j \in 0 .. k - 1 |->
        (Inv(k) * Pow(Inv(offset), j) * Total(k, LAMBDA i : c[i] * Pow(back, i * j))) % Q])

-----------------------------------------------------------------------------
OnShares(p) == Fft(p, N, 1)
FromShares(v) == Ifft(v, N, 1)
ShareElement(i) == Pow(Root(N), i)

\* Variant: interpolation on the domain of twice the size.
PackOnSecret2(secrets, points) ==
  OnShares(Ifft([i \in 0 .. Size(secrets) + T - 1 |->
                   IF i \in DOMAIN secrets THEN secrets[i] ELSE points[i - Size(secrets)]],
                2 * (L + T), Generator))
\* The domain has l + t points: what is beyond them in a longer vector of
\* secrets is dropped, and the random points with it.
Pack(secrets, points) ==
  OnShares(Ifft([i \in 0 .. Size(secrets) + T - 1 |->
                   IF i \in DOMAIN secrets THEN secrets[i] ELSE points[i - Size(secrets)]],
                L + T, Generator))
\* A short vector of secrets is filled with zeros, and so are the points.
DetPack(secrets) == OnShares(Ifft(secrets, L + T, Generator))

Unpack(shares) == Resize(Fft(FromShares(shares), L + T, Generator), L)
\* Of a product: every other value on the domain of twice the size.
EveryOther(v) == Eager([i \in 0 .. L - 1 |-> v[2 * i]])
Unpack2(shares) == EveryOther(Fft(FromShares(shares), 2 * (L + T), Generator))

\* The product of X - x over the xs.
ZeroRoots(xs) ==
  FoldLeft(LAMBDA p, x : Eager([i \in 0 .. Size(p) |->
                            ((IF i = 0 THEN 0 ELSE p[i - 1])
                             - (IF i = Size(p) THEN 0 ELSE x * p[i])) % Q]),
           [i \in {0} |-> 1], xs)
\* The quotient of p by X - x.
SynDiv(p, x) ==
  LET q[i \in 0 .. Size(p) - 1] == IF i = Size(p) - 1 THEN 0 ELSE (p[i + 1] + x * q[i + 1]) % Q
  IN Eager(q)
LagrangeInterpolate(xs, ys) ==
  LET roots == ZeroRoots(xs)
      num == Eager([k \in DOMAIN xs |-> SynDiv(roots, xs[k])])
      weight == Eager([k \in DOMAIN xs |-> (ys[k] * Inv(EvalAt(num[k], xs[k]))) % Q])
  IN Eager([i \in 0 .. Len(xs) - 1 |-> Total(Len(xs), LAMBDA k : weight[k + 1] * num[k + 1][i])])

\* Variant: the points are those of the first parties, whoever sent a share.
ShareXsInOrder(parties) == [k \in DOMAIN parties |-> ShareElement(k - 1)]
ShareXs(parties) == [k \in DOMAIN parties |-> ShareElement(parties[k])]
LagrangeUnpack(shares, parties) ==
  EveryOther(Fft(LagrangeInterpolate(ShareXs(parties), shares), 2 * (L + T), Generator))

\* shares[k] comes from parties[k].
UnpackMissingShares(shares, parties) ==
  IF Len(shares) = N
  THEN Unpack2([i \in 0 .. N - 1 |-> shares[i + 1]])
  ELSE LagrangeUnpack(shares, parties)

\* l secrets at a time.
PackVec(v, points) ==
  Eager([c \in 0 .. Size(v) \div L - 1 |-> Pack([i \in 0 .. L - 1 |-> v[c * L + i]], points)])
\* One row per party.
Transpose(columns) ==
  Eager([p \in 0 .. N - 1 |-> Eager([c \in DOMAIN columns |-> columns[c][p]])])

=============================================================================
