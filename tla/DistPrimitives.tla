--------------------------- MODULE DistPrimitives ---------------------------
(***************************************************************************)
(* The distributed primitives over shares: rows[p][c] is the share of      *)
(* party p of the c-th l values.  Each party transforms its shares and     *)
(* masks them, the king unpacks what arrived, transforms the secrets and   *)
(* packs them again, and each party takes its mask off.                    *)
(***************************************************************************)
EXTENDS PackedSharing

CONSTANT M  \* the size of the domain of a transform, a multiple of L

Columns == M \div L

-----------------------------------------------------------------------------
\* The number whose log2(M) bits are those of i in reverse order.
LogM == CHOOSE b \in 0 .. M : 2 ^ b = M
LogL == CHOOSE b \in 0 .. L : 2 ^ b = L
Bit(i, b) == (i \div 2 ^ b) % 2
BitReverse(i) == FoldLeft(LAMBDA s, b : s + Bit(i, b - 1) * 2 ^ (LogM - b), 0, [b \in 1 .. LogM |-> b])
FftInPlaceRearrange(v) == Eager([i \in DOMAIN v |-> v[BitReverse(i)]])

\* Column i holds every (M/l)-th value from the i-th on.
PackStrided(v, points) ==
  Eager([c \in 0 .. Columns - 1 |-> Pack([i \in 0 .. L - 1 |-> v[c + i * Columns]], points)])

\* The rounds of the transform that stay within columns.
Fft1(px, gen) ==
  FoldLeft(LAMBDA v, n :
             LET i == LogM + 1 - n
                 poly == M \div 2 ^ i
                 stride == Pow(gen, 2 ^ (i - 1))
             IN Eager([pos \in DOMAIN v |->
                   LET j == pos \div (2 * poly)
                       k == (pos % (2 * poly)) % poly
                       x == v[2 * j * poly + k]
                       y == v[(2 * j + 1) * poly + k] * Pow(stride, k + 1)
                   IN (IF pos % (2 * poly) < poly THEN x + y ELSE x - y) % Q]),
           px, [n \in 1 .. LogM - LogL |-> n])

RotateRight(v) == Eager([i \in DOMAIN v |-> v[(i + M - 1) % M]])

\* The rounds that mix the columns, made on the secrets by the king.
Fft2(s, gen) ==
  RotateRight(FoldLeft(LAMBDA v, n :
             LET i == LogL + 1 - n
                 poly == M \div 2 ^ i
                 stride == Pow(gen, 2 ^ (i - 1))
             IN Eager([pos \in DOMAIN v |->
                   LET half == M \div 2
                       k == (pos % half) \div 2 ^ (i - 1)
                       j == (pos % half) % 2 ^ (i - 1)
                       x == v[k * 2 ^ i + 2 * j]
                       y == v[k * 2 ^ i + 2 * j + 1] * Pow(stride, k + 1)
                   IN (IF pos < half THEN x + y ELSE x - y) % Q]),
           s, [n \in 1 .. LogL |-> n]))

DistributePowers(v, g) == Eager([i \in DOMAIN v |-> (v[i] * Pow(g, i)) % Q])

-----------------------------------------------------------------------------
Negated(v) == Eager([i \in DOMAIN v |-> (-v[i]) % Q])
SumOf(v) == Total(Size(v), LAMBDA i : v[i])
Repeated(x) == [i \in 0 .. L - 1 |-> x]

AddRows(r, mask) ==
  Eager([p \in DOMAIN r |-> Eager([c \in DOMAIN r[p] |-> (r[p][c] + mask[p][c]) % Q])])
MultiplyRows(x, y) ==
  Eager([p \in DOMAIN x |-> Eager([c \in DOMAIN x[p] |-> (x[p][c] * y[p][c]) % Q])])
ScaleRows(x, k) ==
  Eager([p \in DOMAIN x |-> Eager([c \in DOMAIN x[p] |-> (x[p][c] * k) % Q])])

\* What the king unpacks from the shares of the parties that are in received.
Secrets(rows, received) ==
  LET parties == SelectSeq([k \in 1 .. N |-> k - 1], LAMBDA p : p \in received)
      width == Size(rows[0])
      secrets == Eager([c \in 0 .. width - 1 |->
                    UnpackMissingShares([k \in DOMAIN parties |-> rows[parties[k]][c]], parties)])
  IN Eager([i \in 0 .. width * L - 1 |-> secrets[i \div L][i % L]])

\* A transform: [rearrange, g, gen].
FftLocal(rows, tr) == Eager([p \in DOMAIN rows |-> Fft1(rows[p], tr.gen)])
Fft2Scaled(s, tr) == DistributePowers(Fft2(s, tr.gen), tr.g)
PackOut(s, tr, points) ==
  Transpose(IF tr.rearrange THEN PackStrided(FftInPlaceRearrange(s), points) ELSE PackVec(s, points))
KingFft(s, tr, points) == PackOut(Fft2Scaled(s, tr), tr, points)
FftMask(mask, tr, points) ==
  [in |-> Transpose(PackVec(mask, points)),
   out |-> PackOut(Negated(Fft2Scaled(mask, tr)), tr, points)]

DFft(g, rearrange) == [rearrange |-> rearrange, g |-> g, gen |-> Root(M)]
DIfft(g, rearrange) == [rearrange |-> rearrange, g |-> g, gen |-> Inv(Root(M))]

\* Reducing the degree of a product.
DegRedMask(mask, points) ==
  [in |-> Transpose(PackVec(mask, points)), out |-> Transpose(PackVec(Negated(mask), points))]
KingDegRed(s, points) == Transpose(PackVec(s, points))

\* A multi-scalar multiplication; a group element is its logarithm.
MsmLocal(bases, scalars) ==
  Eager([p \in DOMAIN bases |->
    [c \in {0} |-> Total(Size(bases[p]), LAMBDA k : bases[p][k] * scalars[p][k])]])
MsmMask(mask, points) ==
  [in |-> Transpose(PackVec(mask, points)),
   out |-> Transpose(PackVec(Repeated((-SumOf(mask)) % Q), points))]
KingMsm(s) == [p \in 0 .. N - 1 |-> [c \in {0} |-> SumOf(s)]]

\* The products of the quotients so far.
PartialProducts(nd) ==
  LET z[i \in 0 .. M - 1] == ((IF i = 0 THEN 1 ELSE z[i - 1]) * nd[i] * Inv(nd[i + M])) % Q
  IN Eager(z)

=============================================================================
