-------------------------- MODULE PrimitiveRounds --------------------------
(***************************************************************************)
(* One distributed primitive, from shares to shares: what each party does  *)
(* on its own, the king's round, and taking the masks off.  The partial    *)
(* products have a second round, which reduces a degree.                   *)
(***************************************************************************)
EXTENDS DistPrimitives

CONSTANTS
  Inputs,    \* the vectors that are shared, M values each
  Points,    \* the random points of the dealer and of the king
  MaskRows,  \* the values of the masks, M each
  Received   \* the sets of parties whose shares the king gets in time

VARIABLES
  task,      \* [prim, rearrange, g, x, y]: the primitive and its inputs
  dealt,     \* [points, mask]: the randomness of the dealer
  stage,     \* "local", "king", "unmask", "done" or "panicked"
  rows,      \* rows[p]: the shares of party p
  rounds     \* the rounds to come

primVars == <<task, dealt, stage, rows, rounds>>

IsFft == task.prim \in {"d_fft", "d_ifft"}
Transform == IF task.prim = "d_fft" THEN DFft(1, task.rearrange) ELSE DIfft(task.g, task.rearrange)

PrimInit ==
  /\ task \in [prim : {"d_fft", "d_ifft"}, rearrange : BOOLEAN, g : {1, Generator},
               x : Inputs, y : {[i \in 0 .. M - 1 |-> 1]}]
              \cup [prim : {"deg_red", "d_msm", "d_pp"}, rearrange : {FALSE}, g : {1},
                    x : Inputs, y : Inputs]
  /\ task.prim = "d_fft" => task.g = 1
  /\ dealt \in [points : Points, mask : MaskRows]
  /\ stage = "local"
  /\ rows = <<>>
  /\ rounds = IF task.prim = "d_pp" THEN 2 ELSE 1

\* The partial products have no mask of their own: s is 1 in the code.
Mask ==
  CASE IsFft -> FftMask(dealt.mask, Transform, dealt.points)
    [] task.prim = "d_msm" -> MsmMask(Resize(dealt.mask, L), dealt.points)
    [] OTHER -> DegRedMask(dealt.mask, dealt.points)
Masked == task.prim = "d_pp" => rounds = 1

\* Each party on its own shares.
Local ==
  LET x == Transpose(IF IsFft THEN PackStrided(FftInPlaceRearrange(task.x), dealt.points)
                     ELSE PackVec(task.x, dealt.points))
      y == Transpose(PackVec(task.y, dealt.points))
      own == CASE task.prim = "d_fft" -> FftLocal(x, Transform)
               [] task.prim = "d_ifft" -> FftLocal(ScaleRows(x, Inv(M)), Transform)
               [] task.prim = "deg_red" -> MultiplyRows(x, y)
               [] task.prim = "d_msm" -> MsmLocal(x, y)
               [] task.prim = "d_pp" -> [p \in DOMAIN x |-> [c \in 0 .. 2 * Columns - 1 |->
                                           IF c < Columns THEN x[p][c] ELSE y[p][c - Columns]]]
  IN /\ stage = "local"
     /\ rows' = IF Masked THEN AddRows(own, Mask.in) ELSE own
     /\ stage' = "king"
     /\ UNCHANGED <<task, dealt, rounds>>

\* The king's part; he panics on a denominator that is zero.
KingRound ==
  /\ stage = "king"
  /\ \E received \in Received, points \in Points :
       LET s == Secrets(rows, received) IN
       IF ~ Masked /\ \E i \in M .. 2 * M - 1 : s[i] = 0
       THEN stage' = "panicked" /\ UNCHANGED rows
       ELSE /\ stage' = "unmask"
            /\ rows' = CASE IsFft -> KingFft(s, Transform, points)
                         [] task.prim = "d_msm" -> KingMsm(s)
                         [] ~ Masked -> KingDegRed(PartialProducts(s), points)
                         [] OTHER -> KingDegRed(s, points)
  /\ UNCHANGED <<task, dealt, rounds>>

Unmask ==
  /\ stage = "unmask"
  /\ rounds' = rounds - 1
  /\ IF Masked
     THEN stage' = "done" /\ rows' = AddRows(rows, Mask.out)
     ELSE stage' = "king" /\ rows' = AddRows(rows, Mask.in)
  /\ UNCHANGED <<task, dealt>>

PrimNext == Local \/ KingRound \/ Unmask
PrimSpec == PrimInit /\ [][PrimNext]_primVars

-----------------------------------------------------------------------------
\* What the primitive computes, without any sharing.
Plain ==
  CASE task.prim = "d_fft" -> Fft(task.x, M, 1)
    [] task.prim = "d_ifft" -> DistributePowers(Ifft(task.x, M, 1), task.g)
    [] task.prim = "deg_red" -> [i \in 0 .. M - 1 |-> (task.x[i] * task.y[i]) % Q]
    [] task.prim = "d_msm" -> Repeated(Total(M, LAMBDA i : task.x[i] * task.y[i]))
    [] task.prim = "d_pp" -> PartialProducts([i \in 0 .. 2 * M - 1 |->
                                               IF i < M THEN task.x[i] ELSE task.y[i - M]])
\* The vector the result shares: the strided packing of a rearranged result is
\* undone.
Column(c) == [p \in 0 .. N - 1 |-> rows[p][c]]
Unpacked ==
  [i \in 0 .. Size(rows[0]) * L - 1 |->
     IF task.rearrange THEN Unpack(Column(i % Columns))[i \div Columns]
     ELSE Unpack(Column(i \div L))[i % L]]

\* Masked, sent through the king, unmasked: the shares that come out are of
\* what the primitive computes in the clear, also when a share did not arrive
\* in time (secret-sharing/src/pss.rs:228, dist-primitives/src/dfft/mod.rs:241).
RoundsAreExact ==
  stage = "done" =>
    Unpacked = IF task.rearrange THEN FftInPlaceRearrange(Plain) ELSE Plain

\* The shares that come out have the degree of a fresh packing again, so that
\* they can be multiplied once more (dist-primitives/src/utils/deg_red.rs:80).
DegreeIsReduced ==
  stage = "done" =>
    \A c \in DOMAIN rows[0] : \A i \in L + T .. N - 1 : FromShares(Column(c))[i] = 0

=============================================================================
