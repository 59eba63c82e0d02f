CONSTANTS
  Bits = 6
  TwoAdicity = 4
  MaxL = 15
  Q = 17
  Generator = 3
  N = 8
  L = 2
  T = 2
  M = 8
  Inputs <- MCInputs
  Points <- MCPoints
  MaskRows <- MCMasks
  Received <- MCReceived
  Dimension = 4
  Messages <- MCMessages
  Noise <- MCNoise
  Vars = 6
  NumInputs = 2
  RowsA <- MCA
  RowsB <- MCB
  RowsC <- MCC
  Witnesses <- MCWitnesses
  Toxic <- MCToxic
  Blinding <- MCBlinding
  Deals <- MCDeals
SPECIFICATION SharingSpec
INVARIANTS
  ExplicitParamsReconstruct
  ImplicitParamsTolerateOne
  RoundsAreExact
  DegreeIsReduced
  ProofsVerify
  SkippedTogether
  CorrectsHalfTheSpareShares
CHECK_DEADLOCK FALSE
