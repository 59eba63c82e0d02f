SPECIFICATION Spec
CONSTANTS
  Q = 7
  SrsAlpha = 3
  SrsBeta = 5
  Vk <- MCVk
  Claims <- MCClaims
  Challenges = {1, 2, 4}
  Other = 6
  Workers = {1}
  Capacity = 9
  Coeff <- MCCoeff
PROPERTIES
  VerificationEnds
CHECK_DEADLOCK FALSE
