CONSTANTS
  N = 4
  T = 1
  Sid <- OneSid
  Stages <- PointRounds
  Slow <- TwoSlow
SPECIFICATION Spec
INVARIANT OneDropoutTolerated
