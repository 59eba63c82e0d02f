CONSTANTS
  N = 4
  T = 1
  Sid <- ThreeSids
  Stages <- FullProgram
  Slow <- NobodySlow
SPECIFICATION Spec
INVARIANT BoundedStreams
PROPERTIES
  EverybodyReturns
  ImplementsIdealRounds
