CONSTANTS
  N = 4
  T = 1
  Sid <- TwoSids
  Stages <- LateProgram
  Slow <- LastSlow
SPECIFICATION StatsSpec
INVARIANTS
  IInv
  ShareAlignment
  AnswerAlignment
  OnceStaleAlwaysStale
  NothingLeftBehind
  FailedStageHolds
  SnapshotIsAllTraffic
PROPERTIES
  SessionEnds
