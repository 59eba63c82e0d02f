SPECIFICATION SetupSpec
CONSTANTS
  a = a
  b = b
  c = c
  Peers <- MCPeers
  Configs <- MCConfigs
  MaxCrashes = 2
  Parties = 5
INVARIANTS
  StartsTogether
  NothingIsMisread
  SharesAreAttributed
  NoIncompleteMesh
PROPERTIES
  ImplementsBarrier
  ProdEnds
  MeshEnds
CHECK_DEADLOCK FALSE
