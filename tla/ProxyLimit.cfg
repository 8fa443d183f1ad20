SPECIFICATION SafetySpec

CONSTANTS
  n1 = n1
  n2 = n2
  c1 = c1
  c2 = c2
  c3 = c3
  NoAddr = NoAddr
  Node <- Nodes1
  AddrRank <- Rank1
  IdxModulus = 1
  Client <- Clients3
  Endpoint <- Both
  MaxConnections = 2
  ReplicaFallbackMaster = TRUE
  Router = FALSE

SYMMETRY ClientSymmetry

INVARIANTS
  SlotsCounted
  NothingListensAfterRun
