SPECIFICATION FailoverSpec

CONSTANTS
  n1 = n1
  n2 = n2
  c1 = c1
  c2 = c2
  c3 = c3
  NoAddr = NoAddr
  Node <- Nodes2
  AddrRank <- Rank2
  IdxModulus = 1
  Client <- Clients1
  Endpoint <- Both
  MaxConnections = 1
  ReplicaFallbackMaster = FALSE
  Router = TRUE

INVARIANTS
  RightBackend

PROPERTIES
  SurvivesFailover
  ClientDecided
  DegradesToMaster
  ProcessExits
