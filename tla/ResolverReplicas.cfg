SPECIFICATION ShortHistorySpec

CONSTANTS
  n1 = n1
  n2 = n2
  n3 = n3
  c1 = c1
  c2 = c2
  Loop = loop
  Node <- Nodes2
  AddrRank <- Rank2
  Caller <- Callers1
  ResolveRetries = 0
  TrackReplicas = TRUE
  IdxModulus = 2

CONSTRAINT Unsettled

INVARIANTS
  VerifiedAddresses
  RotationFair

PROPERTIES
  ImplementsService
