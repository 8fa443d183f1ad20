SPECIFICATION NoHistorySpec

CONSTANTS
  n1 = n1
  n2 = n2
  n3 = n3
  c1 = c1
  c2 = c2
  Loop = loop
  Node <- Nodes2
  AddrRank <- Rank2
  Caller <- Callers2
  ResolveRetries = 1
  TrackReplicas = FALSE
  IdxModulus = 1

SYMMETRY CallerSymmetry

INVARIANTS
  RefreshSerialised
  EmptyOnlyAfterFailedStart
  GivesUpAfterBackoffs
  NeverStopsSilently
