SPECIFICATION DrainingSpec

CONSTANTS
  IdleTimeouts = {0, 2}
  MaxUp = 3
  MaxDown = 1
  Window = 1

INVARIANTS
  NothingTruncated
  CutInTime

PROPERTIES
  IdleCutJustified
  IdleCloses
  EndsWithPeers

CHECK_DEADLOCK FALSE
