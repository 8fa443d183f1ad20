SPECIFICATION FairSpec

CONSTANTS
  IdleTimeouts = {2}
  MaxUp = 2
  MaxDown = 2
  Window = 1

PROPERTIES
  IdleCloses

CHECK_DEADLOCK FALSE
