SPECIFICATION FairSpec

CONSTANTS
  Command = {"GET", "SET", "SELECT", "SUBSCRIBE", "inline", "malformed", "empty"}
  MaxCommands = 2
  MaxPushes = 1
  Window = 1

INVARIANTS
  RepliesInOrder
  WritesToMaster
  StateInStep
  NothingDropped

CHECK_DEADLOCK FALSE

PROPERTIES
  EachAnswered
  EndsAfterClient
