SPECIFICATION Spec

CONSTANTS
  Command = {"GET", "SET", "noName"}
  MaxCommands = 2
  MaxPushes = 1
  Window = 1

INVARIANTS
  RepliesInOrder

CHECK_DEADLOCK FALSE
