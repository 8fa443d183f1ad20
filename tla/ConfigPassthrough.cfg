SPECIFICATION Spec

CONSTANT
  Given <- Inputs

INVARIANT
  PassthroughRefused

CHECK_DEADLOCK FALSE
