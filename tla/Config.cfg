SPECIFICATION Spec

CONSTANT
  Given <- Inputs

INVARIANTS
  FirstSourceWins
  NilSafe
  TLSAsConfigured
  WiredAsConfigured
  FatalJustified

CHECK_DEADLOCK FALSE
