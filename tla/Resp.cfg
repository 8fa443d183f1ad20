SPECIFICATION Spec

CONSTANTS
  maxRESPElements = 2
  maxBulkLen = 2
  maxLineLen = 8
  BufSize = 4
  Lengths <- SmallLengths
  MaxDepth = 4
  MaxExtras = 2

INVARIANTS
  ReadsExactlyOne
  AcceptsWellFormed
  BufferBounded

CHECK_DEADLOCK FALSE
