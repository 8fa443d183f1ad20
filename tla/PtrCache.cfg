SPECIFICATION FairSpec

CONSTANTS
  Thread = {t1, t2}
  IP = {i1}
  Pod = {p1, p2}
  Dashed = dashed
  None = none
  Free = free
  ptrCacheTTL = 2
  LookupTimeout = 1

INVARIANTS
  QueriesShared

PROPERTIES
  NamesFresh
  LookupReturns
