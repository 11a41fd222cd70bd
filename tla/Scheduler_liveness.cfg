CONSTANTS
  Process = {p1}
  Run = {r1, r2}
  None = None
  MaxRoutes = 2
  LockMayBeLost = TRUE
SPECIFICATION FairSpec
PROPERTIES
  CollectionEnds
  LockReturns
  ShutdownEnds
