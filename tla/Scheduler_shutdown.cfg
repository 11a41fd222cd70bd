CONSTANTS
  Process = {p1}
  Run = {r1}
  None = None
  MaxRoutes = 1
  LockMayBeLost = FALSE
SPECIFICATION Spec
INVARIANTS
  StopReturns
