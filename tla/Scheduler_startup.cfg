CONSTANTS
  Process = {p1, p2}
  Run = {r1}
  None = None
  MaxRoutes = 0
  LockMayBeLost = FALSE
SYMMETRY Symmetry
SPECIFICATION Spec
PROPERTIES
  StartupFailsOnlyDeadRuns
