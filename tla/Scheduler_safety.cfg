CONSTANTS
  Process = {p1, p2}
  Run = {r1}
  None = None
  MaxRoutes = 2
  LockMayBeLost = FALSE
SYMMETRY Symmetry
SPECIFICATION Spec
INVARIANTS
  TypeOK
  OneCollector
  LockDiscipline
  OwnsItsRow
PROPERTIES
  StopStands
  FinishedIsFinal
  ImplementsCollectionLock
