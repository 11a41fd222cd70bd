CONSTANTS
  Groups <- MCGroups
  Price <- MCPrice
  MaxDates = 2
  Week = 0
  LastDay = 2
  Overlap = 1
SPECIFICATION Spec
INVARIANTS
  TypeOK
  WholeRunCompletes
  StoredBelongs
  ProgressAgreesWithPlan
  ExportCoversPlan
PROPERTIES
  NothingForgotten
  CompleteIsSkipped
