CONSTANTS
  Routes = 2
  Dates = 3
  Dests = 2
  BatchSize = 4
  Threshold = 2
  MaxRest = 3
SPECIFICATION FairSpec
CHECK_DEADLOCK FALSE
INVARIANTS
  TypeOK
  CountsAgree
PROPERTIES
  RestIsKept
  CollectionFinishes
