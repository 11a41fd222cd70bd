CONSTANTS
  Prices = {1, 2}
  FastLimit = 1
  DeepLimit = 2
  Enough = 2
  Errors <- MCErrors
SPECIFICATION Spec
INVARIANTS
  TypeOK
PROPERTIES
  CheapestIsBest
  LabelIsTrue
  HealsByAnswer
