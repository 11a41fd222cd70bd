CONSTANTS
  Call = {c1, c2}
  NumKeys = 2
  Slots = 1
  Attempts = 2
  Rounds = 2
  Requests = 2
  FailLimit = 2
SYMMETRY Symmetry
SPECIFICATION Spec
INVARIANTS
  TypeOK
  SlotsConserved
  EveryKeyTried
  OvershootBounded
