CONSTANTS
  Call = {c1, c2}
  NumKeys = 2
  Slots = 1
  Attempts = 2
  Rounds = 2
  Requests = 1
  FailLimit = 1
SPECIFICATION FairSpec
PROPERTIES
  CallsEnd
