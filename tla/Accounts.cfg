CONSTANTS
  e1 = e1
  e2 = e2
  User = {u1, u2, u3}
  Email <- MCEmail
  Tried = {e1}
  AdminEmail = e1
  Request = {r1, r2}
  Change <- MCChange
  Limit = 2
  Window = 2
SPECIFICATION FairSpec
INVARIANTS
  TypeOK
  AttemptsBounded
PROPERTIES
  UpdatesCompose
  LockoutEnds
CHECK_DEADLOCK FALSE
