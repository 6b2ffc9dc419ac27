\* Three sign-ins of two people.
CONSTANTS
  Requests = {r1, r2, r3}
  People = {p1, p2}
  Unknown = Unknown
  None = None
SPECIFICATION Spec
SYMMETRY Symmetry
INVARIANTS
  TypeOK
  OwnAccountIfKnown
  LockHolds
  OAuthUsersLinked
CHECK_DEADLOCK FALSE
