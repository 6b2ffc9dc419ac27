\* Two people whose profile cannot be fetched.
CONSTANTS
  Requests = {r1, r2}
  People = {p1, p2}
  Unknown = Unknown
  None = None
SPECIFICATION Spec
SYMMETRY Symmetry
INVARIANT OwnAccount
CHECK_DEADLOCK FALSE
