\* One request more than the limit.
SPECIFICATION Spec
CONSTANTS
  Requests = {r1, r2, r3}
  Limit = 2
  Ttl = 2
  MaxTime = 4
  r1 = r1
  r2 = r2
  r3 = r3
INVARIANT LimitHolds
CHECK_DEADLOCK FALSE
