\* Three requests are enough for a login and two requests that fight over the
\* same row lock.  No symmetry: liveness.
CONSTANTS
  Requests = {r1, r2, r3}
  Tokens = {t1, t2, t3}
  None = None
SPECIFICATION FairSpec
PROPERTIES
  EveryRequestEnds
  RevokedRowsGo
CHECK_DEADLOCK FALSE
