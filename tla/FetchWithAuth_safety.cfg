\* Three calls in two tabs that share a cookie jar.
CONSTANTS
  Tabs = {A, B}
  Calls = {c1, c2, c3}
  Kinds = {"me", "login", "logout", "signup"}
  Sessions = {s1, s2}
  Tokens = {t1, t2, t3}
  None = None
SPECIFICATION Spec
SYMMETRY Symmetry
INVARIANTS
  TypeOK
  SingleFlight
  NoneForgotten
  AtMostTwoSends
  SessionKept
  SilentInOneTab
CHECK_DEADLOCK FALSE
