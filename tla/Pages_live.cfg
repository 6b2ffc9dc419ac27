\* One tab: a refresh's leader, a subscriber and what a new page makes.
SPECIFICATION LivePagesSpec
CONSTANTS
  Tabs = {t1}
  Calls = {c1, c2, c3}
  Kinds = {"me", "login", "logout", "signup"}
  Sessions = {s1, s2}
  Tokens = {k1, k2, k3}
  None = None
  MaxActs = 3
  t1 = t1
  c1 = c1
  c2 = c2
  c3 = c3
  s1 = s1
  s2 = s2
  k1 = k1
  k2 = k2
  k3 = k3
INVARIANTS
  PagesTypeOK
  ShowsSession
PROPERTIES
  LoadingEnds
  SubmitEnds
  CallsEnd
CHECK_DEADLOCK FALSE
