\* A login and three more requests that may be any mix of logins, refreshes and
\* logouts, racing on three tokens: enough for two rotations of one session, and
\* for a logout that races one of them.
CONSTANTS
  Requests = {r1, r2, r3, r4}
  Tokens = {t1, t2, t3}
  None = None
SPECIFICATION Spec
SYMMETRY Symmetry
INVARIANTS
  TypeOK
  SingleUse
  OneLivePerSession
  SessionEndsWithToken
  StaleNeverRotates
  AnswerTruthful
  LogoutSticks
PROPERTIES
  Rotation
CHECK_DEADLOCK FALSE
