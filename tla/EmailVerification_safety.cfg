\* Three signups and two OAuth callbacks race for one address; its link is
\* clicked up to three times.
CONSTANTS
  Signups = {s1, s2, s3}
  Clicks = {c1, c2, c3}
  Callbacks = {o1, o2}
SPECIFICATION Spec
SYMMETRY Symmetry
INVARIANTS
  TypeOK
  OneAccount
  VerifiedLinkDead
  NotWasted
  VerifiedTruthful
CHECK_DEADLOCK FALSE
