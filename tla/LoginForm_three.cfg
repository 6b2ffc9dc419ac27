\* Two submissions are four posts.
CONSTANTS
  Requests = {r1, r2, r3, r4}
  Window = 1
  LockTime = 2
  Horizon = 2
SPECIFICATION FormSpec
SYMMETRY Symmetry
INVARIANT LockTakesThree
CHECK_DEADLOCK FALSE
