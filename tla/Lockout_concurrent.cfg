\* README.md's three strikes, when the attempts may overlap.
CONSTANTS
  Requests = {r1, r2, r3, r4}
  Window = 1
  LockTime = 2
  Horizon = 2
SPECIFICATION Spec
SYMMETRY Symmetry
INVARIANTS
  ThreeStrikes
CHECK_DEADLOCK FALSE
