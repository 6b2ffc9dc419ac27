\* Four attempts, of which three may fail, with every overlap; the window is
\* one tick, the lock two, and the clock runs on until the lock has expired.
CONSTANTS
  Requests = {r1, r2, r3, r4}
  Window = 1
  LockTime = 2
  Horizon = 4
SPECIFICATION Spec
SYMMETRY Symmetry
INVARIANTS
  TypeOK
  SerialThreeStrikes
  NoFalseLock
CHECK_DEADLOCK FALSE
