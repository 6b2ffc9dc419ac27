\* Two refreshes fill the pool of two; the third request is a sign-up or a single statement.
SPECIFICATION LiveServerSpec
CONSTANTS
  Requests = {1, 2, 3}
  Refreshes = {1, 2}
  PoolMax = 2
  MaxSignals = 2
  MaxBoots = 2
INVARIANTS
  ServerTypeOK
  PoolAccounted
  Graceful
  SeededFirst
PROPERTIES
  AccountKept
  Exits
  EveryRequestEnds
CHECK_DEADLOCK FALSE
