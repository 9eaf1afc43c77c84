SPECIFICATION PoolSpec
CONSTANTS
  Handle = {h1, h2}
  Tx = {t1, t2}
  NoHandle = NoHandle
  MaxPool = 2
  MaxFailures = 0
  NDebug = FALSE
INVARIANTS
  DisconnectAssertHolds
CHECK_DEADLOCK FALSE
