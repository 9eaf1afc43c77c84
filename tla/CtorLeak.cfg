SPECIFICATION Spec
CONSTANTS
  Handle = {h1, h2}
  Thread = {t1, t2}
  Tx = {t1, t2}
  NoHandle = NoHandle
  MaxPool = 2
  MaxFailures = 0
  NDebug = FALSE
  Owner <- OwnThread
  Modes = {"rollback", "commit"}
  MaxFaults = 1
  Uses = 1
  BlocksNest = TRUE
  JoinsFirst = TRUE
  Inner = none
  Host = t1
INVARIANTS
  NoOrphanHandle
CHECK_DEADLOCK FALSE
