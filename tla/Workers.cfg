SPECIFICATION FairSpec
CONSTANTS
  Handle = {h1, h2}
  Thread = {t1, t2, t3}
  Tx = {t1, t2, t3, inner}
  NoHandle = NoHandle
  MaxPool = 2
  MaxFailures = 0
  NDebug = FALSE
  Owner <- NestedOwner
  Modes = {"rollback"}
  MaxFaults = 0
  Uses = 1
  BlocksNest = FALSE
  JoinsFirst = TRUE
  Inner = inner
  Host = t1
PROPERTIES
  AllFinish
CHECK_DEADLOCK FALSE
