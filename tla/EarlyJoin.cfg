SPECIFICATION Spec
CONSTANTS
  Runner = {r1, r2}
  Caller = {c1}
  Nobody = Nobody
  NoRun = NoRun
  MainThread = {}
  MaxStarts = 2
  MayThrow = TRUE
  Careful = FALSE
INVARIANT ObjectAlive
CHECK_DEADLOCK FALSE
