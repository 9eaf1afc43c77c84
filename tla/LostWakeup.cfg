SPECIFICATION FiniteSpec
CONSTANTS
  Runner = {r1}
  Caller = {c1}
  Nobody = Nobody
  NoRun = NoRun
  MainThread = {}
  MaxStarts = 1
  MayThrow = FALSE
  Careful = TRUE
PROPERTY UntimedReturns
CHECK_DEADLOCK FALSE
