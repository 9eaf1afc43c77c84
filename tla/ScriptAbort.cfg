SPECIFICATION FairSpec
CONSTANTS
  Runner = {r1, r2}
  Caller = {c1}
  Nobody = Nobody
  NoRun = NoRun
  MainThread = {}
  MaxStarts = 3
  MayThrow = TRUE
  Careful = TRUE
PROPERTY TimedReturns
PROPERTY AbortStops
CHECK_DEADLOCK FALSE
