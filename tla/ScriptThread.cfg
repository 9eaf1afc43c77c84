INIT PartsInit
NEXT PartsNext
CONSTANTS
  Runner = {r1, r2}
  Caller = {c1, c2}
  Nobody = Nobody
  NoRun = NoRun
  MainThread = {r1}
  MaxStarts = 2
  MayThrow = TRUE
  Careful = FALSE
  Native = {n1, n2}
  NoNative = NoNative
  Wrapper = {w1, w2, w3}
  Plain = Plain
  Unsupported = Unsupported
  MaxArguments = 2
INVARIANT IInv
INVARIANT OwnOutcome
INVARIANT ClassesLive
INVARIANT TerminatedMeansAborted
INVARIANT OneOwner
PROPERTY JoinIsTrue
CHECK_DEADLOCK FALSE
SYMMETRY CallerSymmetry
