INIT PartsInit
NEXT PartsNext
CONSTANTS
  Handle = {h1, h2}
  Thread = {t1, t2}
  Tx = {t1, t2}
  NoHandle = NoHandle
  MaxPool = 2
  MaxFailures = 0
  NDebug = FALSE
  Owner <- OwnThread
  Modes = {"rollback", "commit", "manual"}
  MaxFaults = 2
  Uses = 2
  BlocksNest = FALSE
  JoinsFirst = FALSE
  Inner = none
  Host = t1
  Blank = Blank
  Junk = Junk
  Element = {a, b}
  MaxLength = 4
  Char = {a, b}
  Nul = Nul
  NoString = NoString
  MaxText = 4
  InitialBuffer = 2
  Byte = {97, 32, 43, 37, 50, 66, 10, 208}
  CodePoint <- MCCodePoint
  BadByte = BadByte
  UriChar = {"a", "k", "l", "s", "v", ":", "/", "@", "?", "=", "&"}
  UriPart <- MCUriPart
  UriEnds <- MCUriEnds
  MaxCoded = 3
  Year = {1999, 2000, 2004}
  Months <- MCMonths
  Days <- MCDays
  Hours <- MCHours
  Minutes = {1}
  Seconds = {5400}
  MaxInt = 33554431
  Summer = {4, 5, 6, 7}
  NoTime = NoTime
  MaxCalls = 2
SYMMETRY ValueSymmetry
INVARIANTS
  IInv
  ReturnsClean
  NoForgottenBlock
  TerminatedByFault
INVARIANTS
  ArrayAsDocumented
  StringAsDocumented
  StreamIsTape
  CodecRoundTrip
  TimeArithmetic
PROPERTIES
  CopyKeepsInstant
CHECK_DEADLOCK FALSE
