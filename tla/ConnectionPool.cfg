INIT PartsInit
NEXT PartsNext
CONSTANTS
  Handle = {h1, h2, h3, h4}
  Tx = {t1, t2, t3, t4}
  NoHandle = NoHandle
  MaxPool = 3
  MaxFailures = 2
  NDebug = FALSE
  Width = 3
  Client = {u1, u2}
  NoClient = NoClient
  Chain <- MCChain
  Arguments <- MCArguments
  Offsets = {0, 8, 12, 24, 30}
  Fields <- MCFields
  EnumNames <- MCEnumNames
  EnumDefault = 1
  Known = {"Sub"}
  Inputs <- MCInputs
  Given <- MCGiven
  Strange <- MCStrange
  MaxSteps = 4
SYMMETRY ClientSymmetry
INVARIANTS
  PoolTypeOK
  Exclusive
  CloseFindsHandle
  NoLostWakeup
  Conserved
  JsonRestores
  TableComplete
  InvocationSound
PROPERTIES
  LeaseSpec
CHECK_DEADLOCK FALSE
