SPECIFICATION Spec
CONSTANTS
  Pointer = {p1, p2, p3}
  Data = {d1, d2, d3, d4}
  Value = {v1, v2}
  NoData = NoData
  NoPointer = NoPointer
  Null = Null
  Absent = Absent
  HeldReferences = FALSE
INVARIANT IInv
INVARIANT WritesAlone
PROPERTY ValueSpec
SYMMETRY Symmetry
CHECK_DEADLOCK FALSE
