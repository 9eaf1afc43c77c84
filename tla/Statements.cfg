INIT PartsInit
NEXT PartsNext
CONSTANTS
  sel = sel
  ins = ins
  del = del
  upd = upd
  Stmt = {sel, ins, del, upd}
  Kind <- MCKind
  Impl = {i1, i2, i3}
  NoImpl = NoImpl
  Clause = {c1, c2}
  NoClause = NoClause
  Backends = {"sqlite", "postgres", "mysql"}
  Rows = 2
  MaxFaults = 1
  MaxChanges = 2
  MaxLiterals = 2
  ColumnType <- MCColumnType
  LiteralType <- MCLiteralType
  Operators = {"-", "/", "^"}
  Relations = {"<"}
  CastTypes = {"uint", "string"}
  MaxNodes = 3
  Tables <- MCTables
  Fields <- MCFields
  Constraints <- MCConstraints
  Older <- MCOlder
  MaxSchemaFaults = 1
SYMMETRY ImplPerms
INVARIANTS IInv RowIsRowId EndMeansAll StaleOnlyReused CommitStores
INVARIANTS SchemaAsDeclared TextMeansTree StatementBinds
PROPERTIES EndIsFinal
CHECK_DEADLOCK FALSE
