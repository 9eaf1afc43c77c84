------------------------------- MODULE Schema -------------------------------
(***************************************************************************)
(* Storable<TObj>::createSchema: the columns and constraints of a CREATE   *)
(* TABLE in the three syntaxes, and the sequence of requests that makes a  *)
(* table and its indices, one of which may fail, inside a transaction that *)
(* is committed or rolled back.  A name is a sequence of words, the pieces *)
(* between its underscores.                                                *)
(***************************************************************************)
EXTENDS Integers, Sequences, FiniteSets
LOCAL INSTANCE SequencesExt

CONSTANTS Tables,          \* names of the storables
          Fields,          \* Fields[t]: a sequence of [name, type, nullable, default]
          Constraints,     \* Constraints[t]: a sequence of [kind, owner, column, unique, to]
          Older,           \* tables that may exist already, without their last column
          MaxSchemaFaults  \* bound on requests that fail for no reason of the program's

ASSUME SchemaAssumption ==
  /\ MaxSchemaFaults \in Nat
  /\ \A t \in Tables : DOMAIN Constraints[t] \subseteq Nat \ {0}

VARIABLES dialect,         \* SqlSyntax of the connector
          tables,          \* external: the columns of each table there is
          indices,         \* external: the indices there are
          saved,           \* external: tables and indices as last committed
          rejecting,       \* external: PostgreSQL rejects the rest of the block
          creating,        \* the table createSchema works at, and the constraint it is at
          made, madeSaved, \* tables createSchema has returned for, and those as committed
          swallowed,       \* those of which MySQL's CREATE TABLE failed
          older,           \* tables that existed before
          schemaFaults

schemaVars == <<dialect, tables, indices, saved, rejecting, creating, made, madeSaved,
                swallowed, older, schemaFaults>>

Syntaxes == {"sqlite", "postgres", "mysql"}
Idle == <<"idle", 0>>

-----------------------------------------------------------------------------
(* The type of a column; a field of any other type cannot be one. *)

Storable == {"bool", "int", "enum", "uint", "int64", "uint64", "float", "double", "string", "datetime"}

SqliteTypes ==
  [t \in Storable |->
     CASE t \in {"bool", "int", "enum", "uint", "int64", "uint64"} -> "INTEGER"
       [] t \in {"float", "double"} -> "REAL" [] t = "string" -> "TEXT" [] t = "datetime" -> "DATETIME"]

PostgresTypes ==
  [t \in Storable |->
     CASE t = "bool" -> "SMALLINT" [] t \in {"int", "enum"} -> "INTEGER"
       [] t \in {"uint", "int64", "uint64"} -> "BIGINT"
       [] t = "float" -> "REAL" [] t = "double" -> "DOUBLE PRECISION"
       [] t = "string" -> "TEXT" [] t = "datetime" -> "TIMESTAMP"]

MySqlTypes ==
  [t \in Storable |->
     CASE t = "bool" -> "TINYINT" [] t \in {"int", "enum"} -> "INT" [] t = "uint" -> "INT UNSIGNED"
       [] t = "int64" -> "BIGINT" [] t = "uint64" -> "BIGINT UNSIGNED"
       [] t = "float" -> "FLOAT" [] t = "double" -> "DOUBLE"
       [] t = "string" -> "TEXT" [] t = "datetime" -> "DATETIME"]

ColumnTypes(syntax) ==
  CASE syntax = "sqlite" -> SqliteTypes
    [] syntax = "postgres" -> PostgresTypes
    [] syntax = "mysql" -> MySqlTypes

(* findConstraint(): the first of its kind for the field, if any. *)
Found(t, kind, f) ==
  LET of == SelectSeq(Constraints[t], LAMBDA c : c.kind = kind /\ c.column = f.name) IN
  IF of = <<>> THEN {} ELSE {of[1]}

IsPrimary(t, f) == Found(t, "primary", f) # {}

(* Only these become the type of a primary key; SQLite's is not looked at. *)
KeyType(type) ==
  CASE dialect = "sqlite"                            -> {type}
    [] dialect = "postgres" /\ type = "INTEGER"      -> {"SERIAL"}
    [] dialect = "postgres" /\ type = "BIGINT"       -> {"BIGSERIAL"}
    [] dialect = "mysql" /\ type \in {"TINYINT", "INT", "INT UNSIGNED", "BIGINT", "BIGINT UNSIGNED"} -> {type}
    [] OTHER                                         -> {}

(* A column: none if createSchema throws at the field. *)
Column(t, f) ==
  {[name    |-> f.name,
    type    |-> type,
    notNull |-> ~f.nullable,
    default |-> f.default /\ ~(dialect = "mysql" /\ f.type = "string"),
    key     |-> IsPrimary(t, f) /\ dialect # "postgres",
    refers  |-> {c.to : c \in Found(t, "foreign", f)},
    check   |-> Found(t, "check", f) # {}]
   : type \in IF f.type \notin Storable THEN {}
              ELSE IF IsPrimary(t, f) THEN KeyType(ColumnTypes(dialect)[f.type])
              ELSE {ColumnTypes(dialect)[f.type]}}

Belong(t) == \A i \in DOMAIN Constraints[t] : Constraints[t][i].owner = t
Describable(t) == Belong(t) /\ \A i \in DOMAIN Fields[t] : Column(t, Fields[t][i]) # {}
ColumnsOf(t) == [i \in DOMAIN Fields[t] |-> CHOOSE c \in Column(t, Fields[t][i]) : TRUE]

(* idx_<table>_<column>; MySQL makes up a name of its own, in the table.   *)
IndexName(t, column) == IF dialect = "mysql" THEN <<t, column>> ELSE t \o column
IndexFor(t, c) == [name |-> IndexName(t, c.column), table |-> t, column |-> c.column, unique |-> c.unique]
IndexOf(t, k) == IndexFor(t, Constraints[t][k])

(* The constraints that ask for an index, and the next of them from k on.  *)
IsIndex(t, k) == k \in DOMAIN Constraints[t] /\ Constraints[t][k].kind = "index"
Remaining(t, k) == {i \in DOMAIN Constraints[t] : i >= k /\ IsIndex(t, i)}
Upcoming(t, k) == {i \in Remaining(t, k) : \A j \in Remaining(t, k) : i <= j}

-----------------------------------------------------------------------------
(* External: the database. *)

ColumnNames(t) == {tables[t][i].name : i \in DOMAIN tables[t]}
TypeOf(t, name) == CHOOSE type \in {tables[t][i].type : i \in {j \in DOMAIN tables[t] : tables[t][j].name = name}} : TRUE

(* A serial column has a default already; PostgreSQL wants a unique index  *)
(* where a foreign key points, SQLite an INTEGER to count up.              *)
TableRefused(t) ==
  \/ rejecting
  \/ /\ dialect # "mysql" /\ t \notin DOMAIN tables
     /\ \E i \in DOMAIN ColumnsOf(t) :
          LET c == ColumnsOf(t)[i] IN
          \/ c.type \in {"SERIAL", "BIGSERIAL"} /\ c.default
          \/ dialect = "sqlite" /\ c.key /\ c.type # "INTEGER"
          \/ /\ dialect = "postgres"
             /\ \E to \in c.refers : \A x \in indices :
                  ~(x.table = to.table /\ x.column = to.column /\ x.unique)

(* MySQL cannot index a text of any length. *)
IndexRefused(t, c) ==
  \/ rejecting
  \/ c.column \notin ColumnNames(t)
  \/ dialect = "mysql" /\ TypeOf(t, c.column) = "TEXT"

SchemaFault == schemaFaults < MaxSchemaFaults /\ schemaFaults' = schemaFaults + 1

(* MySQL commits before and after each of these requests. *)
Stored == saved' = IF dialect = "mysql" THEN [tables |-> tables', indices |-> indices'] ELSE saved
Throws ==
  /\ creating' = Idle
  /\ rejecting' = (dialect = "postgres")
  /\ UNCHANGED <<dialect, tables, indices, saved, made, madeSaved, swallowed, older>>

-----------------------------------------------------------------------------
SchemaInit ==
  /\ dialect \in Syntaxes
  /\ older \in SUBSET {t \in Older : Describable(t)}
  /\ tables = [t \in older |-> Front(ColumnsOf(t))]
  /\ indices = {}
  /\ saved = [tables |-> tables, indices |-> {}]
  /\ rejecting = FALSE /\ creating = Idle
  /\ made = {} /\ madeSaved = {} /\ swallowed = {}
  /\ schemaFaults = 0

Returns(t) == creating' = Idle /\ made' = made \cup {t} /\ madeSaved' = IF dialect = "mysql" THEN made' ELSE madeSaved

(* Statement.exec() of CREATE TABLE, IF NOT EXISTS but on MySQL. *)
CreateTable(t) ==
  /\ creating = Idle /\ Describable(t) /\ ~TableRefused(t)
  /\ dialect = "mysql" => t \notin DOMAIN tables
  /\ tables' = [u \in DOMAIN tables \cup {t} |-> IF u \in DOMAIN tables THEN tables[u] ELSE ColumnsOf(u)]
  /\ creating' = <<t, 1>>
  /\ UNCHANGED <<dialect, indices, rejecting, made, madeSaved, swallowed, older, schemaFaults>>
  /\ Stored

(* It fails: MySQL takes that for a table that exists. *)
CreateTableFails(t) ==
  /\ creating = Idle /\ Describable(t)
  /\ \/ (TableRefused(t) \/ (dialect = "mysql" /\ t \in DOMAIN tables)) /\ UNCHANGED schemaFaults
     \/ SchemaFault
  /\ IF dialect = "mysql"
     THEN /\ Returns(t) /\ swallowed' = swallowed \cup {t}
          /\ UNCHANGED <<dialect, tables, indices, saved, rejecting, older>>
     ELSE Throws

(* The next index; one whose name is taken is skipped. *)
CreateIndex ==
  LET t == creating[1] IN
  /\ creating # Idle
  /\ \E k \in Upcoming(t, creating[2]) :
       /\ ~IndexRefused(t, Constraints[t][k])
       /\ indices' = IF dialect # "mysql" /\ \E x \in indices : x.name = IndexOf(t, k).name
                     THEN indices ELSE indices \cup {IndexOf(t, k)}
       /\ creating' = <<t, k + 1>>
  /\ UNCHANGED <<dialect, tables, rejecting, made, madeSaved, swallowed, older, schemaFaults>>
  /\ Stored

IndexGoesWrong ==
  /\ creating # Idle
  /\ \E k \in Upcoming(creating[1], creating[2]) :
       \/ IndexRefused(creating[1], Constraints[creating[1]][k]) /\ UNCHANGED schemaFaults
       \/ SchemaFault

(* Mutant: an index that fails is taken for one that exists. *)
CreateIndexFailsQuietly ==
  /\ IndexGoesWrong
  /\ Returns(creating[1])
  /\ UNCHANGED <<dialect, tables, indices, saved, rejecting, swallowed, older>>

CreateIndexFails == IndexGoesWrong /\ Throws

CreateSchemaReturns ==
  /\ creating # Idle /\ Remaining(creating[1], creating[2]) = {}
  /\ Returns(creating[1])
  /\ UNCHANGED <<dialect, tables, indices, saved, rejecting, swallowed, older, schemaFaults>>

(* commit() and rollback(); a block PostgreSQL has given up is not stored. *)
CommitSchema ==
  /\ creating = Idle
  /\ saved' = IF rejecting THEN saved ELSE [tables |-> tables, indices |-> indices]
  /\ tables' = saved'.tables /\ indices' = saved'.indices
  /\ made' = IF rejecting THEN madeSaved ELSE made
  /\ madeSaved' = made' /\ rejecting' = FALSE
  /\ UNCHANGED <<dialect, creating, swallowed, older, schemaFaults>>

RollbackSchema ==
  /\ creating = Idle
  /\ tables' = saved.tables /\ indices' = saved.indices
  /\ made' = madeSaved /\ rejecting' = FALSE
  /\ UNCHANGED <<dialect, saved, creating, madeSaved, swallowed, older, schemaFaults>>

SchemaNext ==
  \/ \E t \in Tables : CreateTable(t) \/ CreateTableFails(t)
  \/ CreateIndex \/ CreateIndexFails \/ CreateSchemaReturns
  \/ CommitSchema \/ RollbackSchema

SchemaSpec == SchemaInit /\ [][SchemaNext]_schemaVars

-----------------------------------------------------------------------------
(* Constraints of two storables, or two of one, that ask for one name.     *)
SharesName(t, k) ==
  \E u \in Tables : \E i \in DOMAIN Constraints[u] :
    IsIndex(u, i) /\ IndexOf(u, i) # IndexOf(t, k) /\ IndexOf(u, i).name = IndexOf(t, k).name

(* The integers a field or a column can hold: whether negative ones, and   *)
(* how large.  Other types hold what they are given.                       *)
Unsigned == {"bool", "uint", "uint64", "INT UNSIGNED", "BIGINT UNSIGNED"}
Bits(type) ==
  CASE type = "bool" -> 1
    [] type = "TINYINT" -> 7
    [] type = "SMALLINT" -> 15
    [] type \in {"int", "enum", "INT", "SERIAL"} -> 31
    [] type = "INTEGER" -> IF dialect = "sqlite" THEN 63 ELSE 31
    [] type \in {"uint", "INT UNSIGNED"} -> 32
    [] type \in {"int64", "BIGINT", "BIGSERIAL"} -> 63
    [] type \in {"uint64", "BIGINT UNSIGNED"} -> 64
    [] OTHER -> 0
Fits(type, column) == (type \notin Unsigned => column \notin Unsigned) /\ Bits(type) <= Bits(column)

(* Columns and indices of a table, and what there is of them: the columns  *)
(* are wide enough for every value but those of an unsigned 64-bit field.  *)
HoldsValues(t) ==
  \A i \in DOMAIN Fields[t] :
    \/ Fits(Fields[t][i].type, ColumnsOf(t)[i].type)
    \/ Fields[t][i].type = "uint64" /\ dialect # "mysql"
HasColumns(t, there) ==
  t \in DOMAIN there /\ (t \notin older => there[t] = ColumnsOf(t) /\ HoldsValues(t))
HasIndex(t, k, index) == IsIndex(t, k) => IndexOf(t, k) \in index \/ SharesName(t, k)
Complete(t, there, index) ==
  HasColumns(t, there) /\ \A k \in DOMAIN Constraints[t] : HasIndex(t, k, index)

(* A table for which createSchema has returned has the columns of its      *)
(* class and every index declared for it, unless it existed before         *)
(* (columns are never added), a CREATE TABLE that failed on MySQL was      *)
(* taken for one that exists, or another index has the name already.  The  *)
(* same holds of what a commit has stored.                                 *)
SchemaAsDeclared ==
  /\ ~rejecting => \A t \in made \ swallowed : Complete(t, tables, indices)
  /\ \A t \in madeSaved \ swallowed : Complete(t, saved.tables, saved.indices)

-----------------------------------------------------------------------------
(* What is in a database of these programs: tables and indices of storables.*)
Declared(there, index) ==
  /\ \A t \in DOMAIN there \ older : t \in Tables /\ Describable(t) /\ there[t] = ColumnsOf(t)
  /\ \A x \in index : \E t \in Tables : \E k \in DOMAIN Constraints[t] : IsIndex(t, k) /\ x = IndexOf(t, k)

(* While createSchema is at a table the statements so far have succeeded.  *)
InProgress ==
  creating # Idle =>
    /\ creating[1] \in Tables /\ creating[2] \in Nat /\ creating = <<creating[1], creating[2]>>
    /\ ~rejecting
    /\ HasColumns(creating[1], tables)
    /\ \A k \in DOMAIN Constraints[creating[1]] : k < creating[2] => HasIndex(creating[1], k, indices)

(* Inductive invariant of SchemaAsDeclared. *)
SchemaInv ==
  /\ dialect \in Syntaxes /\ rejecting \in BOOLEAN
  /\ Declared(tables, indices) /\ Declared(saved.tables, saved.indices)
  /\ InProgress
  /\ rejecting => dialect = "postgres"
  /\ dialect = "mysql" => saved.tables = tables /\ saved.indices = indices /\ madeSaved = made
  /\ SchemaAsDeclared
=============================================================================
