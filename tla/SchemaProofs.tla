----------------------------- MODULE SchemaProofs -----------------------------
(***************************************************************************)
(* Proofs about Schema, for any tables, fields and constraints.  That a    *)
(* table is complete once createSchema has returned needs what is complete *)
(* half way (InProgress), what a rollback goes back to, and that tables    *)
(* and indices come from nowhere else (Declared), so that one which exists *)
(* already is the one that was asked for.                                  *)
(***************************************************************************)
EXTENDS Schema, TLAPS

(* The width of a column in each syntax. *)
LEMMA SqliteWidths ==
  \A type \in Storable :
    /\ type \in {"bool", "int", "enum", "uint", "int64", "uint64"} => SqliteTypes[type] = "INTEGER"
    /\ type \notin {"bool", "int", "enum", "uint", "int64", "uint64"} =>
         type \in {"float", "double", "string", "datetime"}
  BY DEF SqliteTypes, Storable

LEMMA PostgresWidths ==
  \A type \in Storable :
    /\ type \in {"int", "enum"} => PostgresTypes[type] = "INTEGER"
    /\ type \in {"uint", "int64", "uint64"} => PostgresTypes[type] = "BIGINT"
    /\ type = "bool" => PostgresTypes[type] = "SMALLINT"
    /\ type \notin {"int", "enum", "uint", "int64", "uint64", "bool"} =>
         type \in {"float", "double", "string", "datetime"}
  BY DEF PostgresTypes, Storable

LEMMA MySqlWidths ==
  \A type \in Storable :
    /\ type \in {"int", "enum"} => MySqlTypes[type] = "INT"
    /\ type = "bool" => MySqlTypes[type] = "TINYINT"
    /\ type = "uint" => MySqlTypes[type] = "INT UNSIGNED"
    /\ type = "int64" => MySqlTypes[type] = "BIGINT"
    /\ type = "uint64" => MySqlTypes[type] = "BIGINT UNSIGNED"
    /\ type \notin {"int", "enum", "uint", "int64", "uint64", "bool"} =>
         type \in {"float", "double", "string", "datetime"}
  BY DEF MySqlTypes, Storable

LEMMA FieldBits ==
  /\ Bits("bool") = 1 /\ Bits("int") = 31 /\ Bits("enum") = 31
  /\ Bits("uint") = 32 /\ Bits("int64") = 63 /\ Bits("uint64") = 64
  /\ \A type \in {"float", "double", "string", "datetime"} : Bits(type) = 0
  BY DEF Bits

LEMMA ColumnBits ==
  /\ Bits("INTEGER") = IF dialect = "sqlite" THEN 63 ELSE 31
  /\ Bits("SERIAL") = 31 /\ Bits("BIGSERIAL") = 63 /\ Bits("SMALLINT") = 15 /\ Bits("BIGINT") = 63
  /\ Bits("TINYINT") = 7 /\ Bits("INT") = 31 /\ Bits("INT UNSIGNED") = 32 /\ Bits("BIGINT UNSIGNED") = 64
  /\ \A type \in {"REAL", "DOUBLE PRECISION", "TEXT", "TIMESTAMP", "FLOAT", "DOUBLE", "DATETIME"} : Bits(type) = 0
  BY DEF Bits

(* A column holds every value of its field, as a key too. *)
LEMMA WideEnough ==
  ASSUME dialect \in Syntaxes, NEW type \in Storable,
         NEW col \in {ColumnTypes(dialect)[type]} \cup KeyType(ColumnTypes(dialect)[type])
  PROVE  \/ Fits(type, col)
         \/ type = "uint64" /\ dialect # "mysql"
<1> DEFINE integers == {"bool", "int", "enum", "uint", "int64", "uint64"}
           others == {"float", "double", "string", "datetime"}
           columns == {"REAL", "DOUBLE PRECISION", "TEXT", "TIMESTAMP", "FLOAT", "DOUBLE", "DATETIME"}
<1>1. ASSUME type \in others, col \in columns PROVE Fits(type, col)
  <2>1. Bits(type) = 0
    BY <1>1, FieldBits
  <2>2. Bits(col) = 0
    BY <1>1, ColumnBits
  <2>3. col \notin Unsigned
    BY <1>1 DEF Unsigned
  <2> QED
    BY <2>1, <2>2, <2>3 DEF Fits
<1>2. CASE dialect = "sqlite"
  <2>1. col = SqliteTypes[type]
    BY <1>2 DEF ColumnTypes, KeyType
  <2>2. CASE type \in integers
    <3>1. col = "INTEGER" /\ Bits(col) = 63
      BY <1>2, <2>1, <2>2, SqliteWidths, ColumnBits
    <3>2. type = "uint64" \/ Bits(type) \in {1, 31, 32, 63}
      BY <2>2, FieldBits
    <3>3. col \notin Unsigned
      BY <3>1 DEF Unsigned
    <3> QED
      BY <1>2, <3>1, <3>2, <3>3 DEF Fits
  <2>3. CASE type \in others
    BY <1>1, <2>1, <2>3 DEF SqliteTypes, Storable
  <2> QED
    BY <2>2, <2>3 DEF Storable
<1>3. CASE dialect = "postgres"
  <2>1. \/ col = PostgresTypes[type]
        \/ PostgresTypes[type] = "INTEGER" /\ col = "SERIAL"
        \/ PostgresTypes[type] = "BIGINT" /\ col = "BIGSERIAL"
    BY <1>3 DEF ColumnTypes, KeyType
  <2>2. CASE type \in integers
    <3>1. CASE type \in {"uint", "int64", "uint64"}
      <4>1. col \in {"BIGINT", "BIGSERIAL"}
        BY <2>1, <3>1, PostgresWidths DEF Storable
      <4>2. Bits(col) = 63
        BY <4>1, ColumnBits
      <4>3. type = "uint64" \/ Bits(type) \in {32, 63}
        BY <3>1, FieldBits
      <4>4. col \notin Unsigned
        BY <4>1 DEF Unsigned
      <4> QED
        BY <1>3, <4>2, <4>3, <4>4 DEF Fits
    <3>2. CASE type \in {"int", "enum"}
      <4>1. col \in {"INTEGER", "SERIAL"}
        BY <2>1, <3>2, PostgresWidths DEF Storable
      <4>2. Bits(col) = 31
        BY <1>3, <4>1, ColumnBits
      <4>3. Bits(type) = 31
        BY <3>2, FieldBits
      <4>4. col \notin Unsigned
        BY <4>1 DEF Unsigned
      <4> QED
        BY <4>2, <4>3, <4>4 DEF Fits
    <3>3. CASE type = "bool"
      <4>1. col = "SMALLINT"
        BY <2>1, <3>3, PostgresWidths DEF Storable
      <4>2. Bits(col) = 15 /\ Bits(type) = 1
        BY <3>3, <4>1, FieldBits, ColumnBits
      <4>3. type \in Unsigned
        BY <3>3 DEF Unsigned
      <4> QED
        BY <4>2, <4>3 DEF Fits
    <3> QED
      BY <2>2, <3>1, <3>2, <3>3
  <2>3. CASE type \in others
    <3>1. col = PostgresTypes[type] /\ col \in columns
      BY <2>1, <2>3 DEF PostgresTypes, Storable
    <3> QED
      BY <1>1, <2>3, <3>1
  <2> QED
    BY <2>2, <2>3 DEF Storable
<1>4. CASE dialect = "mysql"
  <2>1. col = MySqlTypes[type]
    BY <1>4 DEF ColumnTypes, KeyType
  <2>2. CASE type \in integers
    <3>1. Bits(type) \in {1, 31, 32, 63, 64}
      BY <2>2, FieldBits
    <3>2. Bits(col) \in Int /\ Bits(type) <= Bits(col)
      <4>1. CASE type = "bool"
        <5>1. Bits(type) = 1 /\ Bits(col) = 7
          BY <2>1, <4>1, MySqlWidths, FieldBits, ColumnBits DEF Storable
        <5> QED
          BY <5>1
      <4>2. CASE type # "bool"
        <5>1. Bits(col) = Bits(type)
          BY <2>1, <2>2, <4>2, MySqlWidths, FieldBits, ColumnBits DEF Storable
        <5> QED
          BY <3>1, <5>1
      <4> QED
        BY <4>1, <4>2
    <3>3. type \notin Unsigned => col \notin Unsigned
      BY <2>1, <2>2, MySqlWidths DEF Unsigned, Storable
    <3> QED
      BY <3>2, <3>3 DEF Fits
  <2>3. CASE type \in others
    BY <1>1, <2>1, <2>3 DEF MySqlTypes, Storable
  <2> QED
    BY <2>2, <2>3 DEF Storable
<1> QED
  BY <1>2, <1>3, <1>4 DEF Syntaxes

LEMMA DescribedHoldsValues ==
  ASSUME dialect \in Syntaxes, NEW t \in Tables, Describable(t)
  PROVE  HoldsValues(t)
<1> SUFFICES ASSUME NEW i \in DOMAIN Fields[t]
             PROVE  \/ Fits(Fields[t][i].type, ColumnsOf(t)[i].type)
                    \/ Fields[t][i].type = "uint64" /\ dialect # "mysql"
  BY DEF HoldsValues
<1> DEFINE f == Fields[t][i]
           c == ColumnsOf(t)[i]
<1>1. c \in Column(t, f)
  BY DEF Describable, ColumnsOf
<1>2. PICK type \in IF f.type \notin Storable THEN {}
                    ELSE IF IsPrimary(t, f) THEN KeyType(ColumnTypes(dialect)[f.type])
                    ELSE {ColumnTypes(dialect)[f.type]} : c.type = type
  BY <1>1 DEF Column
<1>3. f.type \in Storable
  BY <1>2
<1>4. c.type \in {ColumnTypes(dialect)[f.type]} \cup KeyType(ColumnTypes(dialect)[f.type])
  BY <1>2, <1>3
<1> QED
  BY <1>3, <1>4, WideEnough

LEMMA SchemaInitInv == SchemaInit => SchemaInv
<1> SUFFICES ASSUME SchemaInit PROVE SchemaInv
  OBVIOUS
<1>1. DOMAIN tables \ older = {} /\ indices = {} /\ saved.tables = tables /\ saved.indices = {}
  BY DEF SchemaInit
<1>2. Declared(tables, indices) /\ Declared(saved.tables, saved.indices)
  BY <1>1 DEF Declared
<1>3. SchemaAsDeclared /\ InProgress
  BY DEF SchemaInit, SchemaAsDeclared, InProgress
<1> QED
  BY <1>1, <1>2, <1>3 DEF SchemaInit, SchemaInv

(* What a table should be does not change with the database. *)
LEMMA DeclarationsStay ==
  ASSUME UNCHANGED dialect, NEW t
  PROVE  /\ ColumnsOf(t)' = ColumnsOf(t) /\ Describable(t)' = Describable(t)
         /\ HoldsValues(t)' = HoldsValues(t)
         /\ \A k : IndexOf(t, k)' = IndexOf(t, k)
         /\ \A k : SharesName(t, k)' = SharesName(t, k)
<1>1. \A f : Column(t, f)' = Column(t, f)
  BY DEF Column, KeyType, ColumnTypes
<1>2. ColumnsOf(t)' = ColumnsOf(t)
  BY <1>1 DEF ColumnsOf
<1>3. Describable(t)' = Describable(t)
  BY <1>1 DEF Describable
<1>4. \A u, k : IndexOf(u, k)' = IndexOf(u, k)
  BY DEF IndexOf, IndexFor, IndexName
<1>5. \A k : SharesName(t, k)' = SharesName(t, k)
  BY <1>4 DEF SharesName
<1>6. \A type : Bits(type)' = Bits(type)
  BY DEF Bits
<1>7. HoldsValues(t)' = HoldsValues(t)
  BY <1>2, <1>6 DEF HoldsValues, Fits
<1> QED
  BY <1>2, <1>3, <1>4, <1>5, <1>7

(* A request adds tables and indices, and takes nothing away. *)
Grows ==
  /\ UNCHANGED <<dialect, older>>
  /\ DOMAIN tables \subseteq DOMAIN tables' /\ \A u \in DOMAIN tables : tables'[u] = tables[u]
  /\ indices \subseteq indices'

LEMMA CompleteStays ==
  ASSUME Grows, NEW t
  PROVE  /\ HasColumns(t, tables) => HasColumns(t, tables)'
         /\ \A k : HasIndex(t, k, indices) => HasIndex(t, k, indices)'
         /\ Complete(t, tables, indices) => Complete(t, tables, indices)'
<1>1. HasColumns(t, tables) => HasColumns(t, tables)'
  BY DeclarationsStay DEF Grows, HasColumns
<1>2. \A k : HasIndex(t, k, indices) => HasIndex(t, k, indices)'
  BY DeclarationsStay DEF Grows, HasIndex
<1> QED
  BY <1>1, <1>2 DEF Complete

LEMMA SavedStays ==
  ASSUME UNCHANGED <<dialect, older, saved>>, NEW t
  PROVE  Complete(t, saved.tables, saved.indices)' = Complete(t, saved.tables, saved.indices)
  BY DeclarationsStay DEF Complete, HasColumns, HasIndex

LEMMA SavedNow ==
  ASSUME saved'.tables = tables', saved'.indices = indices', NEW t
  PROVE  Complete(t, saved.tables, saved.indices)' = Complete(t, tables, indices)'
  BY DEF Complete, HasColumns, HasIndex

LEMMA DeclaredStays ==
  ASSUME UNCHANGED <<dialect, older>>
  PROVE  /\ UNCHANGED saved /\ Declared(saved.tables, saved.indices) => Declared(saved.tables, saved.indices)'
         /\ UNCHANGED <<tables, indices>> /\ Declared(tables, indices) => Declared(tables, indices)'
         /\ saved'.tables = tables' /\ saved'.indices = indices'
              => Declared(saved.tables, saved.indices)' = Declared(tables, indices)'
  BY DeclarationsStay DEF Declared

(* createSchema returns: the table is complete, or MySQL's CREATE TABLE    *)
(* has failed. *)
LEMMA ReturnsStep ==
  ASSUME SchemaInv, NEW t, Returns(t), ~rejecting,
         t \in swallowed' \/ Complete(t, tables, indices),
         swallowed \subseteq swallowed',
         UNCHANGED <<dialect, tables, indices, saved, rejecting, older>>
  PROVE  SchemaInv'
<1> USE DEF SchemaInv
<1>1. Grows
  BY DEF Grows
<1>2. creating' = Idle /\ made' = made \cup {t} /\ madeSaved' = IF dialect = "mysql" THEN made' ELSE madeSaved
  BY DEF Returns
<1>3. \A u \in made' \ swallowed' : Complete(u, tables, indices)
  BY <1>2 DEF SchemaAsDeclared
<1>4. \A u \in made' \ swallowed' : Complete(u, tables, indices)'
  BY <1>1, <1>3, CompleteStays
<1>5. \A u \in madeSaved' \ swallowed' : Complete(u, saved.tables, saved.indices)'
  <2>1. CASE dialect = "mysql"
    BY <1>2, <1>4, <2>1, SavedNow
  <2>2. CASE dialect # "mysql"
    BY <1>2, <2>2, SavedStays DEF SchemaAsDeclared
  <2> QED
    BY <2>1, <2>2
<1>6. SchemaAsDeclared'
  BY <1>4, <1>5 DEF SchemaAsDeclared
<1>7. Declared(tables, indices)' /\ Declared(saved.tables, saved.indices)'
  BY DeclaredStays
<1>8. InProgress'
  BY <1>2 DEF InProgress
<1> QED
  BY <1>2, <1>6, <1>7, <1>8

(* An exception: PostgreSQL gives the block up, and nothing has changed.   *)
LEMMA ThrowsStep ==
  ASSUME SchemaInv, Throws
  PROVE  SchemaInv'
<1> USE DEF SchemaInv
<1>1. /\ creating' = Idle /\ rejecting' = (dialect = "postgres")
      /\ UNCHANGED <<dialect, tables, indices, saved, made, madeSaved, swallowed, older>>
  BY DEF Throws
<1>2. Grows
  BY <1>1 DEF Grows
<1>3. ~rejecting' => ~rejecting
  BY <1>1
<1>4. ~rejecting' => \A t \in made' \ swallowed' : Complete(t, tables, indices)'
  BY <1>1, <1>2, <1>3, CompleteStays DEF SchemaAsDeclared
<1>5. \A t \in madeSaved' \ swallowed' : Complete(t, saved.tables, saved.indices)'
  BY <1>1, SavedStays DEF SchemaAsDeclared
<1>6. Declared(tables, indices)' /\ Declared(saved.tables, saved.indices)'
  BY <1>1, DeclaredStays
<1>7. InProgress'
  BY <1>1 DEF InProgress
<1>8. SchemaAsDeclared'
  BY <1>4, <1>5 DEF SchemaAsDeclared
<1> QED
  BY <1>1, <1>6, <1>7, <1>8

(* A statement of createSchema succeeds. *)
LEMMA ProgressStep ==
  ASSUME SchemaInv, Grows, Stored, ~rejecting,
         UNCHANGED <<rejecting, made, madeSaved, swallowed>>,
         Declared(tables, indices)', InProgress'
  PROVE  SchemaInv'
<1> USE DEF SchemaInv
<1>1. UNCHANGED <<dialect, older>>
  BY DEF Grows
<1>2. \A t \in made \ swallowed : Complete(t, tables, indices)'
  BY CompleteStays DEF SchemaAsDeclared
<1>3. CASE dialect = "mysql"
  <2>1. saved'.tables = tables' /\ saved'.indices = indices'
    BY <1>3 DEF Stored
  <2>2. Declared(saved.tables, saved.indices)'
    BY <1>1, <2>1, DeclaredStays
  <2>3. \A t \in madeSaved' \ swallowed' : Complete(t, saved.tables, saved.indices)'
    BY <1>2, <1>3, <2>1, SavedNow
  <2>4. SchemaAsDeclared'
    BY <1>2, <2>3 DEF SchemaAsDeclared
  <2> QED
    BY <1>1, <2>1, <2>2, <2>4
<1>4. CASE dialect # "mysql"
  <2>1. UNCHANGED saved
    BY <1>4 DEF Stored
  <2>2. Declared(saved.tables, saved.indices)'
    BY <1>1, <2>1, DeclaredStays
  <2>3. \A t \in madeSaved' \ swallowed' : Complete(t, saved.tables, saved.indices)'
    BY <1>1, <2>1, SavedStays DEF SchemaAsDeclared
  <2>4. SchemaAsDeclared'
    BY <1>2, <2>3 DEF SchemaAsDeclared
  <2> QED
    BY <1>1, <1>4, <2>2, <2>4
<1> QED
  BY <1>3, <1>4

LEMMA CreateTableStep ==
  ASSUME SchemaInv, NEW t \in Tables, CreateTable(t)
  PROVE  SchemaInv'
<1> USE DEF SchemaInv
<1>1. /\ creating = Idle /\ Describable(t) /\ ~rejecting
      /\ tables' = [u \in DOMAIN tables \cup {t} |-> IF u \in DOMAIN tables THEN tables[u] ELSE ColumnsOf(u)]
      /\ creating' = <<t, 1>>
      /\ UNCHANGED <<dialect, indices, rejecting, made, madeSaved, swallowed, older>>
      /\ Stored
  BY DEF CreateTable, TableRefused
<1>2. Grows
  BY <1>1 DEF Grows
<1>3. DOMAIN tables' = DOMAIN tables \cup {t} /\ (t \notin older => tables'[t] = ColumnsOf(t))
  BY <1>1 DEF Declared
<1>4. HoldsValues(t)
  BY <1>1, DescribedHoldsValues
<1>5. HasColumns(t, tables)'
  BY <1>1, <1>3, <1>4, DeclarationsStay DEF HasColumns
<1>6. InProgress'
  <2>1. \A k \in DOMAIN Constraints[t] : k < 1 => HasIndex(t, k, indices)
    BY SchemaAssumption
  <2>2. \A k \in DOMAIN Constraints[t] : k < 1 => HasIndex(t, k, indices)'
    BY <1>2, <2>1, CompleteStays
  <2> QED
    BY <1>1, <1>5, <2>2 DEF InProgress
<1>7. Declared(tables, indices)'
  <2>1. \A u \in DOMAIN tables' \ older :
          u \in Tables /\ Describable(u)' /\ tables'[u] = ColumnsOf(u)'
    BY <1>1, <1>3, DeclarationsStay DEF Declared
  <2>2. \A x \in indices' : \E u \in Tables : \E k \in DOMAIN Constraints[u] :
          IsIndex(u, k) /\ x = IndexOf(u, k)'
    BY <1>1, DeclarationsStay DEF Declared
  <2> QED
    BY <1>1, <2>1, <2>2 DEF Declared
<1> QED
  BY <1>1, <1>2, <1>6, <1>7, ProgressStep

LEMMA CreateIndexStep == SchemaInv /\ CreateIndex => SchemaInv'
<1> SUFFICES ASSUME SchemaInv, CreateIndex PROVE SchemaInv'
  OBVIOUS
<1> USE DEF SchemaInv
<1>0. PICK t \in Tables : t = creating[1]
  BY DEF CreateIndex, InProgress
<1>1. PICK k \in Upcoming(t, creating[2]) :
        /\ indices' = IF dialect # "mysql" /\ \E x \in indices : x.name = IndexOf(t, k).name
                      THEN indices ELSE indices \cup {IndexOf(t, k)}
        /\ creating' = <<t, k + 1>>
  BY <1>0 DEF CreateIndex
<1>2. /\ creating # Idle /\ Stored
      /\ UNCHANGED <<dialect, tables, rejecting, made, madeSaved, swallowed, older>>
  BY DEF CreateIndex
<1>3. /\ t \in Tables /\ creating[2] \in Nat /\ ~rejecting /\ HasColumns(t, tables)
      /\ \A j \in DOMAIN Constraints[t] : j < creating[2] => HasIndex(t, j, indices)
  BY <1>0, <1>2 DEF InProgress
<1>4. /\ k \in DOMAIN Constraints[t] /\ k \in Nat /\ IsIndex(t, k)
      /\ \A j \in DOMAIN Constraints[t] : j \in Nat
      /\ \A j \in DOMAIN Constraints[t] : IsIndex(t, j) /\ j >= creating[2] => k <= j
  BY <1>3, SchemaAssumption DEF Upcoming, Remaining
<1>5. Grows
  BY <1>1, <1>2 DEF Grows
<1>6. HasIndex(t, k, indices)'
  <2>1. CASE \E x \in indices : x.name = IndexOf(t, k).name
    <3>1. PICK x \in indices : x.name = IndexOf(t, k).name
      BY <2>1
    <3>2. PICK u \in Tables : \E i \in DOMAIN Constraints[u] : IsIndex(u, i) /\ x = IndexOf(u, i)
      BY DEF Declared
    <3>3. IndexOf(t, k) \in indices \/ SharesName(t, k)
      BY <3>1, <3>2 DEF SharesName
    <3> QED
      BY <1>2, <1>5, <3>3, DeclarationsStay DEF HasIndex, Grows
  <2>2. CASE ~\E x \in indices : x.name = IndexOf(t, k).name
    BY <1>1, <1>2, <2>2, DeclarationsStay DEF HasIndex
  <2> QED
    BY <2>1, <2>2
<1>7. \A j \in DOMAIN Constraints[t] : j < k + 1 => HasIndex(t, j, indices)'
  <2> SUFFICES ASSUME NEW j \in DOMAIN Constraints[t], j < k + 1 PROVE HasIndex(t, j, indices)'
    OBVIOUS
  <2>1. CASE j < creating[2]
    BY <1>3, <1>5, <2>1, CompleteStays
  <2>2. CASE ~(j < creating[2]) /\ j < k
    BY <1>3, <1>4, <2>2 DEF HasIndex
  <2>3. CASE j = k
    BY <1>6, <2>3
  <2> QED
    BY <1>3, <1>4, <2>1, <2>2, <2>3
<1>8. InProgress'
  <2>1. HasColumns(t, tables)'
    BY <1>3, <1>5, CompleteStays
  <2>2. creating'[1] = t /\ creating'[2] = k + 1 /\ creating' = <<t, k + 1>>
    BY <1>1
  <2> QED
    BY <1>2, <1>3, <1>4, <1>7, <2>1, <2>2 DEF InProgress
<1>9. Declared(tables, indices)'
  <2>1. \A u \in DOMAIN tables' \ older :
          u \in Tables /\ Describable(u)' /\ tables'[u] = ColumnsOf(u)'
    BY <1>2, DeclarationsStay DEF Declared
  <2>2. indices' \subseteq indices \cup {IndexOf(t, k)}
    BY <1>1
  <2>3. \A x \in indices' : \E u \in Tables : \E i \in DOMAIN Constraints[u] :
          IsIndex(u, i) /\ x = IndexOf(u, i)
    BY <1>3, <1>4, <2>2 DEF Declared
  <2>4. \A x \in indices' : \E u \in Tables : \E i \in DOMAIN Constraints[u] :
          IsIndex(u, i) /\ x = IndexOf(u, i)'
    <3>1. \A u, i : IndexOf(u, i)' = IndexOf(u, i)
      BY <1>2, DeclarationsStay
    <3> QED
      BY <2>3, <3>1
  <2>5. \A u \in DOMAIN tables' \ older' :
          u \in Tables /\ Describable(u)' /\ tables'[u] = ColumnsOf(u)'
    BY <1>2, <2>1
  <2> HIDE DEF SchemaInv
  <2> QED
    BY <2>4, <2>5 DEF Declared
<1> QED
  BY <1>2, <1>3, <1>5, <1>8, <1>9, ProgressStep

LEMMA FailuresStep ==
  ASSUME SchemaInv,
         (\E t \in Tables : CreateTableFails(t)) \/ CreateIndexFails \/ CreateSchemaReturns
  PROVE  SchemaInv'
<1> USE DEF SchemaInv
<1>1. ASSUME NEW t \in Tables, CreateTableFails(t) PROVE SchemaInv'
  <2>1. CASE dialect = "mysql"
    <3>1. ~rejecting
      BY <2>1
    <3>2. /\ Returns(t) /\ swallowed' = swallowed \cup {t}
          /\ UNCHANGED <<dialect, tables, indices, saved, rejecting, older>>
      BY <1>1, <2>1 DEF CreateTableFails
    <3> QED
      BY <3>1, <3>2, ReturnsStep
  <2>2. CASE dialect # "mysql"
    BY <1>1, <2>2, ThrowsStep DEF CreateTableFails
  <2> QED
    BY <2>1, <2>2
<1>2. ASSUME CreateIndexFails PROVE SchemaInv'
  BY <1>2, ThrowsStep DEF CreateIndexFails
<1>3. ASSUME CreateSchemaReturns PROVE SchemaInv'
  <2>1. PICK t \in Tables : t = creating[1]
    BY <1>3 DEF CreateSchemaReturns, InProgress
  <2>2. /\ Remaining(t, creating[2]) = {} /\ Returns(t) /\ creating # Idle
        /\ UNCHANGED <<dialect, tables, indices, saved, rejecting, swallowed, older>>
    BY <1>3, <2>1 DEF CreateSchemaReturns
  <2>3. /\ creating[2] \in Nat /\ ~rejecting /\ HasColumns(t, tables)
        /\ \A k \in DOMAIN Constraints[t] : k < creating[2] => HasIndex(t, k, indices)
    BY <2>1, <2>2 DEF InProgress
  <2>4. \A k \in DOMAIN Constraints[t] : HasIndex(t, k, indices)
    <3> SUFFICES ASSUME NEW k \in DOMAIN Constraints[t], IsIndex(t, k) PROVE k < creating[2]
      BY <2>3 DEF HasIndex
    <3>1. k \in Nat /\ ~(k >= creating[2])
      BY <2>2, SchemaAssumption DEF Remaining
    <3> QED
      BY <2>3, <3>1
  <2>5. Complete(t, tables, indices)
    BY <2>3, <2>4 DEF Complete
  <2> QED
    BY <2>2, <2>3, <2>5, ReturnsStep
<1> QED
  BY <1>1, <1>2, <1>3

(* COMMIT stores what is there, but for a block that was given up; ROLLBACK*)
(* goes back to what is stored. *)
LEMMA EndStep ==
  ASSUME SchemaInv, CommitSchema \/ RollbackSchema
  PROVE  SchemaInv'
<1> USE DEF SchemaInv
<1>1. /\ creating' = Idle /\ rejecting' = FALSE
      /\ UNCHANGED <<dialect, older, swallowed>>
  BY DEF CommitSchema, RollbackSchema
<1>2. /\ saved'.tables = tables' /\ saved'.indices = indices' /\ madeSaved' = made'
      /\ \/ UNCHANGED saved /\ made' = madeSaved
         \/ UNCHANGED <<tables, indices>> /\ made' = made /\ ~rejecting
  BY DEF CommitSchema, RollbackSchema
<1>3. \A t \in made' \ swallowed' : Complete(t, tables, indices)'
  <2>1. CASE UNCHANGED saved /\ made' = madeSaved
    BY <1>1, <1>2, <2>1, SavedStays, SavedNow DEF SchemaAsDeclared
  <2>2. CASE UNCHANGED <<tables, indices>> /\ made' = made /\ ~rejecting
    <3>1. Grows
      BY <1>1, <2>2 DEF Grows
    <3> QED
      BY <1>1, <2>2, <3>1, CompleteStays DEF SchemaAsDeclared
  <2> QED
    BY <1>2, <2>1, <2>2
<1>4. \A t \in madeSaved' \ swallowed' : Complete(t, saved.tables, saved.indices)'
  BY <1>2, <1>3, SavedNow
<1>5. SchemaAsDeclared'
  BY <1>3, <1>4 DEF SchemaAsDeclared
<1>6. Declared(tables, indices)' /\ Declared(saved.tables, saved.indices)'
  BY <1>1, <1>2, DeclaredStays
<1>7. InProgress'
  BY <1>1 DEF InProgress
<1> QED
  BY <1>1, <1>2, <1>5, <1>6, <1>7

LEMMA SchemaInductive == SchemaInv /\ [SchemaNext]_schemaVars => SchemaInv'
<1> SUFFICES ASSUME SchemaInv, [SchemaNext]_schemaVars PROVE SchemaInv'
  OBVIOUS
<1>1. CASE UNCHANGED schemaVars
  <2>1. /\ Grows
        /\ UNCHANGED <<dialect, older, saved, tables, indices, creating, rejecting, made, madeSaved, swallowed>>
    BY <1>1 DEF schemaVars, Grows
  <2>2. SchemaAsDeclared'
    BY <2>1, CompleteStays, SavedStays DEF SchemaInv, SchemaAsDeclared
  <2>3. Declared(tables, indices)' /\ Declared(saved.tables, saved.indices)'
    BY <2>1, DeclaredStays DEF SchemaInv
  <2>4. InProgress'
    BY <2>1, CompleteStays DEF SchemaInv, InProgress
  <2> QED
    BY <2>1, <2>2, <2>3, <2>4 DEF SchemaInv
<1>2. ASSUME NEW t \in Tables, CreateTable(t) PROVE SchemaInv'
  BY <1>2, CreateTableStep
<1>3. CASE CreateIndex
  BY <1>3, CreateIndexStep
<1>4. CASE (\E t \in Tables : CreateTableFails(t)) \/ CreateIndexFails \/ CreateSchemaReturns
  BY <1>4, FailuresStep
<1>5. CASE CommitSchema \/ RollbackSchema
  BY <1>5, EndStep
<1> QED
  BY <1>1, <1>2, <1>3, <1>4, <1>5 DEF SchemaNext

(* Whatever request of createSchema fails, and however it is mixed with    *)
(* commits and rollbacks: a table for which it has returned has the columns*)
(* and indices declared, now and as stored (SqlStorable.cpp:72).           *)
THEOREM SchemaDeclared == SchemaSpec => []SchemaAsDeclared
<1>1. SchemaInv => SchemaAsDeclared
  BY DEF SchemaInv
<1> QED
  BY <1>1, SchemaInitInv, SchemaInductive, PTL DEF SchemaSpec

(* On MySQL a transaction does not protect the schema: what a rollback goes*)
(* back to is what there is.                                               *)
THEOREM MySqlSchemaIsStored == SchemaSpec => [](dialect = "mysql" => saved.tables = tables /\ saved.indices = indices)
<1>1. SchemaInv => (dialect = "mysql" => saved.tables = tables /\ saved.indices = indices)
  BY DEF SchemaInv
<1> QED
  BY <1>1, SchemaInitInv, SchemaInductive, PTL DEF SchemaSpec
=============================================================================
