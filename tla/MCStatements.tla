---------------------------- MODULE MCStatements ----------------------------
(* For TLC: one statement of each class, used again and again; and, as     *)
(* behaviours of their own, the expressions such statements are made of    *)
(* and the creation of the tables they work on.  These share no variables. *)
(* A behaviour is one of the component chosen at its start, while the      *)
(* others keep an initial value, so that the states add up.                *)
EXTENDS Statements, Schema, SqlReader, TLC

CONSTANTS sel, ins, del, upd

VARIABLE part

MCKind == sel :> "select" @@ ins :> "insert" @@ del :> "delete" @@ upd :> "update"
ImplPerms == Permutations(Impl) \cup Permutations(Clause)

(* Expressions: columns and literals of a few types. *)
MCColumnType  == "a" :> "int" @@ "b" :> "bool" @@ "s" :> "string"
MCLiteralType == "-1" :> "int" @@ "w" :> "string"

(* Schema: the index of one table has the name of an index of another; a   *)
(* key of type bool; an indexed string.                                    *)
Order     == <<"order">>
OrderItem == <<"order", "item">>
Flag      == <<"flag">>
Person    == <<"person">>

Field(name, type) == [name |-> name, type |-> type, nullable |-> FALSE, default |-> FALSE]
Constraint(kind, owner, column) ==
  [kind |-> kind, owner |-> owner, column |-> column, unique |-> FALSE, to |-> <<>>]

MCTables == {Order, OrderItem, Flag, Person}
MCOlder  == {Person, OrderItem}
MCFields ==
  Order :> <<Field(<<"id">>, "int"), Field(<<"item", "no">>, "uint64"),
             [Field(<<"sum">>, "double") EXCEPT !.default = TRUE, !.nullable = TRUE]>>
  @@ OrderItem :> <<Field(<<"id">>, "int64"), Field(<<"no">>, "uint"), Field(<<"order">>, "int")>>
  @@ Flag :> <<Field(<<"on">>, "bool"), Field(<<"kind">>, "enum")>>
  @@ Person :> <<Field(<<"id">>, "int"), [Field(<<"name">>, "string") EXCEPT !.default = TRUE]>>
MCConstraints ==
  Order :> <<Constraint("primary", Order, <<"id">>),
             [Constraint("index", Order, <<"id">>) EXCEPT !.unique = TRUE],
             Constraint("index", Order, <<"item", "no">>)>>
  @@ OrderItem :> <<Constraint("primary", OrderItem, <<"id">>),
                    Constraint("index", OrderItem, <<"no">>),
                    [Constraint("foreign", OrderItem, <<"order">>) EXCEPT
                       !.to = [table |-> Order, column |-> <<"id">>]],
                    Constraint("check", OrderItem, <<"no">>)>>
  @@ Flag :> <<Constraint("primary", Flag, <<"on">>)>>
  @@ Person :> <<Constraint("primary", Person, <<"id">>),
                 [Constraint("index", Person, <<"name">>) EXCEPT !.unique = TRUE]>>

Start(name, idle) == part = name \/ idle

PartsInit ==
  /\ part \in {"statement", "schema", "expression"}
  /\ Init /\ Start("statement", backend = "sqlite")
  /\ SchemaInit /\ Start("schema", dialect = "sqlite" /\ older = {})
  /\ ExpressionInit /\ Start("expression", syntax = "sqlite" /\ ~qualified /\ node = LiteralNode("w"))

PartsNext ==
  /\ part' = part
  /\ \/ part = "statement" /\ Next /\ UNCHANGED <<schemaVars, expressionVars>>
     \/ part = "schema" /\ SchemaNext /\ UNCHANGED <<vars, expressionVars>>
     \/ part = "expression" /\ ExpressionNext /\ UNCHANGED <<vars, schemaVars>>
=============================================================================
