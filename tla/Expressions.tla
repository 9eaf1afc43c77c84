----------------------------- MODULE Expressions -----------------------------
(***************************************************************************)
(* Expression trees as the overloaded operators build them, their SQL text *)
(* in the three syntaxes, and the literals that go with it.  A text is a   *)
(* sequence of tokens.                                                     *)
(***************************************************************************)
EXTENDS Integers, Sequences, FiniteSets

CONSTANTS ColumnType,      \* columns, and the type of each
          LiteralType,     \* literals, "-1" among them, and the type of each
          Operators,       \* binary operators, of + - * / % & | ^ << >>
          Relations,       \* relational operators, of = <> < <= > >=
          CastTypes,
          MaxNodes         \* bound on the nodes of an expression

VARIABLES syntax,          \* of the connector
          qualified,       \* m_fullQualified: columns with their table, literals as ?
          node,            \* the expression so far
          clause,          \* the where clause so far
          sets,            \* assignments of an update, m_sets
          joined,          \* other tables are referred to
          size             \* nodes in the expression and the clause

expressionVars == <<syntax, qualified, node, clause, sets, joined, size>>

Node(kind, op, type, args) == [kind |-> kind, op |-> op, type |-> type, args |-> args]
NoNode == Node("none", "", "void", <<>>)

(* The classes of nodes; a clause has no type.                             *)
ColumnNode(c)            == Node("column", c, ColumnType[c], <<>>)
LiteralNode(v)           == Node("literal", v, LiteralType[v], <<>>)
NullNode(type)           == Node("null", "", type, <<>>)
UnaryNode(op, n)         == Node("unary", op, n.type, <<n>>)
CastNode(type, n)        == Node("cast", "", type, <<n>>)
BinaryNode(op, type, p)  == Node("binary", op, type, p)
CallNode(f, type, args)  == Node("call", f, type, args)
RelationalNode(op, p)    == Node("relational", op, "void", p)
NotNode(c)               == Node("not", "", "void", <<c>>)
ConditionalNode(op, p)   == Node("conditional", op, "void", p)

IntegralTypes == {"int", "uint", "int64", "uint64"}
ArithmeticTypes == IntegralTypes \cup {"bool", "float", "double"}
Types == ArithmeticTypes \cup {"string", "datetime"}

ASSUME ExpressionAssumption ==
  /\ MaxNodes \in Nat /\ CastTypes \subseteq Types
  /\ Relations \subseteq {"=", "<>", "<", "<=", ">", ">="}
  /\ \A c \in DOMAIN ColumnType : ColumnType[c] \in Types
  /\ \A v \in DOMAIN LiteralType : LiteralType[v] \in Types

Columns == {ColumnNode(c) : c \in DOMAIN ColumnType}
LiteralNodes == {LiteralNode(v) : v \in DOMAIN LiteralType}
Leaves == Columns \cup LiteralNodes
NullNodes == {NullNode(t) : t \in Types}

(* The nodes above others: what the constructors accept. *)
NodesOver(S) ==
  LET one == [1..1 -> S]
      two == [1..2 -> S]
  IN      [kind : {"unary"}, op : {"plus", "-", "~"}, type : Types, args : one]
     \cup [kind : {"cast"}, op : {""}, type : Types, args : one]
     \cup [kind : {"call"}, op : {"upper", "length", "abs", "coalesce"}, type : Types, args : one \cup two]
     \cup [kind : {"binary"}, op : Operators \cup {"||"}, type : Types, args : two]
     \cup [kind : {"relational"}, op : Relations \cup {"=", "LIKE"}, type : {"void"}, args : two]
     \cup [kind : {"relational"}, op : {"IS NULL", "IS NOT NULL"}, type : {"void"}, args : S \X NullNodes]
     \cup [kind : {"not"}, op : {""}, type : {"void"}, args : one]
     \cup [kind : {"conditional"}, op : {"AND", "OR"}, type : {"void"}, args : two]

TreesUpTo[d \in 0..MaxNodes] ==
  IF d = 0 THEN Leaves \cup NullNodes ELSE TreesUpTo[d - 1] \cup NodesOver(TreesUpTo[d - 1])
Trees == TreesUpTo[MaxNodes]

(* TypePromotion: the first of the two in this order; equal types stay as  *)
(* they are, and two types that are not in it are promoted to int.         *)
Priority == <<"double", "float", "uint64", "int64", "uint", "int">>
Promoted(t1, t2) ==
  IF t1 = t2 THEN t1
  ELSE IF {t1, t2} \cap {Priority[i] : i \in DOMAIN Priority} = {} THEN "int"
  ELSE LET i == CHOOSE k \in DOMAIN Priority : /\ Priority[k] \in {t1, t2}
                                               /\ \A j \in 1 .. k - 1 : Priority[j] \notin {t1, t2}
       IN  Priority[i]

-----------------------------------------------------------------------------
(* SqlExpressionTreeWalker. *)

(* isLeaf(): a unary plus calls itself one, whatever it is applied to.     *)
IsLeaf(n) == n.kind \in {"column", "literal", "null"} \/ (n.kind = "unary" /\ n.op = "plus")
Complex(n) == n.kind = "conditional"

(* literals(), in the order of the walk. *)
NodeLiterals(n, subs) ==
  CASE n.kind = "literal" -> <<n.op>>
    [] n.kind \in {"column", "null"} -> <<>>
    [] n.kind \notin {"literal", "column", "null"} /\ Len(subs) = 1 -> subs[1]
    [] n.kind \notin {"literal", "column", "null"} /\ Len(subs) = 2 -> subs[1] \o subs[2]

Literals[n \in Trees] == NodeLiterals(n, [i \in DOMAIN n.args |-> Literals[n.args[i]]])

(* Tokens.  A minus sign and a binary minus are told apart, since spaces   *)
(* are printed around the second only.                                     *)
Op(o)     == <<"op", o>>
Sign(s)   == <<"sign", s>>
Word(w)   == <<"word", w>>
Value(v)  == <<"value", v>>
OpenBracket      == <<"bracket", "(">>
CloseBracket     == <<"bracket", ")">>
Comma     == <<"comma", "">>

Braces(text) == <<OpenBracket>> \o text \o <<CloseBracket>>

(* Mutant: braces are forgotten. *)
BracedNever(text, required) == text

(* evaluateSubnode() *)
Braced(text, required) == IF required THEN Braces(text) ELSE text

(* visitLiteral(): the k-th literal so far.  As text a negative number     *)
(* begins with a sign.                                                     *)
LiteralText(n, k) ==
  IF qualified THEN <<<<"slot", IF syntax = "postgres" THEN k ELSE 0>>>>
  ELSE IF n.op = "-1" THEN <<Sign("-"), Value("1")>> ELSE <<Value(n.op)>>

(* visitCastOperator() *)
CastName(type) ==
  CASE syntax = "postgres" /\ type = "bool" -> "SMALLINT"
    [] syntax = "postgres" /\ type = "int" -> "INTEGER"
    [] syntax = "postgres" /\ type \in {"uint", "int64", "uint64"} -> "BIGINT"
    [] syntax # "postgres" /\ type \in IntegralTypes \cup {"bool"} -> "INTEGER"
    [] syntax # "mysql" /\ type = "float" -> "REAL"
    [] syntax = "postgres" /\ type = "double" -> "DOUBLE PRECISION"
    [] syntax = "sqlite" /\ type = "double" -> "REAL"
    [] syntax = "mysql" /\ type \in {"float", "double"} -> "DOUBLE"
    [] type = "string" -> IF syntax = "mysql" THEN "CHAR" ELSE "TEXT"
    [] type = "datetime" -> "DATETIME"
CastText(name, text) == <<<<"cast", name>>>> \o Braces(text)

(* Negation: MySQL's is unsigned. *)
NegationText(n, text) ==
  IF syntax = "mysql" /\ n.args[1].type \in {"int", "uint"}
  THEN CastText("INTEGER", <<Sign("~")>> \o text) ELSE <<Sign("~")>> \o text

(* visitBinaryOperator() of the operands' texts. *)
BinaryText(n, l, r) ==
  CASE n.op = "||" /\ syntax = "mysql" -> <<Word("CONCAT"), OpenBracket>> \o l \o <<Comma>> \o r \o <<CloseBracket>>
    [] n.op = "/" /\ syntax = "mysql" ->
         IF n.args[1].type \in IntegralTypes /\ n.args[2].type \in IntegralTypes
         THEN l \o <<Op("DIV")>> \o r ELSE l \o <<Op("/")>> \o r
    [] n.op = "^" -> Braces(l \o <<Op("&"), Sign("~")>> \o r) \o <<Op("|")>>
                       \o Braces(<<Sign("~")>> \o l \o <<Op("&")>> \o r)
    [] OTHER -> l \o <<Op(n.op)>> \o r

RelationalText(n, l, r) ==
  IF n.op \in {"IS NULL", "IS NOT NULL"} THEN l \o <<<<"postfix", n.op>>>>
  ELSE l \o <<Op(n.op)>> \o r

(* visitNode() after k literals: the text of each kind of node, from the  *)
(* texts of those below it.                                                *)
NodeText(n, k, subs) ==
  LET Operand(i) == Braced(subs[i], ~IsLeaf(n.args[i]))
      Part(i) == Braced(subs[i], Complex(n.args[i]))
  IN
  CASE n.kind = "column" -> <<<<"column", n.op>>>>
    [] n.kind = "literal" -> LiteralText(n, k + 1)
    [] n.kind = "null" -> <<Value("NULL")>>
    [] n.kind = "unary" /\ n.op = "plus" -> subs[1]
    [] n.kind = "unary" /\ n.op = "-" -> <<Sign("-")>> \o Operand(1)
    [] n.kind = "unary" /\ n.op = "~" -> NegationText(n, Operand(1))
    [] n.kind = "cast" -> CastText(CastName(n.type), subs[1])
    [] n.kind = "binary" -> BinaryText(n, Operand(1), Operand(2))
    [] n.kind = "call" /\ Len(subs) = 1 -> <<Word(n.op)>> \o Braces(subs[1])
    [] n.kind = "call" /\ Len(subs) = 2 -> <<Word(n.op)>> \o Braces(subs[1] \o <<Comma>> \o subs[2])
    [] n.kind = "relational" -> RelationalText(n, Operand(1), Operand(2))
    [] n.kind = "not" -> <<Sign("NOT")>> \o Part(1)
    [] n.kind = "conditional" -> Part(1) \o <<Op(n.op)>> \o Part(2)

Text[n \in Trees] ==
  [k \in Nat |->
     NodeText(n, k, [i \in DOMAIN n.args |->
                       Text[n.args[i]][IF i = 1 THEN k ELSE k + Len(Literals[n.args[1]])]])]

-----------------------------------------------------------------------------
(* Statements: buildQuery() of an update with set(), and of a select or a  *)
(* delete.  The texts of the assignments and of the clause share a list of *)
(* literals.                                                               *)

SetLiterals(s) ==
  LET upTo[i \in 0..Len(s)] == IF i = 0 THEN <<>> ELSE upTo[i - 1] \o Literals[s[i][2]]
  IN upTo

Assignment(column, text) == <<<<"column", column>>, Op(":=")>> \o text \o <<Comma>>
SetText(s) ==
  LET upTo[i \in 0..Len(s)] ==
        IF i = 0 THEN <<>>
        ELSE upTo[i - 1] \o Assignment(s[i][1], Text[s[i][2]][Len(SetLiterals(s)[i - 1])])
  IN upTo[Len(s)]

ClauseLiterals == IF clause = NoNode THEN <<>> ELSE Literals[clause]
ClauseText(k) == IF clause = NoNode THEN <<>> ELSE Text[clause][k]
Where(text) == IF clause = NoNode THEN <<>> ELSE <<Word("WHERE")>> \o text

(* With joins: EXISTS (SELECT ... WHERE ...), or FROM on PostgreSQL. *)
Exists == <<Word("EXISTS"), OpenBracket, Word("JOINS")>>
UpdateOf(set, where) ==
  set \o (IF joined /\ syntax # "postgres"
          THEN Exists \o (IF clause = NoNode THEN <<>> ELSE where \o <<CloseBracket>>)
          ELSE where)

(* Mutant: the clause of an update counts its literals from one. *)
UpdateTextFromOne(s) == UpdateOf(SetText(s), Where(ClauseText(0)))

UpdateText(s) == UpdateOf(SetText(s), Where(ClauseText(Len(SetLiterals(s)[Len(s)]))))
UpdateLiteralsOf(s) == SetLiterals(s)[Len(s)] \o ClauseLiterals

DeleteText ==
  LET where == Where(ClauseText(0)) IN
  IF joined /\ syntax = "sqlite" THEN Exists \o where \o <<CloseBracket>> ELSE where

-----------------------------------------------------------------------------
(* The operators and functions a program calls.  Both operands of one are  *)
(* expressions, or one is a literal.                                       *)

ExpressionInit ==
  /\ syntax \in {"sqlite", "postgres", "mysql"}
  /\ qualified \in BOOLEAN
  /\ node \in Leaves
  /\ clause = NoNode /\ sets = <<>> /\ joined = FALSE
  /\ size = 1

Building == clause = NoNode /\ size < MaxNodes

NodeBecomes(n, by) == node' = n /\ size' = size + by /\ UNCHANGED <<syntax, qualified, clause, sets, joined>>

IsArithmetic(n) == n.type \in ArithmeticTypes

ApplyUnary ==
  /\ Building /\ IsArithmetic(node)
  /\ \E op \in {"plus", "-", "~"} : NodeBecomes(UnaryNode(op, node), 1)

CastTo == Building /\ \E t \in CastTypes : NodeBecomes(CastNode(t, node), 1)

Pairs == {<<node, x>> : x \in Leaves} \cup {<<x, node>> : x \in Leaves}

ApplyBinary ==
  /\ Building
  /\ \E p \in Pairs, op \in Operators :
       /\ IsArithmetic(p[1]) /\ IsArithmetic(p[2])
       /\ NodeBecomes(BinaryNode(op, Promoted(p[1].type, p[2].type), p), 1)

Concatenate ==
  /\ Building
  /\ \E p \in Pairs : /\ p[1].type = "string" /\ p[2].type = "string"
                      /\ NodeBecomes(BinaryNode("||", "string", p), 1)

Call1(f, type) == NodeBecomes(CallNode(f, type, <<node>>), 1)
CallFunction ==
  /\ Building
  /\ \/ node.type = "string" /\ (Call1("upper", "string") \/ Call1("length", "uint64"))
     \/ IsArithmetic(node) /\ Call1("abs", node.type)
     \/ \E p \in Pairs : /\ IsArithmetic(p[1]) /\ IsArithmetic(p[2])
                         /\ NodeBecomes(CallNode("coalesce", Promoted(p[1].type, p[2].type), p), 1)

ClauseBecomes(c, by) == clause' = c /\ size' = size + by /\ UNCHANGED <<syntax, qualified, node, sets, joined>>

Compare ==
  /\ Building
  /\ \/ \E x \in Leaves, op \in Relations : /\ IsArithmetic(node) <=> IsArithmetic(x)
                                            /\ ClauseBecomes(RelationalNode(op, <<node, x>>), 1)
     \/ \E v \in DOMAIN LiteralType : /\ node.type = "string" /\ LiteralType[v] = "string"
                                      /\ ClauseBecomes(RelationalNode("LIKE", <<node, LiteralNode(v)>>), 1)
     \/ \E op \in {"IS NULL", "IS NOT NULL"} :
          /\ node \in Columns
          /\ ClauseBecomes(RelationalNode(op, <<node, NullNode(node.type)>>), 1)

(* !, && and || of clauses; the other operand compares a column with a literal. *)
CombineClauses ==
  /\ clause # NoNode /\ size < MaxNodes
  /\ \/ ClauseBecomes(NotNode(clause), 1)
     \/ \E op \in {"AND", "OR"}, c \in Columns, v \in DOMAIN LiteralType :
          LET other == RelationalNode("=", <<c, LiteralNode(v)>>) IN
          /\ c.type = LiteralType[v]
          /\ \/ ClauseBecomes(ConditionalNode(op, <<clause, other>>), 1)
             \/ ClauseBecomes(ConditionalNode(op, <<other, clause>>), 1)

(* set(column = expression), then a new expression begins. *)
Assign ==
  /\ Building /\ sets = <<>>
  /\ \E c \in Columns :
       /\ IsArithmetic(c) <=> IsArithmetic(node)
       /\ sets' = <<<<c.op, node>>>>
       /\ node' = c
  /\ UNCHANGED <<syntax, qualified, clause, joined, size>>

(* ref<>() *)
Ref ==
  /\ ~joined /\ (clause # NoNode \/ sets # <<>>)
  /\ joined' = TRUE
  /\ UNCHANGED <<syntax, qualified, node, clause, sets, size>>

ExpressionNext ==
  \/ ApplyUnary \/ CastTo \/ ApplyBinary \/ Concatenate \/ CallFunction
  \/ Compare \/ CombineClauses \/ Assign \/ Ref

ExpressionSpec == ExpressionInit /\ [][ExpressionNext]_expressionVars

-----------------------------------------------------------------------------
(* What binding the literals makes of a text: the k-th ? is the k-th       *)
(* literal, and there must be as many; $k is the k-th.                     *)
Slots(ts) == {i \in DOMAIN ts : ts[i][1] = "slot"}
Index(ts, i) == IF ts[i][2] # 0 THEN ts[i][2] ELSE Cardinality({j \in Slots(ts) : j <= i})
Bound(ts, literals) ==
  IF \/ \E i \in Slots(ts) : Index(ts, i) \notin DOMAIN literals
     \/ \E k \in DOMAIN literals : \A i \in Slots(ts) : Index(ts, i) # k
  THEN <<<<"error", "">>>>
  ELSE [i \in DOMAIN ts |-> IF i \in Slots(ts) THEN Value(literals[Index(ts, i)]) ELSE ts[i]]

Depth(ts, i) == Cardinality({j \in 1 .. i : ts[j] = OpenBracket}) - Cardinality({j \in 1 .. i : ts[j] = CloseBracket})

Balanced(ts) == Depth(ts, Len(ts)) = 0

Nodes[n \in Trees] == {n} \cup UNION {Nodes[n.args[i]] : i \in DOMAIN n.args}

(* An exclusive or prints its operands twice and binds their literals once. *)
Repeats(n) == /\ qualified /\ syntax # "postgres"
              /\ n.kind = "binary" /\ n.op = "^" /\ Literals[n] # <<>>

(* A statement binds every literal where it belongs: as if each assignment *)
(* and the clause were bound alone.  Its brackets match, unless an update  *)
(* with other tables has no clause.                                        *)
BoundSet == IF sets = <<>> THEN <<>>
            ELSE Assignment(sets[1][1], Bound(Text[sets[1][2]][0], Literals[sets[1][2]]))
BoundWhere == Where(IF clause = NoNode THEN <<>> ELSE Bound(Text[clause][0], Literals[clause]))
Expressions == {sets[i][2] : i \in DOMAIN sets} \cup ({clause} \ {NoNode})
StatementBinds ==
  qualified /\ (\A n \in Expressions : \A m \in Nodes[n] : ~Repeats(m)) =>
    LET update == Bound(UpdateText(sets), UpdateLiteralsOf(sets)) IN
    /\ update = UpdateOf(BoundSet, BoundWhere)
    /\ Balanced(update) \/ (joined /\ clause = NoNode /\ syntax # "postgres")
    /\ Balanced(DeleteText)

(* The trees are no higher than they have nodes; with that, and because    *)
(* every tree binds its literals, StatementBinds follows.                  *)
ExpressionIInv ==
  /\ size \in 1..(MaxNodes + 1) /\ node \in TreesUpTo[size - 1]
  /\ clause = NoNode \/ (clause \in TreesUpTo[size - 1] /\ size >= 2)
  /\ sets = <<>> \/ \E c \in DOMAIN ColumnType : \E n \in {sets[i][2] : i \in DOMAIN sets} :
                      n \in TreesUpTo[size - 1] /\ sets = <<<<c, n>>>>
=============================================================================
