------------------------------ MODULE SqlReader ------------------------------
(***************************************************************************)
(* What a database makes of the texts of Expressions: it binds their       *)
(* literals, drops comments and reads the rest with the precedences of     *)
(* SQL.  That the text of an expression means what its tree means is       *)
(* checked by reading it back.                                             *)
(***************************************************************************)
EXTENDS Expressions

(* What the database reads: trees of tokens. *)
Tree(token, args) == [token |-> token, args |-> args]
Unreadable == Tree(<<"error", "">>, <<>>)

(* Two minus signs in a row begin a comment. *)
Comments(ts) == {i \in 1 .. Len(ts) - 1 : ts[i] = Sign("-") /\ ts[i + 1] = Sign("-")}
Uncommented(ts) ==
  IF Comments(ts) = {} THEN ts
  ELSE SubSeq(ts, 1, (CHOOSE i \in Comments(ts) : \A j \in Comments(ts) : i <= j) - 1)

Level(token) ==
  CASE token[2] = "OR" -> 1
    [] token[2] = "AND" -> 2
    [] token[2] = "NOT" -> 3
    [] token[2] \in {"=", "<>", "<", "<=", ">", ">=", "LIKE", "IS NULL", "IS NOT NULL"} -> 4
    [] token[2] \in {"&", "|", "<<", ">>"} -> 5
    [] token[1] = "op" /\ token[2] \in {"+", "-"} -> 6
    [] token[2] \in {"*", "/", "%", "DIV"} -> 7
    [] token[2] = "||" -> 8
    [] token[1] = "sign" /\ token[2] \in {"-", "~"} -> 9

(* The operator that binds loosest is the root: the last of those that     *)
(* have equal precedence, the first sign.                                  *)
Root(ts, top) ==
  LET loosest == {i \in top : \A j \in top : Level(ts[i]) <= Level(ts[j])} IN
  IF \E i \in loosest : ts[i][1] = "sign"
  THEN CHOOSE i \in loosest : \A j \in loosest : i <= j
  ELSE CHOOSE i \in loosest : \A j \in loosest : i >= j

RECURSIVE Read(_)
Read(ts) ==
  LET n == Len(ts)
      top == {i \in 1 .. n : ts[i][1] \in {"op", "sign", "postfix"} /\ Depth(ts, i) = 0}
      i == Root(ts, top)
      commas == {j \in 1 .. n : ts[j] = Comma /\ Depth(ts, j) = 1}
      c == CHOOSE j \in commas : TRUE
  IN
  CASE ts = <<>> -> Unreadable
    [] top # {} /\ ts[i][1] = "op" ->
         Tree(ts[i], <<Read(SubSeq(ts, 1, i - 1)), Read(SubSeq(ts, i + 1, n))>>)
    [] top # {} /\ ts[i][1] = "postfix" -> Tree(ts[i], <<Read(SubSeq(ts, 1, i - 1))>>)
    [] top # {} /\ ts[i][1] = "sign" ->
         IF i = 1 THEN Tree(ts[1], <<Read(Tail(ts))>>) ELSE Unreadable
    [] top = {} /\ n = 1 -> Tree(ts[1], <<>>)
    [] top = {} /\ n > 1 /\ ts[1] = OpenBracket /\ ts[n] = CloseBracket -> Read(SubSeq(ts, 2, n - 1))
    [] top = {} /\ n > 1 /\ ts[1][1] \in {"word", "cast"} ->
         IF commas = {} THEN Tree(ts[1], <<Read(SubSeq(ts, 3, n - 1))>>)
         ELSE Tree(ts[1], <<Read(SubSeq(ts, 3, c - 1)), Read(SubSeq(ts, c + 1, n - 1))>>)
    [] OTHER -> Unreadable

(* What the tree means, as C++ has it: integers are divided as integers.   *)
Complement(t) == Tree(Sign("~"), <<t>>)
IntegerOperands(n) == \A i \in {1, 2} : n.args[i].type \in IntegralTypes \cup {"bool"}
MeaningOf(n, args) ==
  CASE n.kind = "column" -> Tree(<<"column", n.op>>, <<>>)
    [] n.kind = "null" -> Tree(Value("NULL"), <<>>)
    [] n.kind = "literal" -> IF ~qualified /\ n.op = "-1"
                             THEN Tree(Sign("-"), <<Tree(Value("1"), <<>>)>>)
                             ELSE Tree(Value(n.op), <<>>)
    [] n.kind = "unary" /\ n.op = "plus" -> args[1]
    [] n.kind = "unary" /\ n.op = "-" -> Tree(Sign("-"), args)
    [] n.kind = "unary" /\ n.op = "~" ->
         IF syntax = "mysql" /\ n.type \in {"int", "uint"}
         THEN Tree(<<"cast", "INTEGER">>, <<Complement(args[1])>>) ELSE Complement(args[1])
    [] n.kind = "cast" -> Tree(<<"cast", CastName(n.type)>>, args)
    [] n.kind = "binary" /\ n.op = "^" ->
         Tree(Op("|"), <<Tree(Op("&"), <<args[1], Complement(args[2])>>),
                         Tree(Op("&"), <<Complement(args[1]), args[2]>>)>>)
    [] n.kind = "binary" /\ n.op = "/" ->
         Tree(IF syntax = "mysql" /\ IntegerOperands(n) THEN Op("DIV") ELSE Op("/"), args)
    [] n.kind = "binary" /\ n.op = "||" ->
         Tree(IF syntax = "mysql" THEN Word("CONCAT") ELSE Op("||"), args)
    [] n.kind = "call" -> Tree(Word(n.op), args)
    [] n.kind = "relational" /\ n.op \in {"IS NULL", "IS NOT NULL"} -> Tree(<<"postfix", n.op>>, <<args[1]>>)
    [] n.kind = "not" -> Tree(Sign("NOT"), args)
    [] OTHER -> Tree(Op(n.op), args)

RECURSIVE Meaning(_)
Meaning(n) == MeaningOf(n, [i \in DOMAIN n.args |-> Meaning(n.args[i])])

(* Trees whose text does not mean what they do.  A unary plus hides that   *)
(* its operand needs braces; an exclusive or prints its operands twice and *)
(* binds their literals once; a minus before a negative number begins a    *)
(* comment; and division by or of a bool is not one of integers on MySQL.  *)
RECURSIVE Unplussed(_)
Unplussed(n) == IF n.kind = "unary" /\ n.op = "plus" THEN Unplussed(n.args[1]) ELSE n

Hides(n) == n.kind = "unary" /\ n.op = "plus" /\ ~IsLeaf(Unplussed(n))
DoubleMinus(n) == ~qualified /\ n.kind = "unary" /\ n.op = "-" /\ Unplussed(n.args[1]) = LiteralNode("-1")
BoolDivision(n) == /\ syntax = "mysql" /\ n.kind = "binary" /\ n.op = "/"
                   /\ IntegerOperands(n) /\ \E i \in {1, 2} : n.args[i].type = "bool"
Misread(n) == \E m \in Nodes[n] : Hides(m) \/ Repeats(m) \/ DoubleMinus(m) \/ BoolDivision(m)

(* The text of any other tree, with its literals bound, is read by the     *)
(* database as that tree, in each syntax.                                  *)
TextMeansTree ==
  \A n \in {node, clause} \ {NoNode} :
    Misread(n) \/ Read(Uncommented(Bound(Text[n][0], IF qualified THEN Literals[n] ELSE <<>>)))
                    = Meaning(n)
=============================================================================
