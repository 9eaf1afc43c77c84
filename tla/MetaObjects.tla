----------------------------- MODULE MetaObjects -----------------------------
(***************************************************************************)
(* The MetaObject of a class: threads that use it at once, the tables of   *)
(* fields and methods that the first of them gathers from the descriptors  *)
(* of the class and its base classes, the fields and methods found in them,*)
(* and the choice of a method by name and arguments.                       *)
(***************************************************************************)
EXTENDS Variants, Sequences, Functions

CONSTANTS Client, NoClient,
          Chain,           \* the descriptors: of the class, of its base, ...
          Arguments,       \* argument lists of the calls explored
          Offsets          \* offsets looked up

IsList(s) == s \in Seq(Range(s))

ASSUME ClientAssumption == NoClient \notin Client
ASSUME ChainAssumption ==
  IsList(Chain) /\ \A n \in DOMAIN Chain : IsList(Chain[n].fields) /\ IsList(Chain[n].methods)
ASSUME ArgumentAssumption ==
  \A args \in Arguments : IsList(args) /\ \A i \in DOMAIN args : ~IsError(args[i])

VARIABLES initialized,     \* m_initialized
          lock,            \* who holds m_mutex
          fieldTable,      \* m_fields
          methodTable,     \* m_methods
          reached,         \* descriptors that whoever holds the lock has been through
          step,            \* where each thread is in prepare()
          call             \* history: the last call, and what it came to

tables == <<fieldTable, methodTable>>
prepareVars == <<initialized, lock, tables, reached, step>>
metaVars == <<prepareVars, call>>

NoCall == [kind |-> "none"]

(* Descriptors of methods, by the type of what is described.               *)
StaticMethod(name, params) == [name |-> name, kind |-> "static", const |-> FALSE, params |-> params]
OwnMethod(name, params)    == [name |-> name, kind |-> "own", const |-> FALSE, params |-> params]
ConstMethod(name, params)  == [name |-> name, kind |-> "own", const |-> TRUE, params |-> params]
Constructor(class, params) == [name |-> class, kind |-> "constructor", const |-> FALSE, params |-> params]

(* An entry of a table is a pointer to its descriptor: the i-th in the list*)
(* of the n-th class of the chain.                                         *)
Entries(list, n) == [i \in DOMAIN list |-> <<n, i>>]
FieldAt(p)  == Chain[p[1]].fields[p[2]]
MethodAt(p) == Chain[p[1]].methods[p[2]]

FieldsTo(n)  == UNION {Range(Entries(Chain[m].fields, m)) : m \in 1..n}
MethodsTo(n) == UNION {Range(Entries(Chain[m].methods, m)) : m \in 1..n}
AllFields  == FieldsTo(Len(Chain))
AllMethods == MethodsTo(Len(Chain))

(* No two members of an object begin at one place.                         *)
ASSUME OffsetAssumption ==
  /\ Offsets \subseteq Int
  /\ \A p, q \in AllFields : /\ FieldAt(p).offset \in Int
                             /\ FieldAt(p).offset = FieldAt(q).offset => p = q

MetaInit ==
  /\ initialized = FALSE /\ lock = NoClient
  /\ fieldTable = <<>> /\ methodTable = <<>> /\ reached = 0
  /\ step = [t \in Client |-> "out"]
  /\ call = NoCall

-----------------------------------------------------------------------------
(* prepare(), at the head of every access to the tables.                   *)

Goto(t, place) == step' = [step EXCEPT ![t] = place]

(* The first look at the atomic flag. *)
CheckPrepared(t) ==
  /\ step[t] = "out"
  /\ Goto(t, IF initialized THEN "in" ELSE "wait")
  /\ UNCHANGED <<initialized, lock, tables, reached, call>>

(* Mutant: the flag is not looked at again under the lock. *)
LockUnchecked(t) ==
  /\ step[t] = "wait" /\ lock = NoClient
  /\ lock' = t /\ reached' = 0 /\ Goto(t, "gather")
  /\ UNCHANGED <<initialized, tables, call>>

(* The second look. *)
Lock(t) ==
  /\ step[t] = "wait" /\ lock = NoClient
  /\ lock' = t /\ reached' = 0
  /\ Goto(t, IF initialized THEN "leave" ELSE "gather")
  /\ UNCHANGED <<initialized, tables, call>>

(* The next descriptor of the chain, its fields and methods after what is  *)
(* in the tables already.                                                  *)
Gather(t) ==
  /\ step[t] = "gather" /\ reached < Len(Chain)
  /\ reached' = reached + 1
  /\ fieldTable' = fieldTable \o Entries(Chain[reached'].fields, reached')
  /\ methodTable' = methodTable \o Entries(Chain[reached'].methods, reached')
  /\ UNCHANGED <<initialized, lock, step, call>>

(* std::sort: some order in which no field is before one of less offset.   *)
Sort(t) ==
  /\ step[t] = "gather" /\ reached >= Len(Chain)
  /\ \E order \in Bijection(DOMAIN fieldTable, DOMAIN fieldTable) :
       /\ fieldTable' = [i \in DOMAIN fieldTable |-> fieldTable[order[i]]]
       /\ \A i, j \in DOMAIN fieldTable :
            i < j => FieldAt(fieldTable'[i]).offset <= FieldAt(fieldTable'[j]).offset
  /\ Goto(t, "publish")
  /\ UNCHANGED <<initialized, lock, methodTable, reached, call>>

Publish(t) ==
  /\ step[t] = "publish"
  /\ initialized' = TRUE /\ Goto(t, "leave")
  /\ UNCHANGED <<lock, tables, reached, call>>

Unlock(t) ==
  /\ step[t] = "leave"
  /\ lock' = NoClient /\ Goto(t, "in")
  /\ UNCHANGED <<initialized, tables, reached, call>>

-----------------------------------------------------------------------------
(* What is found in the tables: a set of one pointer, or empty.            *)

(* std::find_if                                                            *)
First(table, wanted) ==
  {table[i] : i \in {j \in DOMAIN table : /\ table[j] \in wanted
                                         /\ \A k \in 1 .. j - 1 : table[k] \notin wanted}}

FieldByName(name) == First(fieldTable, {p \in AllFields : FieldAt(p).name = name})
MethodByName(name) == First(methodTable, {p \in AllMethods : MethodAt(p).name = name})

(* std::lower_bound in a sorted table: the first field that is not before  *)
(* the offset.  Whether it is at the offset is not looked at.              *)
FieldByOffset(offset) == First(fieldTable, {p \in AllFields : FieldAt(p).offset >= offset})

-----------------------------------------------------------------------------
(* The choice of a method.                                                 *)

(* What unpacking the arguments throws: the first one that does not        *)
(* convert decides.  invalid_argument means that the method does not take  *)
(* the arguments; a Variant without data throws something else.            *)
Unpacked(args, params) ==
  LET errors(i) == {v.type : v \in {w \in VariantCasts(args[i], params[i]) : IsError(w)}}
      failing == {i \in DOMAIN args : errors(i) # {}}
  IN IF failing = {} THEN "bound"
     ELSE CHOOSE e \in errors(CHOOSE i \in failing : \A j \in failing : i <= j) : TRUE

(* Mutant: a const object is given methods that change it. *)
AnswersAnyway(method, kind, name, args, constness) ==
  /\ method.kind = kind
  /\ Len(method.params) = Len(args)
  /\ kind = "constructor" \/ method.name = name

Answers(method, kind, name, args, constness) ==
  /\ method.kind = kind
  /\ Len(method.params) = Len(args)
  /\ kind = "constructor" \/ method.name = name
  /\ kind = "own" /\ constness => method.const

(* The loop of doInvoke, invoke and createInstance: the next method is     *)
(* tried when the arguments do not bind, any other exception ends the call.*)
Chosen(kind, name, args, constness) ==
  LET takers == {i \in DOMAIN methodTable :
                   LET method == MethodAt(methodTable[i])
                   IN /\ Answers(method, kind, name, args, constness)
                      /\ Unpacked(args, method.params) # "invalid_argument"}
      first == CHOOSE i \in takers : \A j \in takers : i <= j
  IN IF takers = {} THEN [outcome |-> "not found"]
     ELSE IF Unpacked(args, MethodAt(methodTable[first]).params) = "bound"
     THEN [outcome |-> "called", method |-> methodTable[first]]
     ELSE [outcome |-> "thrown"]

Calls(t, kind, name, constness) ==
  /\ step[t] = "in"
  /\ \E args \in Arguments :
       call' = [kind |-> kind, name |-> name, args |-> args, const |-> constness,
                result |-> Chosen(kind, name, args, constness)]
  /\ UNCHANGED prepareVars

MethodNames == {MethodAt(p).name : p \in AllMethods}
FieldNames == {FieldAt(p).name : p \in AllFields}

InvokeOwn(t) == \E name \in MethodNames : Calls(t, "own", name, FALSE)
InvokeConst(t) == \E name \in MethodNames : Calls(t, "own", name, TRUE)
InvokeStatic(t) == \E name \in MethodNames : Calls(t, "static", name, FALSE)
CreateInstance(t) == Calls(t, "constructor", "", FALSE)

(* field(), fieldByName(), fieldByOffset() and methodByName().             *)
LookUp(t) ==
  /\ step[t] = "in"
  /\ \/ \E name \in FieldNames : call' = [kind |-> "field", key |-> name, found |-> FieldByName(name)]
     \/ \E name \in MethodNames : call' = [kind |-> "method", key |-> name, found |-> MethodByName(name)]
     \/ \E offset \in Offsets : call' = [kind |-> "offset", key |-> offset, found |-> FieldByOffset(offset)]
  /\ UNCHANGED prepareVars

(* Between two accesses, of this object or of another. *)
Leave(t) ==
  /\ step[t] = "in" /\ Goto(t, "out")
  /\ call' = NoCall
  /\ UNCHANGED <<initialized, lock, tables, reached>>

PrepareNext(t) == CheckPrepared(t) \/ Lock(t) \/ Gather(t) \/ Sort(t) \/ Publish(t) \/ Unlock(t)

MetaNext ==
  \E t \in Client :
    \/ PrepareNext(t) \/ InvokeOwn(t) \/ InvokeConst(t) \/ InvokeStatic(t)
    \/ CreateInstance(t) \/ LookUp(t) \/ Leave(t)

MetaSpec == MetaInit /\ [][MetaNext]_metaVars

-----------------------------------------------------------------------------
(* Properties. *)

(* Entries in the order of the chain and of the lists, each once.         *)
Ahead(p, q) == p[1] < q[1] \/ (p[1] = q[1] /\ p[2] < q[2])
InOrder(table) == \A i, j \in DOMAIN table : i < j => Ahead(table[i], table[j])

Ascending(table) == \A i, j \in DOMAIN table : i < j => FieldAt(table[i]).offset < FieldAt(table[j]).offset

Gathered(n) ==
  /\ IsList(methodTable) /\ InOrder(methodTable) /\ Range(methodTable) = MethodsTo(n)
  /\ IsList(fieldTable) /\ InOrder(fieldTable) /\ Range(fieldTable) = FieldsTo(n)

Building == reached <= Len(Chain) /\ Gathered(reached)
Built ==
  /\ IsList(methodTable) /\ InOrder(methodTable) /\ Range(methodTable) = AllMethods
  /\ IsList(fieldTable) /\ Ascending(fieldTable) /\ Range(fieldTable) = AllFields

(* Inductive invariant of the double-checked lock: the thread that holds it*)
(* is the only one that builds the tables, what it has gathered is what it *)
(* has been through, and the flag is set by then and not before.           *)
PrepareInv ==
  /\ initialized \in BOOLEAN /\ reached \in Nat
  /\ lock \in Client \cup {NoClient}
  /\ step \in [Client -> {"out", "wait", "gather", "publish", "leave", "in"}]
  /\ \A t \in Client : step[t] \in {"gather", "publish", "leave"} <=> lock = t
  /\ \A t \in Client :
       /\ step[t] = "gather" => ~initialized /\ Building
       /\ step[t] = "publish" => ~initialized /\ Built
       /\ step[t] \in {"leave", "in"} => initialized
  /\ initialized => Built
  /\ lock = NoClient /\ ~initialized => fieldTable = <<>> /\ methodTable = <<>>

(* Whoever is past prepare() sees the whole tables: every field and method *)
(* of the class and its bases once, the fields sorted, however many threads*)
(* came first.                                                             *)
TableComplete == \A t \in Client : step[t] = "in" => Built

(* What is looked up by name is the first of that name in the order of the *)
(* table: of the methods the one of the class closest to the object's, but *)
(* of the fields the one of the base class, which lies in front.  An offset*)
(* gives the field there, and the next one if there is none.               *)
LookUpSound ==
  LET named == {p \in AllFields : FieldAt(p).name = call.key}
      beyond == {p \in AllFields : FieldAt(p).offset >= call.key}
      methods == {p \in AllMethods : MethodAt(p).name = call.key}
      front(fields) == {p \in fields : \A q \in fields : FieldAt(p).offset <= FieldAt(q).offset}
  IN /\ call.kind = "field" => call.found = front(named)
     /\ call.kind = "offset" => call.found = front(beyond)
     /\ call.kind = "method" => call.found = {p \in methods : \A q \in methods : ~Ahead(q, p)}

(* The method may be called as c is, and every argument converts.          *)
Takes(method, c) ==
  /\ method.kind = c.kind /\ Len(method.params) = Len(c.args)
  /\ c.kind # "constructor" => method.name = c.name
  /\ c.const => method.const
  /\ \A i \in DOMAIN c.args : \A v \in VariantCasts(c.args[i], method.params[i]) : ~IsError(v)

(* A call reaches a method that takes the arguments and may be called on a *)
(* const object if it is one, of the class closest to the object's; it says*)
(* "not found" only if there is none, and throws only for a Variant that   *)
(* holds nothing.  createInstance prefers a constructor of the class - and *)
(* without one that takes the arguments it runs one of a base class        *)
(* (MetaObject.cpp:117).                                                   *)
CallSound ==
  LET takes(p) == Takes(MethodAt(p), call)
      result == call.result
  IN CASE result.outcome = "called" ->
            takes(result.method) /\ \A p \in AllMethods : takes(p) => result.method[1] <= p[1]
       [] result.outcome = "not found" -> \A p \in AllMethods : ~takes(p)
       [] OTHER -> \E i \in DOMAIN call.args : call.args[i] = Invalid

(* Both, in whichever thread and however the tables came to be.            *)
InvocationSound ==
  IF call.kind \in {"own", "static", "constructor"} THEN CallSound ELSE LookUpSound
=============================================================================
