------------------------------- MODULE Objects -------------------------------
(***************************************************************************)
(* An Object seen through reflection: init(), properties by name, toJson() *)
(* and fromJson().  The visitors take the fields one by one in the order   *)
(* of their offsets and stop at the first exception.                       *)
(***************************************************************************)
EXTENDS Variants, Sequences, FiniteSets

CONSTANTS Fields,          \* field descriptors, by offset
          EnumNames,       \* of the enumeration: its values by name
          EnumDefault,
          Known,           \* classes whose names fromJson resolves
          Inputs,          \* values the program gives each field
          Given,           \* Variants given to setProperty
          Strange,         \* JSON values of texts written by somebody else
          MaxSteps         \* length of the histories explored (a bound)

VARIABLES object,          \* the values of the fields
          dynamic,         \* the value of a property that is no field, Invalid if none
          text,            \* what toJson() returned last, <<>> before
          written,         \* history: the object at that time
          ended,           \* history: how the last call ended
          steps            \* calls made

jsonVars == <<object, dynamic, text, written, ended, steps>>

Places == 1..Len(Fields)
Unset == VariantOf("unset", 0)
NoDate == VariantOf("datetime", -1)

-----------------------------------------------------------------------------
(* Descriptors.                                                            *)

(* Without a default the space of a static descriptor holds zeros.         *)
Zero(type) ==
  CASE type \in Arithmetic -> VariantOf(type, 0)
    [] type = "enum" -> VariantOf("enum", EnumDefault)
    [] type = "string" -> VariantOf("string", <<"word", "">>)
    [] type = "datetime" -> NoDate
    [] type = "variant" -> Invalid
    [] type = "array" -> VariantOf("array", <<>>)
    [] type = "object" -> VariantOf("object", [class |-> "Sub", field |-> VariantOf("int", 0)])

Descriptor(type, mandatory, default) ==
  [type |-> type, nullable |-> FALSE, elem |-> "", mandatory |-> mandatory, default |-> default]

OptionalField(type)       == Descriptor(type, "optional", Zero(type))
DefaultableField(type, v) == Descriptor(type, "defaultable", v)
EnumField                 == DefaultableField("enum", Zero("enum"))
ObjectField               == DefaultableField("object", Zero("object"))
ArrayField(elem)          == [DefaultableField("array", Zero("array")) EXCEPT !.elem = elem]
NullableField(f)          == [f EXCEPT !.nullable = TRUE]

DefaultOf(f) == f.default

(* InitVisitor *)
Initial(f) == IF f.nullable /\ f.mandatory = "optional" THEN Unset ELSE DefaultOf(f)
Initialised == [i \in Places |-> Initial(Fields[i])]

-----------------------------------------------------------------------------
(* JSON *)

Json(kind, x) == [json |-> kind, of |-> x]
JsonNull == Json("null", 0)
JsonError == Json("error", 0)     \* there is no text: an exception, or the end of the program

(* jsoncpp, external: a parsed integer is unsigned if an int cannot hold   *)
(* it, and asInt() and its like throw rather than lose digits.             *)
JsonNumber(half) == Json(IF half \div 2 >= 2 ^ (Width - 1) THEN "uint" ELSE "int", half)

(* JsonSerializerVisitor *)

NameOf(n) == IF \E x \in DOMAIN EnumNames : EnumNames[x] = n
             THEN Json("string", <<"name", CHOOSE x \in DOMAIN EnumNames : EnumNames[x] = n>>)
             ELSE JsonError      \* toString() answers nullptr

Leaf(v) ==
  CASE v.type = "bool" -> Json("bool", v.of)
    [] v.type \in Integral \ {"bool"} -> JsonNumber(v.of)
    [] v.type \in Floating -> Json("real", v.of)
    [] v.type = "string" -> Json("string", v.of)
    [] v.type = "datetime" -> IF v = NoDate THEN JsonNull ELSE Json("string", <<"date", v.of>>)
    [] v.type = "object" ->
         Json("object", [class |-> v.of.class, field |-> JsonNumber(v.of.field.of)])
    [] OTHER -> JsonError

Whole(elements) ==
  IF \E i \in DOMAIN elements : elements[i] = JsonError THEN JsonError
  ELSE IF elements = <<>> THEN JsonNull ELSE Json("array", elements)

(* What an array holds has no descriptor, so enumerations are numbers.  A  *)
(* Variant, be it a field or an element of one, may hold an array, but its *)
(* elements are written by their types: no arrays, and none without data.  *)
WrittenElement(v) ==
  IF v.type = "enum" THEN JsonNumber(2 * v.of)
  ELSE IF v.type \in {"array", "void"} THEN JsonError ELSE Leaf(v)
WrittenVariant(v) ==
  IF v = Invalid THEN JsonNull
  ELSE IF v.type = "array" THEN Whole([i \in DOMAIN v.of |-> WrittenElement(v.of[i])])
  ELSE Leaf(v)
WrittenItem(elem, v) == IF elem = "variant" THEN WrittenVariant(v) ELSE WrittenElement(v)

Written(f, v) ==
  IF f.nullable /\ f.type = "string" THEN JsonError
  ELSE IF v = Unset THEN JsonNull
  ELSE CASE f.type = "variant" -> WrittenVariant(v)
         [] f.type = "enum" -> NameOf(v.of)
         [] f.type = "array" -> Whole([i \in DOMAIN v.of |-> WrittenItem(f.elem, v.of[i])])
         [] OTHER -> Leaf(v)

-----------------------------------------------------------------------------
(* JsonDeserializerVisitor *)

Unread == RuntimeError
Integer(j, type) ==
  IF j.json \in {"int", "uint"} /\ Holds(type, Cut(j.of)) THEN VariantOf(type, j.of) ELSE Unread

(* parseValue for a nested object, field by field.                         *)
Nested(j) ==
  LET inner == IF j.json = "object" THEN Integer(j.of.field, "int") ELSE Unread
  IN IF IsError(inner) THEN Unread
     ELSE VariantOf("object", [class |-> "Sub", field |-> inner])

(* ToVariant: the type of the number is that of the text.  It takes arrays *)
(* in arrays, too; no Variant of the texts explored holds one.             *)
PlainVariant(j) ==
  CASE j.json = "null" -> Invalid
    [] j.json = "bool" -> VariantOf("bool", j.of)
    [] j.json \in {"int", "uint"} -> Integer(j, j.json)
    [] j.json = "real" -> VariantOf("double", j.of)
    [] j.json = "string" -> VariantOf("string", j.of)
    [] j.json = "object" -> IF j.of.class \in Known THEN Nested(j) ELSE Unread
    [] OTHER -> Unread
VariantFrom(j) ==
  IF j.json # "array" THEN PlainVariant(j)
  ELSE LET items == [i \in DOMAIN j.of |-> PlainVariant(j.of[i])]
       IN IF \E i \in DOMAIN items : IsError(items[i]) THEN Unread ELSE VariantOf("array", items)

EnumFrom(j) ==
  IF j.json = "string"
  THEN VariantOf("enum", IF j.of[1] = "name" /\ j.of[2] \in DOMAIN EnumNames
                         THEN EnumNames[j.of[2]] ELSE EnumDefault)
  ELSE IF j.json \in {"int", "uint"} /\ Holds("uint", Cut(j.of))
  THEN VariantOf("enum", Cut(j.of)) ELSE Unread

ValueFrom(j, type) ==
  CASE type = "bool" -> IF j.json = "bool" THEN VariantOf("bool", j.of) ELSE Unread
    [] type \in Integral \ {"bool"} -> Integer(j, type)
    [] type \in Floating ->
         IF j.json \in {"int", "uint", "real"} THEN VariantOf(type, j.of) ELSE Unread
    [] type = "string" -> IF j.json = "string" THEN VariantOf("string", j.of) ELSE Unread
    [] type = "datetime" ->
         IF j = JsonNull THEN NoDate
         ELSE IF j.json = "string" /\ j.of[1] = "date" THEN VariantOf("datetime", j.of[2])
         ELSE Unread
    [] type = "enum" -> EnumFrom(j)
    [] type = "variant" -> VariantFrom(j)
    [] type = "object" -> Nested(j)

ArrayFrom(j, elem) ==
  IF j = JsonNull THEN VariantOf("array", <<>>)
  ELSE IF j.json # "array" THEN Unread
  ELSE LET items == [i \in DOMAIN j.of |->
                       IF elem = "enum" /\ j.of[i].json = "string" THEN Unread
                       ELSE ValueFrom(j.of[i], elem)]
       IN IF \E i \in DOMAIN items : IsError(items[i]) THEN Unread ELSE VariantOf("array", items)

(* Mutant: a field that the text leaves out keeps its value. *)
ParsedKeeping(f, j, old) ==
  IF f.nullable /\ j = JsonNull THEN old
  ELSE IF f.type = "array" THEN ArrayFrom(j, f.elem) ELSE ValueFrom(j, f.type)

Parsed(f, j, old) ==
  IF f.nullable /\ j = JsonNull THEN Unset
  ELSE IF f.type = "array" THEN ArrayFrom(j, f.elem) ELSE ValueFrom(j, f.type)

(* A field whose value does not parse ends the visit.  By then a nullable  *)
(* one is marked as set, and an array has its new size and the elements    *)
(* before the bad one; "lies" is what lay in the memory that this exposes. *)
Dirty(f, j, old, lies) ==
  IF f.nullable /\ old = Unset THEN lies
  ELSE IF f.type = "array" /\ j.json = "array"
  THEN VariantOf("array",
         [k \in DOMAIN j.of |->
            IF \E n \in 1..k : IsError(ArrayFrom(Json("array", <<j.of[n]>>), f.elem))
            THEN IF k <= Len(old.of) THEN old.of[k] ELSE lies
            ELSE ArrayFrom(Json("array", <<j.of[k]>>), f.elem).of[1]])
  ELSE old

Stray(i) ==
  IF Fields[i].type = "array"
  THEN {Zero(Fields[i].elem)} \cup UNION {{v.of[k] : k \in DOMAIN v.of} : v \in Inputs[i]}
  ELSE {Zero(Fields[i].type)} \cup (Inputs[i] \ {Unset})

-----------------------------------------------------------------------------
(* Properties by name.                                                     *)

(* setValue: a nullable field takes an invalid Variant as its absence;     *)
(* object and array fields are not implemented.                            *)
FieldSet(f, v) ==
  IF f.type \in {"object", "array"} THEN {RuntimeError}
  ELSE IF f.nullable /\ v = Invalid THEN {Unset}
  ELSE IF f.type = "enum"
  THEN {IF IsError(w) THEN w ELSE VariantOf("enum", Cut(w.of)) : w \in VariantCasts(v, "uint")}
  ELSE VariantCasts(v, f.type)

(* getValue *)
FieldValue(f, v) ==
  IF f.type \in {"object", "array"} THEN RuntimeError
  ELSE IF v = Unset THEN Invalid
  ELSE IF f.type = "enum" THEN VariantOf("uint", 2 * v.of) ELSE v

-----------------------------------------------------------------------------

ObjectInit ==
  /\ object = Initialised /\ dynamic = Invalid
  /\ text = <<>> /\ written = <<>> /\ ended = "none"
  /\ steps = 0

(* C++ code assigns a field. *)
AssignField ==
  /\ \E i \in Places : \E v \in Inputs[i] : object' = [object EXCEPT ![i] = v]
  /\ ended' = "none" /\ UNCHANGED <<dynamic, text, written>>

InitObject ==
  /\ object' = Initialised /\ ended' = "none"
  /\ UNCHANGED <<dynamic, text, written>>

(* setProperty *)
SetField ==
  \E i \in Places, v \in Given : \E w \in FieldSet(Fields[i], v) :
    /\ ended' = IF IsError(w) THEN "thrown" ELSE "none"
    /\ object' = IF IsError(w) THEN object ELSE [object EXCEPT ![i] = w]
    /\ UNCHANGED <<dynamic, text, written>>

(* setProperty of one field to what getProperty gives of another.          *)
CopyField ==
  \E i \in Places, k \in Places : \E w \in FieldSet(Fields[i], FieldValue(Fields[k], object[k])) :
    /\ ~IsError(FieldValue(Fields[k], object[k]))
    /\ ended' = IF IsError(w) THEN "thrown" ELSE "none"
    /\ object' = IF IsError(w) THEN object ELSE [object EXCEPT ![i] = w]
    /\ UNCHANGED <<dynamic, text, written>>

SetDynamic ==
  /\ \E v \in Given : dynamic' = v
  /\ ended' = "none" /\ UNCHANGED <<object, text, written>>

(* The first exception ends the visit, and there is no text.               *)
ToJson ==
  LET values == [i \in Places |-> Written(Fields[i], object[i])]
      failed == \E i \in Places : values[i] = JsonError
  IN /\ text' = IF failed THEN text ELSE values
     /\ written' = IF failed THEN written ELSE object
     /\ ended' = IF failed THEN "thrown" ELSE "none"
     /\ UNCHANGED <<object, dynamic>>

(* Every field is parsed once. *)
Reads(values, name) ==
  \E parsed \in {[i \in Places |-> Parsed(Fields[i], values[i], object[i])]} :
    LET bad == {i \in Places : IsError(parsed[i])}
        first == CHOOSE i \in bad : \A k \in bad : i <= k
    IN /\ IF bad = {} THEN object' = parsed
          ELSE \E lies \in Stray(first) :
                 object' = [i \in Places |->
                              IF i < first THEN parsed[i]
                              ELSE IF i = first THEN Dirty(Fields[i], values[i], object[i], lies)
                              ELSE object[i]]
       /\ ended' = IF bad = {} THEN name ELSE "thrown"
       /\ UNCHANGED <<dynamic, text, written>>

FromJson == text # <<>> /\ Reads(text, "read")

(* A text with a field that somebody else has written. *)
FromStrangeJson ==
  /\ text # <<>>
  /\ \E i \in Places, j \in Strange : Reads([text EXCEPT ![i] = j], "none")

ObjectNext ==
  /\ steps < MaxSteps /\ steps' = steps + 1
  /\ \/ AssignField \/ InitObject \/ SetField \/ CopyField \/ SetDynamic
     \/ ToJson \/ FromJson \/ FromStrangeJson

JsonSpec == ObjectInit /\ [][ObjectNext]_jsonVars

-----------------------------------------------------------------------------
(* What fields hold. *)

Plain == Arithmetic \cup {"string", "datetime", "object"}

(* A number of an integral type is whole and in the range of the type.     *)
Number(type, x) ==
  x \in Int /\ (type \in Integral => 2 * Cut(x) = x /\ Holds(type, Cut(x)))

Typed(type, v) ==
  /\ v = VariantOf(type, v.of)
  /\ type \in Arithmetic => Number(type, v.of)
  /\ type = "enum" => v.of \in Int /\ Holds("uint", v.of)
  /\ type = "object" => /\ v.of = [class |-> "Sub", field |-> VariantOf("int", v.of.field.of)]
                        /\ Number("int", v.of.field.of)

Members(s) == {s[k] : k \in DOMAIN s}
ArrayVariant(v) == v = VariantOf("array", v.of) /\ v.of \in Seq(Members(v.of))

(* In a Variant, which does not know enumerations; in an array that it     *)
(* holds; and as an element of a field that is an array.                   *)
Simple(v) == v = Invalid \/ (v.type \in Plain /\ Typed(v.type, v))
Item(v) == Simple(v) \/ v = VariantOf("array", v.of)
VariantValue(v) == Simple(v) \/ (ArrayVariant(v) /\ \A k \in DOMAIN v.of : Item(v.of[k]))
Element(elem, v) == IF elem = "variant" THEN VariantValue(v) ELSE Typed(elem, v)

ValueOf(f, v) ==
  CASE f.type = "variant" -> VariantValue(v)
    [] f.type = "array" -> ArrayVariant(v) /\ \A k \in DOMAIN v.of : Element(f.elem, v.of[k])
    [] OTHER -> Typed(f.type, v)
FieldHolds(f, v) == (f.nullable /\ v = Unset) \/ ValueOf(f, v)

(* In a text: what is no array; what is flat, or an array of such; and an  *)
(* array of either.                                                        *)
Scalar(j) ==
  /\ j.json = "bool" => Number("bool", j.of)
  /\ j.json \in {"int", "uint"} => j.of \in Int /\ 2 * Cut(j.of) = j.of
  /\ j.json = "real" => j.of \in Int
Flat(j) == Scalar(j) /\ (j.json = "object" => Scalar(j.of.field))
JsonItem(j) ==
  /\ Flat(j)
  /\ j.json = "array" => /\ j.of \in Seq(Members(j.of))
                         /\ \A k \in DOMAIN j.of : Flat(j.of[k]) /\ j.of[k].json # "array"
JsonValue(j) ==
  /\ Flat(j)
  /\ j.json = "array" => /\ j.of \in Seq(Members(j.of))
                         /\ \A k \in DOMAIN j.of : JsonItem(j.of[k])

(* Integral types have values, zero among them.                            *)
ASSUME WidthAssumption ==
  \A type \in Integral : /\ Lowest(type) \in Int /\ Count(type) \in Nat
                         /\ Count(type) > 0 /\ Holds(type, 0)

(* Arrays and objects are not nullable (InitVisitor and the JSON visitors  *)
(* refuse them), and there are no fields of arrays of arrays, which are not*)
(* written.                                                                *)
Declared(f) ==
  /\ f.type \in Plain \cup {"enum", "variant", "array"}
  /\ f.nullable \in BOOLEAN /\ (f.type \in {"array", "object"} => f.nullable = FALSE)
  /\ f.elem \in Plain \cup {"enum", "variant"} \/ (f.type # "array" /\ f.elem = "")
  /\ ValueOf(f, f.default)
ASSUME FieldAssumption ==
  Fields \in Seq(Members(Fields)) /\ \A i \in Places : Declared(Fields[i])
ASSUME EnumAssumption ==
  \A n \in {EnumDefault} \cup Members(EnumNames) : n \in Int /\ Holds("uint", n)
ASSUME InputAssumption ==
  /\ \A i \in Places : \A v \in Inputs[i] : FieldHolds(Fields[i], v)
  /\ \A v \in Given : VariantValue(v)
  /\ \A j \in Strange : JsonItem(j)

-----------------------------------------------------------------------------
(* Properties. *)

(* What JSON has no words for: a number in a Variant comes back as int,    *)
(* uint or double, a date as its text, an object as one of class Sub (the  *)
(* only one explored), what holds nothing as an invalid Variant, or as the *)
(* absence of a nullable field.                                            *)
Empty == {Invalid, NoDate, VariantOf("array", <<>>)}
AlikeItem(v, w) ==
  \/ v = w
  \/ v.type \in Arithmetic /\ w.type \in Arithmetic /\ v.of = w.of
  \/ v.type = "datetime" /\ w = VariantOf("string", <<"date", v.of>>)
  \/ v \in Empty /\ w = Invalid
Alike(v, w) ==
  \/ AlikeItem(v, w)
  \/ /\ v.type = "array" /\ w.type = "array" /\ DOMAIN v.of = DOMAIN w.of
     /\ \A k \in DOMAIN v.of : AlikeItem(v.of[k], w.of[k])

Restored(f, v, w) ==
  \/ v = w
  \/ f.type = "variant" /\ Alike(v, w)
  \/ /\ f.elem = "variant" /\ w.type = "array" /\ DOMAIN v.of = DOMAIN w.of
     /\ \A k \in DOMAIN v.of : Alike(v.of[k], w.of[k])
  \/ f.nullable /\ v \in Empty /\ w = Unset

(* Reading back what toJson() wrote restores every field of the object as  *)
(* it was then, whatever it has been made to hold since - also fields that *)
(* were absent - and Variants up to the types JSON has.  What getProperty  *)
(* gives of a field, setProperty takes back: it is the value of the field, *)
(* but for a nullable Variant without data, which becomes absent.          *)
JsonRestores ==
  \A i \in Places :
    /\ ended = "read" => Restored(Fields[i], written[i], object[i])
    /\ Fields[i].type \notin {"object", "array"} =>
         FieldSet(Fields[i], FieldValue(Fields[i], object[i])) =
           {IF Fields[i].nullable /\ object[i] = Invalid THEN Unset ELSE object[i]}

(* Inductive invariant: fields hold values of their types whatever has been*)
(* assigned, set or read, completely or in part; and a text is what was    *)
(* written of an object whose fields did.                                  *)
JsonIInv ==
  /\ object = [i \in Places |-> object[i]]
  /\ \A i \in Places : FieldHolds(Fields[i], object[i])
  /\ VariantValue(dynamic) /\ steps \in Nat
  /\ text # <<>> =>
       /\ text = [i \in Places |-> Written(Fields[i], written[i])]
       /\ \A i \in Places : FieldHolds(Fields[i], written[i]) /\ text[i] # JsonError
  /\ ended = "read" => \A i \in Places : Restored(Fields[i], written[i], object[i])
=============================================================================
