----------------------------- MODULE MCReflection -----------------------------
(* For TLC: the pool of MCConnectionPool; and, as behaviours of their own,   *)
(* the objects of a class and the tables of a MetaObject, which threads      *)
(* prepare and search.  These share no variables.  A behaviour is one of the *)
(* component chosen at its start, while the others keep their initial value, *)
(* so that the states add up.                                                *)
EXTENDS MCConnectionPool, Objects, MetaObjects

VARIABLE part

(* The clients; every permutation is tried on the states of objects, too.    *)
ClientSymmetry == Permutations(Tx)

(* Classes: overloads, in the class and its base, of own and static methods  *)
(* and constructors; a field of the base that the class hides.               *)
MetaFieldAt(name, offset) == [name |-> name, offset |-> offset]
MCChain ==
  <<[fields |-> <<MetaFieldAt("x", 16), MetaFieldAt("y", 24)>>,
     methods |-> <<OwnMethod("f", <<"int">>), ConstMethod("f", <<"datetime">>),
                   StaticMethod("s", <<"datetime">>), Constructor("Derived", <<"int">>)>>],
    [fields |-> <<MetaFieldAt("z", 0), MetaFieldAt("x", 8)>>,
     methods |-> <<ConstMethod("f", <<"int">>), OwnMethod("f", <<"string">>),
                   StaticMethod("s", <<"string">>), Constructor("Base", <<>>),
                   Constructor("Base", <<"string">>)>>]>>
Date   == VariantOf("string", <<"date", 1>>)
AWord  == VariantOf("string", <<"word", "w">>)
MCArguments == {<<>>} \cup {<<v>> : v \in {Invalid, VariantOf("int", 2), VariantOf("double", 1), AWord, Date,
                                         VariantOf("datetime", 1)}}

(* Objects: a nullable integer, an enumeration, an array of it, an object,   *)
(* a Variant, one that is nullable, and an array of Variants.                *)
Sub(n) == VariantOf("object", [class |-> "Sub", field |-> VariantOf("int", n)])
Items1(v) == VariantOf("array", <<v>>)
NoItems   == VariantOf("array", <<>>)
MCFields ==
  <<NullableField(OptionalField("int")), EnumField, ArrayField("enum"), ObjectField, OptionalField("variant"),
    NullableField(OptionalField("variant")), ArrayField("variant")>>
MCEnumNames == [one |-> 1, two |-> 2]
MCInputs ==
  <<{Unset, VariantOf("int", 4)},
    {VariantOf("enum", n) : n \in {1, 2, 3}},
    {NoItems, Items1(VariantOf("enum", 2))},
    {Sub(0), Sub(2)},
    {Invalid, VariantOf("int64", -16), VariantOf("datetime", 1), NoDate, VariantOf("uint", 10),
     VariantOf("float", 1), NoItems, Items1(AWord), Items1(Date), Items1(Invalid), Sub(2)},
    {Invalid, NoItems},
    {VariantOf("array", <<Invalid, VariantOf("int64", 6), NoItems, Items1(AWord)>>), Items1(Items1(Invalid))}>>
MCGiven == {Invalid, VariantOf("int", 2), VariantOf("double", 3), Date}
MCStrange ==
  {JsonNull, Json("int", 2), Json("uint", 10), Json("real", 1), Json("string", <<"word", "w">>),
   Json("array", <<JsonNull>>), Json("object", [class |-> "Other", field |-> Json("int", 2)])}

PartsInit ==
  /\ part \in {"pool", "object", "class"}
  /\ PoolInit /\ ObjectInit /\ MetaInit

PartsNext ==
  /\ part' = part
  /\ \/ part = "pool" /\ PoolNext /\ UNCHANGED <<jsonVars, metaVars>>
     \/ part = "object" /\ ObjectNext /\ UNCHANGED <<poolVars, metaVars>>
     \/ part = "class" /\ MetaNext /\ UNCHANGED <<poolVars, jsonVars>>
=============================================================================
