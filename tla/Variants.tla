------------------------------- MODULE Variants -------------------------------
(***************************************************************************)
(* Variant: a value with its type, and the conversions variant_cast makes. *)
(* A number is stored as twice its value, so that halves stand for all     *)
(* fractions; a text is a number, a date or a word.                        *)
(***************************************************************************)
EXTENDS Integers

CONSTANT Width             \* bits of an int32_t (32 in the code); int64_t has twice as many

Integral == {"bool", "int", "uint", "int64", "uint64"}
Floating == {"float", "double"}
Arithmetic == Integral \cup Floating

VariantOf(type, x) == [type |-> type, of |-> x]

(* A Variant without data, and what a failed conversion throws.            *)
Invalid == VariantOf("void", 0)
InvalidArgument == VariantOf("invalid_argument", 0)
RuntimeError == VariantOf("runtime_error", 0)
IsError(v) == v.type \in {"invalid_argument", "runtime_error", "bad_cast"}

Lowest(type) ==
  CASE type = "int" -> -(2 ^ (Width - 1))
    [] type = "int64" -> -(2 ^ (2 * Width - 1))
    [] OTHER -> 0
Count(type) ==
  CASE type = "bool" -> 2
    [] type \in {"int", "uint"} -> 2 ^ Width
    [] OTHER -> 2 ^ (2 * Width)
Holds(type, n) == Lowest(type) <= n /\ n < Lowest(type) + Count(type)

(* static_cast<T> of a number: integers wrap, fractions are cut off, and a *)
(* fraction that T does not hold gives anything.                           *)
Cut(half) == IF half < 0 THEN -((-half) \div 2) ELSE half \div 2
Wrapped(type, n) == Lowest(type) + ((n - Lowest(type)) % Count(type))
NumberCasts(v, type) ==
  IF type \in Floating THEN {v.of}
  ELSE IF v.type \in Floating /\ ~Holds(type, Cut(v.of))
       THEN {2 * n : n \in Lowest(type)..(Lowest(type) + Count(type) - 1)}
       ELSE {2 * Wrapped(type, Cut(v.of))}

(* value<bool> compares with zero instead.                                 *)
Truth(v) == IF v.of # 0 THEN 2 ELSE 0

(* String::fromValue                                                       *)
TextOf(v) ==
  CASE v.type \in Arithmetic -> <<"number", v.of>>
    [] v.type = "datetime" -> <<"date", v.of>>
    [] v.type = "string" -> v.of

(* variant_cast<T>(v): the possible results.                               *)
VariantCasts(v, type) ==
  CASE type = "variant" -> {v}
    [] type # "variant" /\ v = Invalid -> {RuntimeError}
    [] v # Invalid /\ type = "bool" /\ v.type \in Arithmetic -> {VariantOf("bool", Truth(v))}
    [] type \in Arithmetic \ {"bool"} /\ v.type \in Arithmetic ->
         {VariantOf(type, x) : x \in NumberCasts(v, type)}
    [] type = "string" /\ v.type \in Arithmetic \cup {"string", "datetime"} ->
         {VariantOf("string", TextOf(v))}
    [] type = "datetime" /\ v.type = "datetime" -> {v}
    [] type = "datetime" /\ v.type = "string" ->
         IF v.of[1] = "date" THEN {VariantOf("datetime", v.of[2])} ELSE {InvalidArgument}
    [] type = "array" /\ v.type = "array" -> {v}
    [] type = "object" /\ v.type = "object" -> {v}
    [] OTHER -> {InvalidArgument}
=============================================================================
