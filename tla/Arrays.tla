------------------------------- MODULE Arrays -------------------------------
(***************************************************************************)
(* One Array<T> under its public operations.  The array may share its data *)
(* with a copy; every operation that may write detaches first.  T is a POD *)
(* type or a class (String, Variant); both kinds are explored.             *)
(***************************************************************************)
EXTENDS ArrayData

CONSTANTS Element,         \* values of T
          MaxLength        \* bound: the longest array

ASSUME ArrayAssumption == MaxLength \in Nat

VARIABLES array,           \* the buffer of the array
          copied,          \* another Array holds the same data
          arrayCall             \* history: the last call, and what it should lead to

arrayVars == <<array, copied, arrayCall>>

Items == Element \cup {Blank, Junk}
Sequences(n) == UNION {[1..k -> Element] : k \in 0..n}

(* The documented outcome of a call; and, in the cases in which the code   *)
(* is known to leave something else, what that is.                         *)
Call(name, expected, known) == [name |-> name, expected |-> expected, known |-> known]

ArrayInit ==
  /\ \E pod \in BOOLEAN, data \in Sequences(2) :
       /\ array = BufferOf(pod, data)
       /\ arrayCall = Call("construct", data, {})
  /\ copied = FALSE

-----------------------------------------------------------------------------

(* detachOrInitialize() *)
Detached == IF copied THEN BufferClone(array) ELSE array

(* Every operation below writes to detached data. *)
Becomes(result, outcome) ==
  /\ array' = result
  /\ copied' = FALSE
  /\ arrayCall' = outcome

Before == Contents(array)

CopyArray ==
  /\ ~copied /\ copied' = TRUE
  /\ UNCHANGED <<array, arrayCall>>

DropCopy ==
  /\ copied /\ copied' = FALSE
  /\ UNCHANGED <<array, arrayCall>>

ArrayPushBack ==
  /\ array.size < MaxLength
  /\ \E v \in Element :
       Becomes(PushBack(Detached, v), Call("push_back", Append(Before, v), {}))

(* push_back(a[i]): the reference is read after the buffer has grown, when *)
(* it may point into the old one.                                          *)
ArrayPushBackOwn ==
  /\ array.size \in 1..(MaxLength - 1)
  /\ \E i \in 1..array.size :
       LET moved == Len(Detached.cells) < array.size + 1
       IN \E v \in {Before[i]} \cup (IF moved THEN {Junk} ELSE {}) :
            Becomes(PushBack(Detached, v),
                    Call("push_back", Append(Before, Before[i]),
                         IF moved THEN {Append(Before, Junk)} ELSE {}))

(* An overlapping std::copy repeats the first element of a class type.     *)
ArrayPushFront ==
  /\ array.size < MaxLength
  /\ \E v \in Element :
       LET smeared == [i \in 1..(array.size + 1) |-> IF i = 1 THEN v ELSE Before[1]]
       IN Becomes(PushFront(Detached, v),
                  Call("push_front", <<v>> \o Before,
                       IF ~array.pod /\ array.size >= 2 THEN {smeared} ELSE {}))

ArrayPopBack ==
  /\ array.size > 0
  /\ Becomes(PopBack(Detached), Call("pop_back", SubSeq(Before, 1, array.size - 1), {}))

ArrayPopFront ==
  /\ array.size > 0
  /\ Becomes(PopFront(Detached), Call("pop_front", Tail(Before), {}))

(* What is left without the elements at from, from + 1, ..., to - 1. *)
Without(from, to) == SubSeq(Before, 1, from) \o SubSeq(Before, to + 1, array.size)

ArrayEraseAt ==
  \E i \in 0..(array.size - 1) :
    Becomes(Erase(Detached, i, i + 1), Call("erase", Without(i, i + 1), {}))

(* The documentation includes the element at "to"; the code does not.      *)
ArrayErase ==
  \E from \in 0..array.size, to \in 0..array.size :
    /\ from < to
    /\ Becomes(Erase(Detached, from, to),
               Call("erase", Without(from, to + 1), {Without(from, to)}))

ArrayReserve ==
  \E n \in 0..MaxLength :
    Becomes(BufferReserve(Detached, n), Call("reserve", Before, {}))

ArraySqueeze == Becomes(BufferSqueeze(Detached), Call("squeeze", Before, {}))

(* Cells that come into use are not constructed: they hold what they held  *)
(* when they were last in use, or what malloc left there.                  *)
ArrayResize ==
  \E n \in 0..MaxLength :
    LET Resized(rest) == [i \in 1..n |-> IF i <= array.size THEN Before[i] ELSE rest[i]]
        result  == BufferResize(Detached, n)
        exposed == \E i \in (array.size + 1)..n : array.pod \/ Len(Detached.cells) >= i
    IN Becomes(result, Call("resize", Resized([i \in 1..n |-> Blank]),
                            IF exposed THEN {Resized(result.cells)} ELSE {}))

ArrayAppend ==
  \E data \in Sequences(2) :
    /\ array.size + Len(data) <= MaxLength
    /\ Becomes(AppendAll(Detached, data), Call("append", Before \o data, {}))

(* a.append(a): the pointer to the elements is taken before detach and     *)
(* reserve.  Shared data lives on in the copy; other data is freed when    *)
(* reserve moves it.                                                       *)
ArrayAppendOwn ==
  /\ 2 * array.size <= MaxLength
  /\ LET freed == ~copied /\ Len(array.cells) < 2 * array.size
         stale == [i \in 1..array.size |-> Junk]
     IN \E data \in {Before} \cup (IF freed THEN {stale} ELSE {}) :
          Becomes(AppendAll(Detached, data), Call("append", Before \o Before,
                                                  IF freed THEN {Before \o stale} ELSE {}))

(* emplace_back(a[i]) takes its arguments by value. *)
ArrayEmplaceOwn ==
  /\ array.size \in 1..(MaxLength - 1)
  /\ \E i \in 1..array.size :
       Becomes(PushBack(Detached, Before[i]), Call("emplace_back", Append(Before, Before[i]), {}))

ArrayClear == Becomes(BufferSqueeze(BufferResize(Detached, 0)), Call("clear", <<>>, {}))

ArrayNext ==
  \/ CopyArray \/ DropCopy
  \/ ArrayPushBack \/ ArrayPushBackOwn \/ ArrayPushFront
  \/ ArrayPopBack \/ ArrayPopFront \/ ArrayEraseAt \/ ArrayErase
  \/ ArrayReserve \/ ArraySqueeze \/ ArrayResize
  \/ ArrayAppend \/ ArrayAppendOwn \/ ArrayEmplaceOwn \/ ArrayClear

ArraySpec == ArrayInit /\ [][ArrayNext]_arrayVars

-----------------------------------------------------------------------------
(* Properties. *)

(* After every call the array holds what the documentation promises,       *)
(* whatever spare or stale cells the buffer has and whoever shares it.     *)
(* Five calls may leave something else, and then exactly this:             *)
(*   push_front of a class type onto two or more elements repeats the      *)
(*     first of them (Array.h:258);                                        *)
(*   push_back(a[i]) and append(a) read freed memory when the buffer has   *)
(*     to grow (Array.h:238, 436);                                         *)
(*   resize leaves in cells it brings into use what was there, when it     *)
(*     does not construct them (Array.h:194);                              *)
(*   erase(from, to) keeps the element at "to", the end of a range that    *)
(*     is documented as inclusive (Array.h:392).                           *)
ArrayAsDocumented == Contents(array) \in {arrayCall.expected} \cup arrayCall.known

(* Inductive invariant: whatever the calls, the buffer is well-formed.     *)
ArrayIInv == IsBuffer(array, Items) /\ copied \in BOOLEAN /\ ArrayAsDocumented
=============================================================================
