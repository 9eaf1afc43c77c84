--------------------------- MODULE ValueSemantics ---------------------------
(***************************************************************************)
(* What String, Array, Variant and DateTime promise their users: each      *)
(* object has a value of its own.  "Both arrays shares the same data       *)
(* buffer until someone will not try to change one of them" (Array.h:346)  *)
(* is an implementation detail nobody can observe: construction, copying,  *)
(* writing and destruction of one object leave all others alone.           *)
(***************************************************************************)
CONSTANTS Pointer,         \* the objects
          Value,           \* what they can hold
          Null,            \* the value of an object without data
          Absent           \* there is no such object now

VARIABLE val               \* the value of each object

Init == val = [p \in Pointer |-> Absent]

Construct(p) ==
  /\ val[p] = Absent
  /\ \E v \in Value \cup {Null} : val' = [val EXCEPT ![p] = v]

(* Copy construction and copy assignment. *)
Copy(p, q) ==
  /\ p # q /\ val[q] # Absent
  /\ val' = [val EXCEPT ![p] = val[q]]

Write(p) ==
  /\ val[p] # Absent
  /\ \E v \in Value : val' = [val EXCEPT ![p] = v]

Destroy(p) ==
  /\ val[p] # Absent
  /\ val' = [val EXCEPT ![p] = Absent]

Next ==
  \E p \in Pointer :
    \/ Construct(p) \/ Write(p) \/ Destroy(p)
    \/ \E q \in Pointer : Copy(p, q)

Spec == Init /\ [][Next]_val
=============================================================================
