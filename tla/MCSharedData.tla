----------------------------- MODULE MCSharedData -----------------------------
(* Instance of SharedData for TLC: pointers, data and contents are           *)
(* interchangeable.                                                          *)
EXTENDS SharedData, TLC

Symmetry == Permutations(Pointer) \cup Permutations(Data) \cup Permutations(Value)
=============================================================================
