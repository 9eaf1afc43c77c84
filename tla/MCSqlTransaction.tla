-------------------------- MODULE MCSqlTransaction --------------------------
(* Instances of SqlTransaction for TLC: one object per thread; or one of   *)
(* the threads, Host, has a second object, Inner, inside or around its own.*)
EXTENDS SqlTransaction, TLC

CONSTANTS Inner, Host

OwnThread   == [x \in Tx |-> x]
NestedOwner == [x \in Tx |-> IF x = Inner THEN Host ELSE x]

Symmetry == Permutations(Handle) \cup Permutations(Thread)
=============================================================================
