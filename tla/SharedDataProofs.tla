-------------------------- MODULE SharedDataProofs --------------------------
(***************************************************************************)
(* Proofs about SharedData for any number of pointers and threads: the     *)
(* reference count is exact, nothing dangles, and sharing is invisible     *)
(* (the protocol implements ValueSemantics).                               *)
(*                                                                         *)
(* A step adds a holder to one data, removes one, makes new data, deletes  *)
(* data or leaves all holders alone; the first lemmas show that each kind  *)
(* keeps the counts exact.                                                 *)
(***************************************************************************)
EXTENDS SharedData, FiniteSetTheorems, TLAPS

LEMMA HoldersFinite ==
  ASSUME NEW d
  PROVE  IsFiniteSet(HoldersOf(d)) /\ Cardinality(HoldersOf(d)) \in Nat
<1>1. HoldersOf(d) \subseteq Pointer
  BY DEF HoldersOf
<1>2. IsFiniteSet(HoldersOf(d))
  BY <1>1, SharedAssumption, FS_Subset
<1> QED
  BY <1>2, FS_CardinalityType

(* Nobody holds data that does not exist. *)
LEMMA UnallocatedUnheld ==
  ASSUME IInv, NEW d \in Data \ allocated
  PROVE  HoldersOf(d) = {}
BY SharedAssumption DEF IInv, NoDangling, HoldersOf, Holds, Counted

LEMMA NoChange ==
  ASSUME IInv, UNCHANGED <<allocated, count, dead>>,
         \A d \in Data : HoldersOf(d)' = HoldersOf(d)
  PROVE  CountExact' /\ DeletedOnce'
<1> USE DEF IInv, TypeOK
<1>1. CountExact'
  BY DEF CountExact
<1>2. DeletedOnce'
  BY DEF DeletedOnce
<1> QED
  BY <1>1, <1>2

LEMMA NewData ==
  ASSUME IInv, NEW p \in Pointer, NEW d \in Data, NEW v, Allocate(d, v), UNCHANGED dead,
         \A e \in Data : HoldersOf(e)' = IF e = d THEN {p} ELSE HoldersOf(e)
  PROVE  CountExact' /\ DeletedOnce'
<1> USE DEF IInv, TypeOK
<1>1. Cardinality({p}) = 1
  BY FS_Singleton
<1>2. CountExact'
  BY <1>1 DEF CountExact, Allocate
<1>3. DeletedOnce'
  BY DEF DeletedOnce, Allocate
<1> QED
  BY <1>2, <1>3

LEMMA AddReference ==
  ASSUME IInv, NEW p \in Pointer, NEW c \in allocated, p \notin HoldersOf(c), HoldersOf(c) # {},
         count' = [count EXCEPT ![c] = @ + 1], UNCHANGED <<allocated, dead>>,
         \A d \in Data : HoldersOf(d)' = IF d = c THEN HoldersOf(d) \cup {p} ELSE HoldersOf(d)
  PROVE  CountExact' /\ DeletedOnce'
<1> USE DEF IInv, TypeOK
<1>1. Cardinality(HoldersOf(c) \cup {p}) = Cardinality(HoldersOf(c)) + 1
  BY HoldersFinite, FS_AddElement
<1>2. CountExact'
  BY <1>1 DEF CountExact
<1>3. DeletedOnce'
  BY DEF DeletedOnce
<1> QED
  BY <1>2, <1>3

(* --m_count answers 0 exactly when the last holder leaves. *)
LEMMA DropReference ==
  ASSUME IInv, NEW p \in Pointer, NEW c \in allocated, p \in HoldersOf(c), dead[p] = NoData,
         Deref(p, c), UNCHANGED allocated,
         \A d \in Data : HoldersOf(d)' = IF d = c THEN HoldersOf(d) \ {p} ELSE HoldersOf(d)
  PROVE  CountExact' /\ DeletedOnce' /\ count' \in [Data -> Nat]
<1> USE DEF IInv, TypeOK
<1> DEFINE S == HoldersOf(c)
<1>1. Cardinality(S \ {p}) = Cardinality(S) - 1
  BY HoldersFinite, FS_RemoveElement
<1>2. IsFiniteSet(S \ {p}) /\ Cardinality(S \ {p}) \in Nat
  BY HoldersFinite, FS_RemoveElement, FS_CardinalityType
<1>3. count[c] = Cardinality(S)
  BY DEF CountExact
<1>4. count[c] \in Nat /\ Cardinality(S) \in Nat
  BY <1>3, HoldersFinite
<1>5. count[c] - 1 = Cardinality(S \ {p}) /\ count[c] - 1 \in Nat
  BY <1>1, <1>2, <1>3, <1>4
<1>6. count[c] = 1 <=> S \ {p} = {}
  <2>1. Cardinality(S \ {p}) = 0 <=> S \ {p} = {}
    BY <1>2, FS_EmptySet
  <2> QED
    BY <2>1, <1>4, <1>5
<1>7. count' \in [Data -> Nat]
  BY <1>5 DEF Deref
<1>8. CountExact'
  <2> SUFFICES ASSUME NEW d \in allocated
               PROVE  /\ count'[d] = Cardinality(HoldersOf(d)')
                      /\ HoldersOf(d)' = {} => \E q \in Pointer : dead'[q] = d
    BY DEF CountExact
  <2>1. CASE d = c
    <3>1. HoldersOf(d)' = S \ {p} /\ count'[d] = count[c] - 1
      BY <2>1 DEF Deref
    <3>2. S \ {p} = {} => dead'[p] = c
      BY <1>6 DEF Deref
    <3> QED
      BY <2>1, <3>1, <3>2, <1>5
  <2>2. CASE d # c
    <3>1. HoldersOf(d)' = HoldersOf(d) /\ count'[d] = count[d]
      BY <2>2 DEF Deref
    <3>2. \A q \in Pointer : dead[q] = d => dead'[q] = d
      BY SharedAssumption DEF Deref
    <3> QED
      BY <3>1, <3>2 DEF CountExact
  <2> QED
    BY <2>1, <2>2
<1>9. DeletedOnce'
  <2>1. \A q \in Pointer : dead[q] # c
    BY SharedAssumption DEF DeletedOnce
  <2>2. dead'[p] = IF S \ {p} = {} THEN c ELSE NoData
    BY <1>6 DEF Deref
  <2>3. \A q \in Pointer \ {p} : dead'[q] = dead[q]
    BY DEF Deref
  <2>4. \A q \in Pointer, d \in Data : dead'[q] = d => d \in allocated /\ HoldersOf(d)' = {}
    <3> SUFFICES ASSUME NEW q \in Pointer, NEW d \in Data, dead'[q] = d
                 PROVE  d \in allocated /\ HoldersOf(d)' = {}
      OBVIOUS
    <3>1. CASE q = p
      BY <3>1, <2>2, SharedAssumption
    <3>2. CASE q # p
      BY <3>2, <2>1, <2>3 DEF DeletedOnce
    <3> QED
      BY <3>1, <3>2
  <2>5. \A q, r \in Pointer : dead'[q] = dead'[r] /\ dead'[q] # NoData => q = r
    BY <2>1, <2>2, <2>3 DEF DeletedOnce
  <2> QED
    BY <2>4, <2>5 DEF DeletedOnce
<1> QED
  BY <1>7, <1>8, <1>9

LEMMA DeleteDead ==
  ASSUME IInv, NEW p \in Pointer, Delete(p), UNCHANGED count,
         \A d \in Data : HoldersOf(d)' = HoldersOf(d)
  PROVE  CountExact' /\ DeletedOnce'
<1> USE DEF IInv, TypeOK, Delete
<1>1. CountExact'
  BY DEF CountExact
<1>2. DeletedOnce'
  <2>1. \A q \in Pointer \ {p} : dead'[q] = dead[q]
    OBVIOUS
  <2>2. dead'[p] = NoData
    OBVIOUS
  <2>3. \A q \in Pointer, d \in Data : dead'[q] = d => d \in allocated' /\ HoldersOf(d)' = {}
    <3> SUFFICES ASSUME NEW q \in Pointer, NEW d \in Data, dead'[q] = d
                 PROVE  d \in allocated' /\ HoldersOf(d)' = {}
      OBVIOUS
    <3>1. q # p /\ dead[q] = d
      BY <2>1, <2>2, SharedAssumption
    <3>2. dead[p] # d
      BY <3>1, SharedAssumption DEF DeletedOnce
    <3> QED
      BY <3>1, <3>2 DEF DeletedOnce
  <2>4. \A q, r \in Pointer : dead'[q] = dead'[r] /\ dead'[q] # NoData => q = r
    BY <2>1, <2>2 DEF DeletedOnce
  <2> QED
    BY <2>3, <2>4 DEF DeletedOnce
<1> QED
  BY <1>1, <1>2

(* Data about to be deleted is used by nobody. *)
LEMMA DeadUnused ==
  ASSUME IInv, NEW p \in Pointer, NEW q \in Pointer, dead[p] # NoData
  PROVE  /\ pc[q] \in Counted \cup {"sharing"} => ptr[q] # dead[p]
         /\ pc[q] \in {"cloned", "swap"} => fresh[q] # dead[p]
<1>1. dead[p] \in Data /\ HoldersOf(dead[p]) = {}
  BY DEF IInv, TypeOK, DeletedOnce
<1>2. \A r \in Pointer : ~Holds(r, dead[p])
  BY <1>1 DEF HoldersOf
<1>3. pc[q] = "sharing" => src[q] \in Pointer /\ pc[src[q]] = "idle" /\ ptr[src[q]] = ptr[q]
  BY DEF IInv, Shape
<1> QED
  BY <1>2, <1>3 DEF Holds, Counted

(* Who sees the count at 1 is the only holder. *)
LEMMA CountOneAlone ==
  ASSUME IInv, NEW p \in Pointer, NEW d \in allocated, p \in HoldersOf(d), count[d] = 1
  PROVE  HoldersOf(d) = {p}
<1>1. Cardinality(HoldersOf(d)) = 1
  BY DEF IInv, CountExact
<1>2. \E x : HoldersOf(d) = {x}
  BY <1>1, HoldersFinite, FS_Singleton
<1> QED
  BY <1>2

(* A copy is not counted yet. *)
LEMMA CopyInvariant ==
  ASSUME IInv, NEW p \in Pointer, NEW q \in Pointer, Copy(p, q)
  PROVE  IInv'
<1> USE SharedAssumption DEF IInv, TypeOK, Shape, State, Copy, heap
<1>1. \A d \in Data : HoldersOf(d)' = HoldersOf(d)
  BY DEF HoldersOf, Holds, Counted, NoDangling
<1>2. TypeOK'
  OBVIOUS
<1>3. Shape'
  OBVIOUS
<1>4. NoDangling'
  BY DEF NoDangling, Counted
<1>5. SoleHolder'
  BY <1>1 DEF SoleHolder, NoDangling, Counted
<1>6. CountExact' /\ DeletedOnce'
  BY <1>1, NoChange
<1>7. CloneEqual'
  BY DEF CloneEqual, NoDangling, Counted
<1> QED
  BY <1>2, <1>3, <1>4, <1>5, <1>6, <1>7

(* The source keeps the data alive until the copy is counted. *)
LEMMA ShareInvariant ==
  ASSUME IInv, NEW p \in Pointer, Share(p)
  PROVE  IInv'
<1> USE SharedAssumption DEF IInv, TypeOK, Shape, State, Share
<1>a. /\ p \notin HoldersOf(ptr[p]) /\ src[p] \in HoldersOf(ptr[p])
      /\ pc[src[p]] = "idle" /\ ptr[p] \in allocated
  BY DEF HoldersOf, Holds, Counted, NoDangling
<1>1. \A d \in Data : HoldersOf(d)' = IF d = ptr[p] THEN HoldersOf(d) \cup {p} ELSE HoldersOf(d)
  BY DEF HoldersOf, Holds, Counted, NoDangling
<1>2. TypeOK'
  OBVIOUS
<1>3. Shape'
  OBVIOUS
<1>4. NoDangling'
  BY DEF NoDangling, Counted
<1>5. SoleHolder'
  <2>1. \A q \in Pointer : pc[q] = "write" => ptr[q] # ptr[p]
    BY <1>a DEF SoleHolder
  <2>2. \A q \in Pointer : pc[q] \in {"cloned", "swap"} => fresh[q] # ptr[p]
    BY <1>a DEF SoleHolder
  <2> QED
    BY <1>1, <2>1, <2>2 DEF SoleHolder, NoDangling, Counted
<1>6. CountExact' /\ DeletedOnce'
  <2>1. count' = [count EXCEPT ![ptr[p]] = @ + 1] /\ UNCHANGED <<allocated, dead>>
    OBVIOUS
  <2>2. HoldersOf(ptr[p]) # {}
    BY <1>a
  <2> HIDE DEF IInv, TypeOK, Shape, State, Share
  <2> QED
    BY <1>1, <1>a, <2>1, <2>2, AddReference
<1>7. CloneEqual'
  BY DEF CloneEqual, NoDangling, Counted
<1> QED
  BY <1>2, <1>3, <1>4, <1>5, <1>6, <1>7

(* AssignSet *)
LEMMA AssignSetInvariant ==
  ASSUME IInv, NEW p \in Pointer, AssignSet(p)
  PROVE  IInv'
<1> USE SharedAssumption DEF IInv, TypeOK, Shape, State, AssignSet, Delete
<1>1. \A d \in Data : HoldersOf(d)' = HoldersOf(d)
  BY DEF HoldersOf, Holds, Counted, NoDangling
<1>2. TypeOK'
  OBVIOUS
<1>3. Shape'
  OBVIOUS
<1>4. NoDangling'
  BY DeadUnused DEF NoDangling, Counted
<1>5. SoleHolder'
  BY <1>1 DEF SoleHolder, NoDangling, Counted
<1>6. CountExact' /\ DeletedOnce'
  BY <1>1, DeleteDead
<1>7. CloneEqual'
  BY DEF CloneEqual, NoDangling, Counted
<1> QED
  BY <1>2, <1>3, <1>4, <1>5, <1>6, <1>7

(* ClearEnd *)
LEMMA ClearEndInvariant ==
  ASSUME IInv, NEW p \in Pointer, ClearEnd(p)
  PROVE  IInv'
<1> USE SharedAssumption DEF IInv, TypeOK, Shape, State, ClearEnd, Delete
<1>1. \A d \in Data : HoldersOf(d)' = HoldersOf(d)
  BY DEF HoldersOf, Holds, Counted, NoDangling
<1>2. TypeOK'
  OBVIOUS
<1>3. Shape'
  OBVIOUS
<1>4. NoDangling'
  BY DeadUnused DEF NoDangling, Counted
<1>5. SoleHolder'
  BY <1>1 DEF SoleHolder, NoDangling, Counted
<1>6. CountExact' /\ DeletedOnce'
  BY <1>1, DeleteDead
<1>7. CloneEqual'
  BY DEF CloneEqual, NoDangling, Counted
<1> QED
  BY <1>2, <1>3, <1>4, <1>5, <1>6, <1>7

(* Clone *)
LEMMA CloneInvariant ==
  ASSUME IInv, NEW p \in Pointer, Clone(p)
  PROVE  IInv'
<1> USE SharedAssumption DEF IInv, TypeOK, Shape, State, Clone, Allocate
<1>a. PICK c \in Data : Allocate(c, content[ptr[p]]) /\ fresh' = [fresh EXCEPT ![p] = c]
  OBVIOUS
<1>b. HoldersOf(c) = {}
  BY <1>a, UnallocatedUnheld
<1>1. \A d \in Data : HoldersOf(d)' = IF d = c THEN {p} ELSE HoldersOf(d)
  BY <1>a, <1>b DEF HoldersOf, Holds, Counted, NoDangling
<1>2. TypeOK'
  OBVIOUS
<1>3. Shape'
  OBVIOUS
<1>4. NoDangling'
  BY DEF NoDangling, Counted
<1>5. SoleHolder'
  <2>1. c # ptr[p]
    BY <1>a DEF NoDangling, Counted
  <2>2. ASSUME NEW q \in Pointer, pc[q] = "write" PROVE ptr[q] # c
    <3>1. q \in HoldersOf(ptr[q])
      BY <2>2 DEF SoleHolder
    <3> QED
      BY <3>1, <1>b
  <2>3. ASSUME NEW q \in Pointer, pc[q] \in {"cloned", "swap"} PROVE fresh[q] # c
    <3>1. q \in HoldersOf(fresh[q])
      BY <2>3 DEF SoleHolder
    <3> QED
      BY <3>1, <1>b
  <2> QED
    BY <1>1, <1>a, <2>1, <2>2, <2>3 DEF SoleHolder
<1>6. CountExact' /\ DeletedOnce'
  <2>1. Allocate(c, content[ptr[p]]) /\ UNCHANGED dead
    BY <1>a
  <2> HIDE DEF IInv, TypeOK, Shape, State, Clone, Allocate
  <2> QED
    BY <1>1, <2>1, NewData
<1>7. CloneEqual'
  BY DEF CloneEqual, NoDangling, Counted
<1> QED
  BY <1>2, <1>3, <1>4, <1>5, <1>6, <1>7

(* Release *)
LEMMA ReleaseInvariant ==
  ASSUME IInv, NEW p \in Pointer, Release(p)
  PROVE  IInv'
<1> USE SharedAssumption DEF IInv, TypeOK, Shape, State, Release, Deref
<1>a. /\ p \in HoldersOf(ptr[p]) /\ ptr[p] \in allocated
      /\ dead[p] = NoData /\ fresh[p] # ptr[p]
  BY DEF HoldersOf, Holds, Counted, NoDangling, SoleHolder
<1>1. \A d \in Data : HoldersOf(d)' = IF d = ptr[p] THEN HoldersOf(d) \ {p} ELSE HoldersOf(d)
  BY <1>a DEF HoldersOf, Holds, Counted
<1>6. CountExact' /\ DeletedOnce' /\ count' \in [Data -> Nat]
  <2>1. Deref(p, ptr[p]) /\ UNCHANGED allocated
    OBVIOUS
  <2> HIDE DEF IInv, TypeOK, Shape, State, Release, Deref
  <2> QED
    BY <1>1, <1>a, <2>1, DropReference
<1>2. TypeOK'
  BY <1>6
<1>3. Shape'
  OBVIOUS
<1>4. NoDangling'
  BY DEF NoDangling, Counted
<1>5. SoleHolder'
  BY <1>1 DEF SoleHolder, NoDangling, Counted
<1>7. CloneEqual'
  BY DEF CloneEqual, NoDangling, Counted
<1> QED
  BY <1>2, <1>3, <1>4, <1>5, <1>6, <1>7

(* Swap *)
LEMMA SwapInvariant ==
  ASSUME IInv, NEW p \in Pointer, Swap(p)
  PROVE  IInv'
<1> USE SharedAssumption DEF IInv, TypeOK, Shape, State, Swap, Delete
<1>1. \A d \in Data : HoldersOf(d)' = HoldersOf(d)
  BY DEF HoldersOf, Holds, Counted, NoDangling
<1>2. TypeOK'
  OBVIOUS
<1>3. Shape'
  OBVIOUS
<1>4. NoDangling'
  BY DeadUnused DEF NoDangling, Counted
<1>5. SoleHolder'
  BY <1>1 DEF SoleHolder, NoDangling, Counted
<1>6. CountExact' /\ DeletedOnce'
  BY <1>1, DeleteDead
<1>7. CloneEqual'
  BY DEF CloneEqual, NoDangling, Counted
<1> QED
  BY <1>2, <1>3, <1>4, <1>5, <1>6, <1>7

(* Write *)
LEMMA PlainWriteInvariant ==
  ASSUME IInv, NEW p \in Pointer, Write(p)
  PROVE  IInv'
<1> USE SharedAssumption DEF IInv, TypeOK, Shape, State, Write
<1>1. \A d \in Data : HoldersOf(d)' = HoldersOf(d)
  BY DEF HoldersOf, Holds, Counted, NoDangling
<1>2. TypeOK'
  OBVIOUS
<1>3. Shape'
  OBVIOUS
<1>4. NoDangling'
  BY DEF NoDangling, Counted
<1>5. SoleHolder'
  BY <1>1 DEF SoleHolder, NoDangling, Counted
<1>6. CountExact' /\ DeletedOnce'
  BY <1>1, NoChange
<1>7. CloneEqual'
  <2>1. HoldersOf(ptr[p]) = {p}
    BY DEF SoleHolder
  <2>2. \A q \in Pointer : pc[q] = "cloned" => ptr[q] # ptr[p] /\ fresh[q] # ptr[p]
    BY <2>1 DEF HoldersOf, Holds, Counted
  <2> QED
    BY <2>2 DEF CloneEqual
<1> QED
  BY <1>2, <1>3, <1>4, <1>5, <1>6, <1>7

(* WriteThrough *)
LEMMA WriteThroughInvariant ==
  ASSUME IInv, NEW p \in Pointer, WriteThrough(p)
  PROVE  IInv'
<1> USE SharedAssumption DEF IInv, TypeOK, Shape, State, WriteThrough
<1>1. \A d \in Data : HoldersOf(d)' = HoldersOf(d)
  BY DEF HoldersOf, Holds, Counted, NoDangling
<1>2. TypeOK'
  OBVIOUS
<1>3. Shape'
  OBVIOUS
<1>4. NoDangling'
  BY DEF NoDangling, Counted
<1>5. SoleHolder'
  BY <1>1 DEF SoleHolder, NoDangling, Counted
<1>6. CountExact' /\ DeletedOnce'
  BY <1>1, NoChange
<1>7. CloneEqual'
  <2>1. ASSUME ~HeldReferences, NEW q \in Pointer, pc[q] = "cloned"
        PROVE  ptr[q] # ref[p] /\ fresh[q] # ref[p]
    BY <2>1 DEF HoldersOf, Holds, Counted
  <2> QED
    BY <2>1 DEF CloneEqual
<1> QED
  BY <1>2, <1>3, <1>4, <1>5, <1>6, <1>7

(* Clear *)
LEMMA ClearInvariant ==
  ASSUME IInv, NEW p \in Pointer, Clear(p)
  PROVE  IInv'
<1> USE SharedAssumption DEF IInv, TypeOK, Shape, State, Clear, Deref
<1>a. ptr[p] # NoData => p \in HoldersOf(ptr[p]) /\ ptr[p] \in allocated
  BY DEF HoldersOf, Holds, Counted, NoDangling
<1>b. dead[p] = NoData
  OBVIOUS
<1>1. \A d \in Data : HoldersOf(d)' = IF d = ptr[p] THEN HoldersOf(d) \ {p} ELSE HoldersOf(d)
  BY DEF HoldersOf, Holds, Counted, NoDangling
<1>6. CountExact' /\ DeletedOnce' /\ count' \in [Data -> Nat]
  <2>1. CASE ptr[p] = NoData
    <3>1. \A d \in Data : HoldersOf(d)' = HoldersOf(d)
      BY <1>1, <2>1
    <3> QED
      BY <2>1, <3>1, NoChange
  <2>2. CASE ptr[p] # NoData
    BY <1>1, <1>a, <1>b, <2>2, DropReference
  <2> QED
    BY <2>1, <2>2
<1>2. TypeOK'
  BY <1>6
<1>3. Shape'
  <2>1. \A q \in Pointer : src[q] # p
    BY DEF Unread
  <2> QED
    BY <2>1
<1>4. NoDangling'
  BY DEF NoDangling, Counted
<1>5. SoleHolder'
  BY <1>1 DEF SoleHolder, NoDangling, Counted
<1>7. CloneEqual'
  BY DEF CloneEqual, NoDangling, Counted
<1> QED
  BY <1>2, <1>3, <1>4, <1>5, <1>6, <1>7

(* Assign *)
LEMMA AssignInvariant ==
  ASSUME IInv, NEW p \in Pointer, NEW q \in Pointer, Assign(p, q)
  PROVE  IInv'
<1> USE SharedAssumption DEF IInv, TypeOK, Shape, State, Assign, Deref, Unread
<1>a. ptr[p] # NoData => p \in HoldersOf(ptr[p]) /\ ptr[p] \in allocated
  BY DEF HoldersOf, Holds, Counted, NoDangling
<1>b. dead[p] = NoData
  OBVIOUS
<1>1. \A d \in Data : HoldersOf(d)' = IF d = ptr[p] THEN HoldersOf(d) \ {p} ELSE HoldersOf(d)
  BY DEF HoldersOf, Holds, Counted, NoDangling
<1>6. CountExact' /\ DeletedOnce' /\ count' \in [Data -> Nat]
  <2>1. CASE ptr[p] = NoData
    <3>1. \A d \in Data : HoldersOf(d)' = HoldersOf(d)
      BY <1>1, <2>1
    <3> QED
      BY <2>1, <3>1, NoChange
  <2>2. CASE ptr[p] # NoData
    BY <1>1, <1>a, <1>b, <2>2, DropReference
  <2> QED
    BY <2>1, <2>2
<1>2. TypeOK'
  BY <1>6
<1>3. Shape'
  OBVIOUS
<1>4. NoDangling'
  BY DEF NoDangling, Counted
<1>5. SoleHolder'
  BY <1>1 DEF SoleHolder, NoDangling, Counted
<1>7. CloneEqual'
  BY DEF CloneEqual, NoDangling, Counted
<1> QED
  BY <1>2, <1>3, <1>4, <1>5, <1>6, <1>7

(* Detach *)
LEMMA DetachInvariant ==
  ASSUME IInv, NEW p \in Pointer, Detach(p), ptr[p] # NoData
  PROVE  IInv'
<1> USE SharedAssumption DEF IInv, TypeOK, Shape, State, Detach, heap, Unread
<1>1. \A d \in Data : HoldersOf(d)' = HoldersOf(d)
  BY DEF HoldersOf, Holds, Counted, NoDangling
<1>2. TypeOK'
  OBVIOUS
<1>3. Shape'
  OBVIOUS
<1>4. NoDangling'
  BY DEF NoDangling, Counted
<1>5. SoleHolder'
  <2>1. p \in HoldersOf(ptr[p]) /\ ptr[p] \in allocated
    BY DEF HoldersOf, Holds, Counted, NoDangling
  <2>2. count[ptr[p]] = 1 => HoldersOf(ptr[p]) = {p}
    BY <2>1, CountOneAlone
  <2> QED
    BY <1>1, <2>2 DEF SoleHolder, NoDangling, Counted
<1>6. CountExact' /\ DeletedOnce'
  BY <1>1, NoChange
<1>7. CloneEqual'
  BY DEF CloneEqual, NoDangling, Counted
<1> QED
  BY <1>2, <1>3, <1>4, <1>5, <1>6, <1>7

(* Construction without and with data. *)
LEMMA CreateInvariant ==
  ASSUME IInv, NEW p \in Pointer, Create(p)
  PROVE  IInv'
<1> USE SharedAssumption DEF IInv, TypeOK, Shape, State, Create
<1>1. CASE UNCHANGED <<heap, ptr>>
  <2> USE <1>1 DEF heap
  <2>1. \A d \in Data : HoldersOf(d)' = HoldersOf(d)
    BY DEF HoldersOf, Holds, Counted
  <2>2. TypeOK' /\ Shape'
    OBVIOUS
  <2>3. NoDangling' /\ SoleHolder'
    BY <2>1 DEF NoDangling, SoleHolder, Counted
  <2>4. CountExact' /\ DeletedOnce'
    BY <2>1, NoChange
  <2>5. CloneEqual'
    BY DEF CloneEqual
  <2> QED
    BY <2>2, <2>3, <2>4, <2>5
<1>2. ASSUME NEW c \in Data, NEW v \in Value, Allocate(c, v), ptr' = [ptr EXCEPT ![p] = c]
      PROVE  IInv'
  <2> USE <1>2
  <2>1. HoldersOf(c) = {}
    BY UnallocatedUnheld DEF Allocate
  <2>2. \A d \in Data : HoldersOf(d)' = IF d = c THEN {p} ELSE HoldersOf(d)
    BY <2>1 DEF HoldersOf, Holds, Counted
  <2>3. TypeOK'
    BY DEF Allocate
  <2>4. Shape'
    OBVIOUS
  <2>5. NoDangling'
    BY DEF NoDangling, Counted, Allocate
  <2>6. SoleHolder'
    <3>1. ASSUME NEW q \in Pointer, pc[q] = "write" PROVE ptr[q] # c
      <4>1. HoldersOf(ptr[q]) = {q}
        BY <3>1 DEF SoleHolder
      <4> QED
        BY <4>1, <2>1
    <3>2. ASSUME NEW q \in Pointer, pc[q] \in {"cloned", "swap"} PROVE fresh[q] # c
      <4>1. HoldersOf(fresh[q]) = {q}
        BY <3>2 DEF SoleHolder
      <4> QED
        BY <4>1, <2>1
    <3> QED
      BY <2>2, <3>1, <3>2 DEF SoleHolder
  <2>7. CountExact' /\ DeletedOnce'
    <3>1. UNCHANGED dead
      OBVIOUS
    <3> HIDE DEF IInv, TypeOK, Shape, State, Create
    <3> QED
      BY <2>2, <3>1, NewData
  <2>8. CloneEqual'
    BY DEF CloneEqual, NoDangling, Counted, Allocate
  <2> QED
    BY <2>3, <2>4, <2>5, <2>6, <2>7, <2>8
<1> QED
  BY <1>1, <1>2

(* detachOrInitialize() of a null pointer. *)
LEMMA InitializeInvariant ==
  ASSUME IInv, NEW p \in Pointer, Detach(p), ptr[p] = NoData
  PROVE  IInv'
<1> USE SharedAssumption DEF IInv, TypeOK, Shape, State, Detach, Unread
<1>1. PICK c \in Data, v \in Value : Allocate(c, v) /\ ptr' = [ptr EXCEPT ![p] = c]
  OBVIOUS
<1> USE <1>1
<1>2. HoldersOf(c) = {}
  BY UnallocatedUnheld DEF Allocate
<1>3. \A d \in Data : HoldersOf(d)' = IF d = c THEN {p} ELSE HoldersOf(d)
  BY <1>2 DEF HoldersOf, Holds, Counted
<1>4. TypeOK'
  BY DEF Allocate
<1>5. Shape'
  OBVIOUS
<1>6. NoDangling'
  BY DEF NoDangling, Counted, Allocate
<1>7. SoleHolder'
  <2>1. ASSUME NEW q \in Pointer, pc[q] = "write" PROVE ptr[q] # c
    <3>1. q \in HoldersOf(ptr[q])
      BY <2>1 DEF SoleHolder
    <3> QED
      BY <3>1, <1>2
  <2>2. ASSUME NEW q \in Pointer, pc[q] \in {"cloned", "swap"} PROVE fresh[q] # c
    <3>1. q \in HoldersOf(fresh[q])
      BY <2>2 DEF SoleHolder
    <3> QED
      BY <3>1, <1>2
  <2> QED
    BY <1>3, <2>1, <2>2 DEF SoleHolder
<1>8. CountExact' /\ DeletedOnce'
  <2>1. UNCHANGED dead
    OBVIOUS
  <2> HIDE DEF IInv, TypeOK, Shape, State, Detach
  <2> QED
    BY <1>3, <2>1, NewData
<1>9. CloneEqual'
  BY DEF CloneEqual, NoDangling, Counted, Allocate
<1> QED
  BY <1>4, <1>5, <1>6, <1>7, <1>8, <1>9

LEMMA InitInvariant == Init => IInv
<1> SUFFICES ASSUME Init PROVE IInv
  OBVIOUS
<1> USE SharedAssumption DEF Init
<1>1. TypeOK /\ Shape
  BY DEF TypeOK, Shape, State
<1>2. NoDangling /\ SoleHolder /\ CountExact /\ CloneEqual
  BY DEF NoDangling, SoleHolder, CountExact, CloneEqual, Counted
<1>3. DeletedOnce
  BY DEF DeletedOnce
<1> QED
  BY <1>1, <1>2, <1>3 DEF IInv

LEMMA StepInvariant == IInv /\ [Next]_vars => IInv'
<1> SUFFICES ASSUME IInv, [Next]_vars PROVE IInv'
  OBVIOUS
<1>1. CASE UNCHANGED vars
  <2> USE <1>1 DEF vars, heap
  <2>1. \A d \in Data : HoldersOf(d)' = HoldersOf(d)
    BY DEF HoldersOf, Holds
  <2>2. CountExact' /\ DeletedOnce'
    BY <2>1, NoChange
  <2>3. TypeOK' /\ Shape' /\ NoDangling' /\ CloneEqual'
    BY DEF IInv, TypeOK, Shape, NoDangling, CloneEqual
  <2>4. SoleHolder'
    BY <2>1 DEF IInv, TypeOK, Shape, SoleHolder
  <2> QED
    BY <2>2, <2>3, <2>4 DEF IInv
<1>2. ASSUME NEW p \in Pointer, PointerNext(p)
      PROVE  IInv'
  BY <1>2, CreateInvariant, CopyInvariant, AssignInvariant, ShareInvariant, AssignSetInvariant,
     ClearInvariant, ClearEndInvariant, DetachInvariant, InitializeInvariant, CloneInvariant,
     ReleaseInvariant, SwapInvariant, PlainWriteInvariant, WriteThroughInvariant DEF PointerNext
<1> QED
  BY <1>1, <1>2 DEF Next

(* The inductive invariant of the counting protocol. *)
THEOREM SharingInvariant == Spec => []IInv
  BY InitInvariant, StepInvariant, PTL DEF Spec

(* The count of every data is the number of its holders. *)
THEOREM CountsExact == Spec => []CountExact
<1>1. IInv => CountExact
  BY DEF IInv
<1> QED
  BY <1>1, SharingInvariant, PTL

(* No thread uses data that has been deleted. *)
THEOREM NothingDangles == Spec => []NoDangling
<1>1. IInv => NoDangling
  BY DEF IInv
<1> QED
  BY <1>1, SharingInvariant, PTL

(* Detached data is private to the object that writes it. *)
THEOREM WritesPrivate == Spec => []WritesAlone
<1>1. ASSUME IInv PROVE WritesAlone
  <2> SUFFICES ASSUME NEW p \in Pointer, NEW q \in Pointer, pc[p] = "write", q # p,
                      pc[q] \in Counted \cup {"sharing"}
               PROVE  ptr[q] # ptr[p]
    BY DEF WritesAlone
  <2>1. HoldersOf(ptr[p]) = {p}
    BY <1>1 DEF IInv, SoleHolder
  <2>2. CASE pc[q] \in Counted
    BY <2>1, <2>2 DEF HoldersOf, Holds
  <2>3. CASE pc[q] = "sharing"
    <3>1. src[q] \in Pointer /\ pc[src[q]] = "idle" /\ ptr[src[q]] = ptr[q]
      BY <1>1, <2>3 DEF IInv, Shape
    <3>2. src[q] # p
      BY <3>1
    <3> QED
      BY <2>1, <3>1, <3>2 DEF HoldersOf, Holds, Counted
  <2> QED
    BY <2>2, <2>3
<1> QED
  BY <1>1, SharingInvariant, PTL

-----------------------------------------------------------------------------
(* Sharing is invisible. *)

(* The value of an object is in data that exists... *)
LEMMA ValueAllocated ==
  ASSUME IInv, NEW q \in Pointer, pc[q] \notin {"none", "drop"}
  PROVE  DataOf(q) \in allocated \cup {NoData}
BY DEF IInv, TypeOK, State, Shape, NoDangling, Counted, DataOf

(* ...and data with a single holder has the value of no other object. *)
LEMMA ValuePrivate ==
  ASSUME IInv, NEW p \in Pointer, NEW q \in Pointer, p # q,
         HoldersOf(ptr[p]) = {p}, Unread(p), pc[q] \notin {"none", "drop"}
  PROVE  DataOf(q) # ptr[p]
<1>2. \A r \in Pointer : Holds(r, ptr[p]) => r = p
  BY DEF HoldersOf
<1>3. CASE pc[q] \in Counted \cup {"swap"}
  BY <1>2, <1>3 DEF DataOf, Holds, Counted
<1>4. CASE pc[q] \in {"sharing", "assign"}
  <2>1. src[q] \in Pointer \ {p} /\ pc[src[q]] = "idle" /\ DataOf(q) = ptr[src[q]]
    BY <1>4 DEF IInv, Shape, DataOf, Unread
  <2> QED
    BY <1>2, <2>1 DEF Holds, Counted
<1> QED
  BY <1>3, <1>4 DEF IInv, TypeOK, State, Counted

LEMMA ValueType ==
  ASSUME IInv, NEW q \in Pointer
  PROVE  /\ ValueOf(q) \in Value \cup {Null, Absent}
         /\ ValueOf(q) = Absent <=> pc[q] \in {"none", "drop"}
<1>1. CASE pc[q] \in {"none", "drop"}
  BY <1>1 DEF ValueOf
<1>2. CASE pc[q] \notin {"none", "drop"}
  <2>1. DataOf(q) \in Data \cup {NoData}
    BY <1>2, ValueAllocated DEF IInv, TypeOK
  <2> QED
    BY <1>2, <2>1, SharedAssumption DEF ValueOf, IInv, TypeOK
<1> QED
  BY <1>1, <1>2

(* A step of p changes at most the value of p, and as ValueSemantics says. *)
LEMMA PointerRefines ==
  ASSUME ~HeldReferences, IInv, NEW p \in Pointer, PointerNext(p)
  PROVE  /\ \A q \in Pointer \ {p} : ValueOf(q)' = ValueOf(q)
         /\ \/ ValueOf(p)' = ValueOf(p)
            \/ ValueOf(p) = Absent /\ ValueOf(p)' \in Value \cup {Null}
            \/ \E q \in Pointer \ {p} : ValueOf(q) # Absent /\ ValueOf(p)' = ValueOf(q)
            \/ ValueOf(p) # Absent /\ ValueOf(p)' \in Value
            \/ ValueOf(p) # Absent /\ ValueOf(p)' = Absent
<1> DEFINE Others == \A q \in Pointer \ {p} : ValueOf(q)' = ValueOf(q)
<1> USE SharedAssumption DEF IInv, TypeOK, Shape, State
<1>1. CASE Create(p)
  <2>1. \A q \in Pointer \ {p}, d \in Data : d \in allocated => content'[d] = content[d]
    BY <1>1 DEF Create, Allocate, heap
  <2>2. Others
    BY <1>1, <2>1, ValueAllocated DEF Create, ValueOf, DataOf
  <2>3. ValueOf(p) = Absent /\ ValueOf(p)' \in Value \cup {Null}
    BY <1>1 DEF Create, Allocate, heap, ValueOf, DataOf
  <2> QED
    BY <2>2, <2>3
<1>2. ASSUME NEW q \in Pointer, Copy(p, q)
      PROVE  Others /\ q # p /\ ValueOf(q) # Absent /\ ValueOf(p)' = ValueOf(q)
  <2>1. Others
    BY <1>2 DEF Copy, heap, ValueOf, DataOf
  <2>2. q # p /\ ValueOf(q) # Absent
    BY <1>2, ValueType DEF Copy
  <2>3. ValueOf(p)' = ValueOf(q)
    BY <1>2 DEF Copy, heap, ValueOf, DataOf
  <2> QED
    BY <2>1, <2>2, <2>3
<1>3. ASSUME NEW q \in Pointer, Assign(p, q)
      PROVE  Others /\ q # p /\ ValueOf(q) # Absent /\ ValueOf(p)' = ValueOf(q)
  <2>1. Others
    BY <1>3 DEF Assign, ValueOf, DataOf
  <2>2. q # p /\ ValueOf(q) # Absent
    BY <1>3, ValueType DEF Assign
  <2>3. ValueOf(p)' = ValueOf(q)
    BY <1>3 DEF Assign, ValueOf, DataOf
  <2> QED
    BY <2>1, <2>2, <2>3
<1>4. CASE Share(p)
  BY <1>4 DEF Share, ValueOf, DataOf
<1>5. CASE AssignSet(p)
  BY <1>5 DEF AssignSet, ValueOf, DataOf
<1>6. CASE Clear(p)
  <2>1. Others
    BY <1>6 DEF Clear, Unread, ValueOf, DataOf
  <2>2. ValueOf(p) # Absent /\ ValueOf(p)' = Absent
    BY <1>6, ValueType DEF Clear, ValueOf
  <2> QED
    BY <2>1, <2>2
<1>7. CASE ClearEnd(p)
  BY <1>7 DEF ClearEnd, ValueOf, DataOf
<1>8. CASE Detach(p)
  <2>1. CASE ptr[p] # NoData
    BY <1>8, <2>1 DEF Detach, Unread, heap, ValueOf, DataOf
  <2>2. CASE ptr[p] = NoData
    <3>1. PICK c \in Data, v \in Value : Allocate(c, v) /\ ptr' = [ptr EXCEPT ![p] = c]
      BY <1>8, <2>2 DEF Detach
    <3>2. Others
      BY <1>8, <3>1, ValueAllocated DEF Detach, Unread, Allocate, ValueOf, DataOf
    <3>3. ValueOf(p) # Absent
      BY <1>8, ValueType DEF Detach
    <3>4. ValueOf(p)' \in Value
      BY <1>8, <2>2, <3>1 DEF Detach, Allocate, ValueOf, DataOf
    <3> QED
      BY <3>2, <3>3, <3>4
  <2> QED
    BY <2>1, <2>2
<1>9. CASE Clone(p)
  <2>1. PICK c \in Data : Allocate(c, content[ptr[p]])
    BY <1>9 DEF Clone
  <2> QED
    BY <1>9, <2>1, ValueAllocated DEF Clone, Allocate, ValueOf, DataOf
<1>10. CASE Release(p)
  BY <1>10 DEF Release, CloneEqual, ValueOf, DataOf
<1>11. CASE Swap(p)
  BY <1>11 DEF Swap, ValueOf, DataOf
<1>12. CASE Write(p)
  <2>a. HoldersOf(ptr[p]) = {p} /\ Unread(p)
    BY <1>12 DEF Write, SoleHolder, Unread
  <2>1. Others
    BY <1>12, <2>a, ValuePrivate DEF Write, ValueOf, DataOf
  <2>2. ValueOf(p) # Absent
    BY <1>12, ValueType DEF Write
  <2>3. ValueOf(p)' \in Value
    BY <1>12 DEF Write, ValueOf, DataOf
  <2> QED
    BY <2>1, <2>2, <2>3
<1>13. CASE WriteThrough(p)
  <2>a. HoldersOf(ptr[p]) = {p} /\ Unread(p) /\ ref[p] = ptr[p]
    BY <1>13 DEF WriteThrough
  <2>1. Others
    BY <1>13, <2>a, ValuePrivate DEF WriteThrough, ValueOf, DataOf
  <2>2. ValueOf(p) # Absent
    BY <1>13, ValueType DEF WriteThrough
  <2>3. ValueOf(p)' \in Value
    BY <1>13, <2>a DEF WriteThrough, ValueOf, DataOf
  <2> QED
    BY <2>1, <2>2, <2>3
<1> QED
  BY <1>1, <1>2, <1>3, <1>4, <1>5, <1>6, <1>7, <1>8, <1>9, <1>10, <1>11, <1>12, <1>13
  DEF PointerNext

(* SharedDataPointer implements ValueSemantics: whatever threads share the *)
(* data, each object behaves as if it had its own.                         *)
THEOREM SharingInvisible ==
  ASSUME ~HeldReferences
  PROVE  Spec => ValueSpec
<1> DEFINE val == [p \in Pointer |-> ValueOf(p)]
<1>1. Init => Values!Init
  BY DEF Init, Values!Init, ValueOf
<1>2. IInv /\ [Next]_vars => [Values!Next]_val
  <2> SUFFICES ASSUME IInv, [Next]_vars PROVE [Values!Next]_val
    OBVIOUS
  <2>1. CASE UNCHANGED vars
    BY <2>1 DEF vars, heap, ValueOf, DataOf
  <2>2. ASSUME NEW p \in Pointer, PointerNext(p)
        PROVE  [Values!Next]_val
    <3>1. val' = [val EXCEPT ![p] = ValueOf(p)']
      BY <2>2, PointerRefines
    <3>2. CASE ValueOf(p)' = ValueOf(p)
      BY <3>1, <3>2
    <3>3. CASE ValueOf(p) = Absent /\ ValueOf(p)' \in Value \cup {Null}
      BY <3>1, <3>3 DEF Values!Next, Values!Construct
    <3>4. CASE \E q \in Pointer \ {p} : ValueOf(q) # Absent /\ ValueOf(p)' = ValueOf(q)
      <4>1. PICK q \in Pointer \ {p} : ValueOf(q) # Absent /\ ValueOf(p)' = ValueOf(q)
        BY <3>4
      <4>2. Values!Copy(p, q)
        BY <3>1, <4>1 DEF Values!Copy
      <4> QED
        BY <4>2 DEF Values!Next
    <3>5. CASE ValueOf(p) # Absent /\ ValueOf(p)' \in Value
      BY <3>1, <3>5 DEF Values!Next, Values!Write
    <3>6. CASE ValueOf(p) # Absent /\ ValueOf(p)' = Absent
      BY <3>1, <3>6 DEF Values!Next, Values!Destroy
    <3> QED
      BY <2>2, <3>2, <3>3, <3>4, <3>5, <3>6, PointerRefines
  <2> QED
    BY <2>1, <2>2 DEF Next
<1>3. ValueSpec <=> Values!Init /\ [][Values!Next]_val
  BY DEF ValueSpec, Values!Spec
<1> QED
  BY <1>1, <1>2, <1>3, SharingInvariant, PTL DEF Spec
=============================================================================
