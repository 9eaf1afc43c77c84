----------------------------- MODULE SharedData -----------------------------
(***************************************************************************)
(* Implicitly shared data: SharedDataPointer over the atomic reference     *)
(* count of SharedDataBase, as String, Array, Variant and DateTime use it. *)
(* Each pointer object is used by one thread at a time; what threads share *)
(* is the data, whose count is all that synchronises them.  A pointer may  *)
(* be copied by any thread, and by several, while nobody changes it (the   *)
(* rule for const access to any C++ object).                               *)
(*                                                                         *)
(* Each action is one access to a count or to the data, with the private   *)
(* steps of the thread around it.                                          *)
(***************************************************************************)
EXTENDS Naturals, FiniteSets

CONSTANTS Pointer,         \* SharedDataPointer objects
          Data,            \* identities of SharedDataBase objects
          Value,           \* contents
          NoData,          \* a null m_d
          NoPointer,       \* no source of a copy
          Null,            \* the value of an object with a null m_d
          Absent,          \* the value of an object that does not exist
          HeldReferences   \* a T& of a non-const access is used after the object is copied

ASSUME SharedAssumption ==
  /\ IsFiniteSet(Pointer)
  /\ NoData \notin Data /\ NoPointer \notin Pointer
  /\ Absent \notin Value \cup {Null}
  /\ HeldReferences \in BOOLEAN

VARIABLES allocated,       \* data that exists
          count,           \* m_count of each data
          content,         \* what each data holds
          pc,              \* where the operation on each pointer is
          ptr,             \* m_d of each pointer
          src,             \* the pointer each one is copied or assigned from
          fresh,           \* the clone made by detach
          dead,            \* the data this pointer has to delete
          ref              \* the data a reference given out before points into

heap == <<allocated, count, content>>
vars == <<heap, pc, ptr, src, fresh, dead, ref>>

(* pc of a pointer:                                                        *)
(*   none    no object                    clone    detach saw count > 1    *)
(*   idle    no operation in progress     cloned   the deep copy is made   *)
(*   sharing m_d copied, not yet counted  swap     old data released       *)
(*   assign  old data released            write    detached, may be written*)
(*   drop    data released by clear()                                      *)
State == {"none", "idle", "sharing", "assign", "drop", "clone", "cloned", "swap", "write"}

(* The pointers that have counted a reference to d, or own it as a clone.  *)
Counted == {"idle", "clone", "cloned", "write"}
Holds(p, d) ==
  \/ pc[p] \in Counted /\ ptr[p] = d
  \/ pc[p] \in {"cloned", "swap"} /\ fresh[p] = d
HoldersOf(d) == {p \in Pointer : Holds(p, d)}

(* Nobody is copying from p. *)
Unread(p) == \A q \in Pointer : src[q] # p

Init ==
  /\ allocated = {}
  /\ count = [d \in Data |-> 0]
  /\ content \in [Data -> Value]
  /\ pc = [p \in Pointer |-> "none"]
  /\ ptr = [p \in Pointer |-> NoData]
  /\ src = [p \in Pointer |-> NoPointer]
  /\ fresh = [p \in Pointer |-> NoData]
  /\ dead = [p \in Pointer |-> NoData]
  /\ ref = [p \in Pointer |-> NoData]

-----------------------------------------------------------------------------

(* new T: SharedDataBase() sets the count to 1. *)
Allocate(d, v) ==
  /\ d \notin allocated
  /\ allocated' = allocated \cup {d}
  /\ count' = [count EXCEPT ![d] = 1]
  /\ content' = [content EXCEPT ![d] = v]

(* Mutant: the data is deleted whatever deref answers. *)
DerefDeleting(p, d) ==
  /\ count' = [count EXCEPT ![d] = @ - 1]
  /\ dead' = [dead EXCEPT ![p] = d]

(* --m_count: the pointer that brings it to 0 deletes the data. *)
Deref(p, d) ==
  /\ count' = [count EXCEPT ![d] = @ - 1]
  /\ dead' = [dead EXCEPT ![p] = IF count[d] = 1 THEN d ELSE NoData]

(* delete m_d, if deref told so. *)
Delete(p) ==
  /\ allocated' = allocated \ {dead[p]}
  /\ dead' = [dead EXCEPT ![p] = NoData]

(* A default constructed object has a null m_d, any other its own data. *)
Create(p) ==
  /\ pc[p] = "none"
  /\ pc' = [pc EXCEPT ![p] = "idle"]
  /\ \/ UNCHANGED <<heap, ptr>>
     \/ \E d \in Data, v \in Value :
          /\ Allocate(d, v)
          /\ ptr' = [ptr EXCEPT ![p] = d]
  /\ UNCHANGED <<src, fresh, dead, ref>>

(* Copy constructor: m_d(other.m_d)... *)
Copy(p, q) ==
  /\ pc[p] = "none" /\ pc[q] = "idle"
  /\ ptr' = [ptr EXCEPT ![p] = ptr[q]]
  /\ IF ptr[q] = NoData
     THEN pc' = [pc EXCEPT ![p] = "idle"] /\ UNCHANGED src
     ELSE pc' = [pc EXCEPT ![p] = "sharing"] /\ src' = [src EXCEPT ![p] = q]
  /\ UNCHANGED <<heap, fresh, dead, ref>>

(* Mutant: the copy is not counted. *)
ShareUncounted(p) ==
  /\ pc[p] = "sharing"
  /\ pc' = [pc EXCEPT ![p] = "idle"]
  /\ src' = [src EXCEPT ![p] = NoPointer]
  /\ UNCHANGED <<heap, ptr, fresh, dead, ref>>

(* ...then m_d->ref(), here and in the assignment. *)
Share(p) ==
  /\ pc[p] = "sharing"
  /\ count' = [count EXCEPT ![ptr[p]] = @ + 1]
  /\ pc' = [pc EXCEPT ![p] = "idle"]
  /\ src' = [src EXCEPT ![p] = NoPointer]
  /\ UNCHANGED <<allocated, content, ptr, fresh, dead, ref>>

(* operator=(const SharedDataPointer&): nothing to do when both share the  *)
(* same data; otherwise the old data is released first...                  *)
Assign(p, q) ==
  /\ p # q /\ pc[p] = "idle" /\ pc[q] = "idle" /\ Unread(p)
  /\ ptr[p] # ptr[q]
  /\ IF ptr[p] = NoData THEN UNCHANGED <<count, dead>> ELSE Deref(p, ptr[p])
  /\ pc' = [pc EXCEPT ![p] = "assign"]
  /\ src' = [src EXCEPT ![p] = q]
  /\ UNCHANGED <<allocated, content, ptr, fresh, ref>>

(* ...then deleted, and m_d = o.m_d. *)
AssignSet(p) ==
  /\ pc[p] = "assign"
  /\ Delete(p)
  /\ ptr' = [ptr EXCEPT ![p] = ptr[src[p]]]
  /\ IF ptr[src[p]] = NoData
     THEN pc' = [pc EXCEPT ![p] = "idle"] /\ src' = [src EXCEPT ![p] = NoPointer]
     ELSE pc' = [pc EXCEPT ![p] = "sharing"] /\ UNCHANGED src
  /\ UNCHANGED <<count, content, fresh, ref>>

(* clear(), in the destructor. *)
Clear(p) ==
  /\ pc[p] = "idle" /\ Unread(p)
  /\ IF ptr[p] = NoData THEN UNCHANGED <<count, dead>> ELSE Deref(p, ptr[p])
  /\ pc' = [pc EXCEPT ![p] = "drop"]
  /\ UNCHANGED <<allocated, content, ptr, src, fresh, ref>>

ClearEnd(p) ==
  /\ pc[p] = "drop"
  /\ Delete(p)
  /\ ptr' = [ptr EXCEPT ![p] = NoData]
  /\ ref' = [ref EXCEPT ![p] = NoData]
  /\ pc' = [pc EXCEPT ![p] = "none"]
  /\ UNCHANGED <<count, content, src, fresh>>

(* Mutant: the count is compared with the wrong number. *)
DetachTooLazily(p) ==
  /\ pc[p] = "idle" /\ Unread(p)
  /\ ptr[p] # NoData
  /\ pc' = [pc EXCEPT ![p] = IF count[ptr[p]] <= 2 THEN "write" ELSE "clone"]
  /\ UNCHANGED <<heap, ptr, src, fresh, dead, ref>>

(* detachOrInitialize(), before every non-const access: data nobody else   *)
(* uses is written in place, a null pointer gets new data...               *)
Detach(p) ==
  /\ pc[p] = "idle" /\ Unread(p)
  /\ \/ /\ ptr[p] # NoData
        /\ pc' = [pc EXCEPT ![p] = IF count[ptr[p]] = 1 THEN "write" ELSE "clone"]
        /\ UNCHANGED <<heap, ptr>>
     \/ /\ ptr[p] = NoData
        /\ \E d \in Data, v \in Value :
             /\ Allocate(d, v)
             /\ ptr' = [ptr EXCEPT ![p] = d]
        /\ pc' = [pc EXCEPT ![p] = "write"]
  /\ UNCHANGED <<src, fresh, dead, ref>>

(* ...and shared data is copied; clone() reads it while others may read it *)
(* too...                                                                  *)
Clone(p) ==
  /\ pc[p] = "clone"
  /\ \E d \in Data :
       /\ Allocate(d, content[ptr[p]])
       /\ fresh' = [fresh EXCEPT ![p] = d]
  /\ pc' = [pc EXCEPT ![p] = "cloned"]
  /\ UNCHANGED <<ptr, src, dead, ref>>

(* ...then released (by now this may be the last reference)...             *)
Release(p) ==
  /\ pc[p] = "cloned"
  /\ Deref(p, ptr[p])
  /\ pc' = [pc EXCEPT ![p] = "swap"]
  /\ UNCHANGED <<allocated, content, ptr, src, fresh, ref>>

(* ...and replaced. *)
Swap(p) ==
  /\ pc[p] = "swap"
  /\ Delete(p)
  /\ ptr' = [ptr EXCEPT ![p] = fresh[p]]
  /\ fresh' = [fresh EXCEPT ![p] = NoData]
  /\ pc' = [pc EXCEPT ![p] = "write"]
  /\ UNCHANGED <<count, content, src, ref>>

(* The access itself; what it returned may be kept. *)
Write(p) ==
  /\ pc[p] = "write"
  /\ \E v \in Value : content' = [content EXCEPT ![ptr[p]] = v]
  /\ ref' = [ref EXCEPT ![p] = ptr[p]]
  /\ pc' = [pc EXCEPT ![p] = "idle"]
  /\ UNCHANGED <<allocated, count, ptr, src, fresh, dead>>

(* A write through a reference or iterator obtained before, while the      *)
(* object still has the data it points into.  Nothing looks at the count:  *)
(* that the object has not been copied in the meantime is up to the caller.*)
WriteThrough(p) ==
  /\ pc[p] = "idle" /\ Unread(p)
  /\ ref[p] # NoData /\ ref[p] = ptr[p]
  /\ HeldReferences \/ HoldersOf(ref[p]) = {p}
  /\ \E v \in Value : content' = [content EXCEPT ![ref[p]] = v]
  /\ UNCHANGED <<allocated, count, pc, ptr, src, fresh, dead, ref>>

PointerNext(p) ==
  \/ Create(p)
  \/ \E q \in Pointer : Copy(p, q) \/ Assign(p, q)
  \/ Share(p) \/ AssignSet(p)
  \/ Clear(p) \/ ClearEnd(p)
  \/ Detach(p) \/ Clone(p) \/ Release(p) \/ Swap(p)
  \/ Write(p) \/ WriteThrough(p)

Next == \E p \in Pointer : PointerNext(p)

Spec == Init /\ [][Next]_vars

-----------------------------------------------------------------------------
(* Properties. *)

TypeOK ==
  /\ allocated \subseteq Data
  /\ count \in [Data -> Nat]
  /\ content \in [Data -> Value]
  /\ pc \in [Pointer -> State]
  /\ ptr \in [Pointer -> Data \cup {NoData}]
  /\ src \in [Pointer -> Pointer \cup {NoPointer}]
  /\ fresh \in [Pointer -> Data \cup {NoData}]
  /\ dead \in [Pointer -> Data \cup {NoData}]
  /\ ref \in [Pointer -> Data \cup {NoData}]

(* The reference count is exact at every moment: existing data has as many *)
(* holders as m_count says, and the data without holders is what some      *)
(* thread is about to delete (assert(0 == m_count) in ~SharedDataBase).    *)
(* So nothing leaks, and nothing is deleted while it is used.              *)
CountExact ==
  \A d \in allocated :
    /\ count[d] = Cardinality(HoldersOf(d))
    /\ HoldersOf(d) = {} => \E p \in Pointer : dead[p] = d

(* Data is deleted once: it exists until the one thread that saw its count *)
(* reach 0 deletes it.                                                     *)
DeletedOnce ==
  /\ \A p \in Pointer, d \in Data : dead[p] = d => d \in allocated /\ HoldersOf(d) = {}
  /\ \A p, q \in Pointer : dead[p] = dead[q] /\ dead[p] # NoData => p = q

(* The data a thread uses exists, also the data it has not counted yet.    *)
NoDangling ==
  \A p \in Pointer :
    /\ pc[p] \in Counted \cup {"sharing"} => ptr[p] \in allocated \cup {NoData}
    /\ pc[p] \in {"cloned", "swap"} => fresh[p] \in allocated

(* A thread writes only data that no other object uses, although it looked *)
(* at the count some steps before.                                         *)
WritesAlone ==
  \A p, q \in Pointer :
    pc[p] = "write" /\ q # p /\ pc[q] \in Counted \cup {"sharing"} => ptr[q] # ptr[p]

(* What the private variables of an operation are between its steps.       *)
Shape ==
  \A p \in Pointer :
    /\ pc[p] \in {"sharing", "clone", "cloned", "write"} => ptr[p] # NoData
    /\ pc[p] \in {"sharing", "assign"}
         => src[p] \in Pointer \ {p} /\ pc[src[p]] = "idle"
    /\ pc[p] = "sharing" => ptr[p] = ptr[src[p]]
    /\ pc[p] \notin {"sharing", "assign"} => src[p] = NoPointer
    /\ pc[p] = "none" => ptr[p] = NoData
    /\ pc[p] \in {"cloned", "swap"} <=> fresh[p] # NoData
    /\ dead[p] # NoData => pc[p] \in {"assign", "drop", "swap"}
  
(* The count was 1 when detach looked, and nobody could copy the pointer   *)
(* since; a clone is known only to the thread that made it.                *)
SoleHolder ==
  \A p \in Pointer :
    /\ pc[p] = "write" => HoldersOf(ptr[p]) = {p}
    /\ pc[p] \in {"cloned", "swap"} => HoldersOf(fresh[p]) = {p} /\ fresh[p] # ptr[p]

(* A clone still equals the data it was made from.                         *)
CloneEqual ==
  ~HeldReferences =>
    \A p \in Pointer : pc[p] = "cloned" => content[fresh[p]] = content[ptr[p]]

(* Inductive invariant of the counting protocol.                           *)
IInv ==
  /\ TypeOK
  /\ Shape
  /\ NoDangling
  /\ SoleHolder
  /\ CountExact
  /\ DeletedOnce
  /\ CloneEqual

(* The data that holds the value of p, in the midst of an operation too.   *)
DataOf(p) ==
  CASE pc[p] = "assign" -> ptr[src[p]]
    [] pc[p] = "swap"   -> fresh[p]
    [] OTHER            -> ptr[p]
ValueOf(p) ==
  IF pc[p] \in {"none", "drop"} THEN Absent
  ELSE IF DataOf(p) = NoData THEN Null
  ELSE content[DataOf(p)]

(* Sharing is invisible: see ValueSemantics.                               *)
Values == INSTANCE ValueSemantics WITH val <- [p \in Pointer |-> ValueOf(p)]
ValueSpec == Values!Spec
=============================================================================
