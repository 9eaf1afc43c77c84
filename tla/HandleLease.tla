---------------------------- MODULE HandleLease ----------------------------
(***************************************************************************)
(* What a pooled SQL connector promises its clients: a database handle is  *)
(* either idle in the pool or leased to exactly one transaction, a         *)
(* transaction keeps its handle until it gives it back, and the idle       *)
(* handles are closed only when nothing is leased.  ConnectionPool         *)
(* implements it with two handle lists, a registry, two mutexes and a      *)
(* condition variable.                                                     *)
(***************************************************************************)

CONSTANTS Handle,     \* identities of database handles
          Tx,         \* identities of transaction objects
          NoHandle    \* "this transaction holds no handle"

VARIABLES idle,       \* open handles no transaction holds
          lease       \* the handle each transaction holds

leaseVars == <<idle, lease>>

Leased == {lease[x] : x \in Tx} \ {NoHandle}

Init ==
  /\ idle = {}
  /\ lease = [x \in Tx |-> NoHandle]

(* A new connection to the database joins the pool. *)
Open(h) ==
  /\ h \notin idle \cup Leased
  /\ idle' = idle \cup {h}
  /\ UNCHANGED lease

(* Transaction x gets an idle handle for itself. *)
Acquire(x, h) ==
  /\ lease[x] = NoHandle
  /\ h \in idle
  /\ idle' = idle \ {h}
  /\ lease' = [lease EXCEPT ![x] = h]

(* Transaction x gives its handle back. *)
Release(x) ==
  /\ lease[x] # NoHandle
  /\ idle' = idle \cup {lease[x]}
  /\ lease' = [lease EXCEPT ![x] = NoHandle]

(* All connections are closed, which needs every lease to be over. *)
CloseAll ==
  /\ Leased = {}
  /\ idle' = {}
  /\ UNCHANGED lease

Next ==
  \/ \E h \in Handle : Open(h)
  \/ \E x \in Tx, h \in Handle : Acquire(x, h)
  \/ \E x \in Tx : Release(x)
  \/ CloseAll

Spec == Init /\ [][Next]_leaseVars
=============================================================================
