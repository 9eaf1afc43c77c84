------------------------ MODULE SqlTransactionProofs ------------------------
(***************************************************************************)
(* The connection pool is correct for any number of handles and            *)
(* transactions and any interleaving of their critical sections; and       *)
(* SqlTransaction, which uses it as it expects to be used, never returns   *)
(* the connection of an object with an automatic close mode inside a       *)
(* transaction block, whatever the database rejects.                       *)
(***************************************************************************)
EXTENDS SqlTransaction, FiniteSetTheorems, TLAPS

USE DEF TxState, Holding, AdminState

-----------------------------------------------------------------------------
(* The connection pool. *)

(* Initially nobody holds anything. *)
LEMMA PoolInitInv == PoolInit => PoolIInv
<1> SUFFICES ASSUME PoolInit PROVE PoolIInv
  OBVIOUS
<1> USE DEF PoolInit
<1>1. Holders = {}
  BY DEF Holders
<1>2. PoolTypeOK
  <2>1. poolSize \in 1 .. MaxPool /\ opened \in Nat /\ failures \in Nat
    BY PoolAssumption
  <2>2. pc \in [Tx -> TxState] /\ handle \in [Tx -> Handle \cup {NoHandle}]
    OBVIOUS
  <2>3. QED BY <2>1, <2>2 DEF PoolTypeOK
<1>3. HandleIffHolding /\ Exclusive
  BY <1>1 DEF HandleIffHolding, Exclusive
<1>4. NoLostWakeup /\ Registered /\ ClientsConnected
  BY DEF NoLostWakeup, Registered, ClientsConnected
<1>5. QED BY <1>2, <1>3, <1>4 DEF PoolIInv

(* What taking a free handle does to the lists. *)
LEMMA TakeInv ==
  ASSUME PoolIInv, NEW x \in Tx, pc[x] \in {"out", "woken"}, connected,
         TakeHandle(x), UNCHANGED <<adminVars, transactions, program>>
  PROVE  PoolIInv'
<1> USE DEF PoolIInv
<1>1. PICK h \in free :
        /\ free' = free \ {h}
        /\ used' = used \cup {h}
        /\ handle' = [handle EXCEPT ![x] = h]
        /\ pc' = [pc EXCEPT ![x] = "taken"]
  BY DEF TakeHandle
<1>2. h \in Handle /\ h # NoHandle /\ h \notin used
  BY PoolAssumption DEF PoolTypeOK, Exclusive
<1>3. PoolTypeOK'
  BY <1>1, <1>2 DEF PoolTypeOK, adminVars
<1>4. Holders' = Holders \cup {x} /\ x \notin Holders
  BY <1>1 DEF Holders, PoolTypeOK
<1>5. \A y \in Holders : handle'[y] = handle[y]
  BY <1>1, <1>4 DEF Holders, PoolTypeOK
<1>6. handle'[x] = h
  BY <1>1 DEF PoolTypeOK
<1>7. HandleIffHolding'
  BY <1>1, <1>2, <1>4, <1>6 DEF HandleIffHolding, PoolTypeOK
<1>8. Exclusive'
  <2>1. used' = {handle'[y] : y \in Holders'}
    BY <1>1, <1>4, <1>5, <1>6 DEF Exclusive
  <2>2. ASSUME NEW y \in Holders', NEW z \in Holders', handle'[y] = handle'[z]
        PROVE  y = z
    BY <2>2, <1>2, <1>4, <1>5, <1>6 DEF Exclusive
  <2>3. (free \cap used = {})'
    BY <1>1, <1>2 DEF Exclusive
  <2>4. QED BY <2>1, <2>2, <2>3 DEF Exclusive
<1>9. NoLostWakeup'
  BY <1>1 DEF NoLostWakeup, PoolTypeOK
<1>10. Registered'
  BY <1>1 DEF Registered, PoolTypeOK
<1>11. ClientsConnected'
  BY <1>1 DEF ClientsConnected, adminVars, PoolTypeOK
<1>12. QED BY <1>3, <1>7, <1>8, <1>9, <1>10, <1>11

(* Steps of a client that move it between two states without touching a    *)
(* handle list: into and out of the wait, and through the registry.        *)
LEMMA MoveInv ==
  ASSUME PoolIInv, NEW x \in Tx, connected,
         NEW s \in TxState, pc' = [pc EXCEPT ![x] = s],
         s \in Holding <=> pc[x] \in Holding,
         s = "waiting" => free = {},
         transactions' = IF s = "open" THEN transactions \cup {x} ELSE transactions \ {x},
         UNCHANGED <<adminVars, handle, free, used, program>>
  PROVE  PoolIInv'
<1> USE DEF PoolIInv
<1>1. PoolTypeOK'
  BY DEF PoolTypeOK, adminVars
<1>2. Holders' = Holders
  BY DEF Holders, PoolTypeOK
<1>3. HandleIffHolding' /\ Exclusive'
  BY <1>2 DEF HandleIffHolding, Exclusive
<1>4. NoLostWakeup'
  BY DEF NoLostWakeup, PoolTypeOK
<1>5. Registered'
  BY DEF Registered, PoolTypeOK
<1>6. ClientsConnected'
  BY DEF ClientsConnected, adminVars, PoolTypeOK
<1>7. QED BY <1>1, <1>3, <1>4, <1>5, <1>6

(* The second critical section of closeTransaction. *)
LEMMA ReturnInv ==
  ASSUME PoolIInv, NEW x \in Tx, CloseReturn(x)
  PROVE  PoolIInv'
<1> USE DEF PoolIInv
<1>1. /\ used' = used \ {handle[x]}
      /\ free' = free \cup {handle[x]}
      /\ handle' = [handle EXCEPT ![x] = NoHandle]
      /\ pc' = [y \in Tx |-> IF y = x THEN "out"
                             ELSE IF pc[y] = "waiting" THEN "woken" ELSE pc[y]]
      /\ UNCHANGED <<adminVars, transactions, program>>
      /\ pc[x] = "closing" /\ connected
  BY DEF CloseReturn, Callable
<1>2. handle[x] \in Handle
  BY DEF CloseReturn, PoolTypeOK
<1>3. PoolTypeOK'
  BY <1>1, <1>2 DEF PoolTypeOK, adminVars
<1>4. Holders' = Holders \ {x} /\ x \in Holders
  BY <1>1 DEF Holders, PoolTypeOK
<1>5. \A y \in Holders' : handle'[y] = handle[y] /\ handle[y] # handle[x]
  BY <1>1, <1>4 DEF Holders, PoolTypeOK, Exclusive
<1>6. HandleIffHolding'
  BY <1>1, <1>4 DEF HandleIffHolding, PoolTypeOK
<1>7. Exclusive'
  <2>1. used' = {handle'[y] : y \in Holders'}
    BY <1>1, <1>4, <1>5 DEF Exclusive
  <2>2. (\A y, z \in Holders : handle[y] = handle[z] => y = z)'
    BY <1>4, <1>5 DEF Exclusive
  <2>3. (free \cap used = {})'
    BY <1>1 DEF Exclusive
  <2>4. QED BY <2>1, <2>2, <2>3 DEF Exclusive
<1>8. NoLostWakeup'
  BY <1>1 DEF NoLostWakeup, PoolTypeOK
<1>9. Registered'
  BY <1>1 DEF Registered, PoolTypeOK
<1>10. ClientsConnected'
  BY <1>1 DEF ClientsConnected, adminVars
<1>11. QED BY <1>3, <1>6, <1>7, <1>8, <1>9, <1>10

(* The owning thread never gives a client a handle or takes one away. *)
LEMMA AdminInv ==
  ASSUME PoolIInv, AdminNext
  PROVE  PoolIInv'
<1> USE DEF PoolIInv
<1>1. UNCHANGED <<clientVars, used>>
  BY DEF AdminNext, SetConnectionPooling, ConnectStart, ConnectOpen, ConnectFail,
     ConnectDone, DisconnectCheck, DisconnectClose, Destroy
<1>2. PoolTypeOK'
  <2>1. /\ connected' \in BOOLEAN /\ admin' \in AdminState
        /\ program' \in {"running", "aborted", "terminated"}
        /\ free' \subseteq Handle
    BY DEF PoolTypeOK, AdminNext, SetConnectionPooling, ConnectStart, ConnectOpen,
       ConnectFail, ConnectDone, DisconnectCheck, DisconnectClose, Destroy
  <2>2. poolSize' \in 1 .. MaxPool
    BY DEF PoolTypeOK, AdminNext, SetConnectionPooling, ConnectStart, ConnectOpen,
       ConnectFail, ConnectDone, DisconnectCheck, DisconnectClose, Destroy
  <2>3. opened' \in Nat /\ failures' \in Nat
    BY DEF PoolTypeOK, AdminNext, SetConnectionPooling, ConnectStart, ConnectOpen,
       ConnectFail, ConnectDone, DisconnectCheck, DisconnectClose, Destroy
  <2>4. QED BY <1>1, <2>1, <2>2, <2>3 DEF PoolTypeOK, clientVars
<1>3. HandleIffHolding'
  BY <1>1 DEF HandleIffHolding, Holders, clientVars
<1>4. free' \cap used = {}
  BY DEF Exclusive, AdminNext, SetConnectionPooling, ConnectStart, ConnectOpen,
     ConnectFail, ConnectDone, DisconnectCheck, DisconnectClose, Destroy
<1>5. Exclusive'
  BY <1>1, <1>4 DEF Exclusive, Holders, clientVars
<1>6. ClientsConnected'
  BY <1>1 DEF ClientsConnected, clientVars, AdminNext, SetConnectionPooling, ConnectStart,
     ConnectOpen, ConnectFail, ConnectDone, DisconnectCheck, DisconnectClose, Destroy
<1>7. NoLostWakeup'
  <2>1. CASE \E h \in Handle : ConnectOpen(h)
    <3>1. \A y \in Tx : pc[y] = "out"
      BY <2>1 DEF ConnectOpen, ClientsConnected
    <3>2. QED BY <1>1, <3>1 DEF NoLostWakeup, clientVars
  <2>2. CASE ~\E h \in Handle : ConnectOpen(h)
    <3>1. free' \subseteq free
      BY <2>2 DEF AdminNext, SetConnectionPooling, ConnectStart, ConnectFail,
         ConnectDone, DisconnectCheck, DisconnectClose, Destroy
    <3>2. QED BY <1>1, <3>1 DEF NoLostWakeup, clientVars
  <2>3. QED BY <2>1, <2>2
<1>8. Registered'
  BY <1>1 DEF Registered, clientVars
<1>9. QED BY <1>2, <1>3, <1>5, <1>6, <1>7, <1>8

(* Every step of the pool preserves the inductive invariant. *)
LEMMA PoolNextInv == PoolIInv /\ [PoolNext]_poolVars => PoolIInv'
<1> SUFFICES ASSUME PoolIInv, [PoolNext]_poolVars PROVE PoolIInv'
  OBVIOUS
<1>1. CASE AdminNext
  BY <1>1, AdminInv
<1>2. ASSUME NEW x \in Tx, ClientNext(x) PROVE PoolIInv'
  <2>1. CASE CreateTake(x) \/ WakeTake(x)
    BY <2>1, TakeInv DEF CreateTake, WakeTake, Callable
  <2>2. CASE CreateWait(x) \/ WakeAgain(x)
    <3>1. x \notin transactions
      BY <2>2 DEF CreateWait, WakeAgain, PoolIInv, Registered
    <3>2. transactions' = transactions \ {x}
      BY <2>2, <3>1 DEF CreateWait, WakeAgain
    <3>3. QED
      BY <2>2, <3>2, MoveInv DEF CreateWait, WakeAgain, Callable
  <2>3. CASE SpuriousWake(x)
    <3>1. transactions' = transactions \ {x}
      BY <2>3 DEF SpuriousWake, PoolIInv, Registered
    <3>2. QED
      BY <2>3, <3>1, MoveInv DEF SpuriousWake, Callable
  <2>4. CASE CreateRegister(x)
    BY <2>4, MoveInv DEF CreateRegister, Callable
  <2>5. CASE CloseUnregister(x)
    BY <2>5, MoveInv DEF CloseUnregister, Callable
  <2>6. CASE CloseReturn(x)
    BY <2>6, ReturnInv
  <2>7. QED BY <1>2, <2>1, <2>2, <2>3, <2>4, <2>5, <2>6 DEF ClientNext
<1>3. CASE Terminate
  BY <1>3 DEF Terminate, PoolIInv, PoolTypeOK, HandleIffHolding, Exclusive, Holders,
     NoLostWakeup, Registered, ClientsConnected, adminVars, clientVars
<1>4. CASE UNCHANGED poolVars
  BY <1>4 DEF poolVars, PoolIInv, PoolTypeOK, HandleIffHolding, Exclusive, Holders,
     NoLostWakeup, Registered, ClientsConnected, adminVars, clientVars
<1>5. QED BY <1>1, <1>2, <1>3, <1>4 DEF PoolNext

(* The inductive invariant holds in every reachable state. *)
THEOREM PoolInvariant == PoolSpec => []PoolIInv
  BY PoolInitInv, PoolNextInv, PTL DEF PoolSpec

(* Type correctness of the connection pool. *)
THEOREM PoolTypeCorrect == PoolSpec => []PoolTypeOK
<1>1. PoolIInv => PoolTypeOK
  BY DEF PoolIInv
<1>2. QED BY <1>1, PoolInvariant, PTL

(* createTransaction() never gives a handle that another transaction has. *)
THEOREM PoolExclusive == PoolSpec => []Exclusive
<1>1. PoolIInv => Exclusive
  BY DEF PoolIInv
<1>2. QED BY <1>1, PoolInvariant, PTL

(* The exception of closeTransaction() is unreachable. *)
THEOREM CloseNeverThrows == PoolSpec => []CloseFindsHandle
<1>1. PoolIInv => CloseFindsHandle
  BY DEF PoolIInv, CloseFindsHandle, Exclusive, Holders
<1>2. QED BY <1>1, PoolInvariant, PTL

(* notify_all is never missed: no thread sleeps while a handle is free. *)
THEOREM WakeupsDelivered == PoolSpec => []NoLostWakeup
<1>1. PoolIInv => NoLostWakeup
  BY DEF PoolIInv
<1>2. QED BY <1>1, PoolInvariant, PTL

-----------------------------------------------------------------------------
(* How many connections there are. *)

(* Moving an element between two disjoint finite sets keeps their sizes'   *)
(* sum.                                                                    *)
LEMMA MoveKeepsSum ==
  ASSUME NEW S, NEW T, IsFiniteSet(S), IsFiniteSet(T), S \cap T = {}, NEW e \in S
  PROVE  /\ IsFiniteSet(S \ {e}) /\ IsFiniteSet(T \cup {e})
         /\ Cardinality(S \ {e}) + Cardinality(T \cup {e}) = Cardinality(S) + Cardinality(T)
<1>1. Cardinality(S) \in Nat /\ Cardinality(T) \in Nat
  BY FS_CardinalityType
<1>2. IsFiniteSet(S \ {e}) /\ Cardinality(S \ {e}) = Cardinality(S) - 1
  BY FS_RemoveElement
<1>3. e \notin T
  OBVIOUS
<1>4. IsFiniteSet(T \cup {e}) /\ Cardinality(T \cup {e}) = Cardinality(T) + 1
  BY <1>3, FS_AddElement
<1>5. QED BY <1>1, <1>2, <1>4

(* A client moves one handle between the two lists, or none.               *)
LEMMA ClientConserves ==
  ASSUME PoolIInv, Counted, Conserved, NEW x \in Tx, ClientNext(x)
  PROVE  Counted' /\ Conserved'
<1>1. connected /\ UNCHANGED adminVars
  BY DEF ClientNext, CreateTake, CreateWait, SpuriousWake, WakeTake, WakeAgain,
     CreateRegister, CloseUnregister, CloseReturn, Callable
<1>2. free \cap used = {}
  BY DEF PoolIInv, Exclusive
<1>3. /\ IsFiniteSet(free') /\ IsFiniteSet(used')
      /\ Cardinality(free') + Cardinality(used') = Cardinality(free) + Cardinality(used)
  <2>1. CASE CreateTake(x) \/ WakeTake(x)
    <3>1. PICK h \in free : free' = free \ {h} /\ used' = used \cup {h}
      BY <2>1 DEF CreateTake, WakeTake, TakeHandle
    <3>2. QED BY <3>1, <1>2, MoveKeepsSum DEF Counted
  <2>2. CASE CloseReturn(x)
    <3>1. handle[x] \in used /\ used' = used \ {handle[x]} /\ free' = free \cup {handle[x]}
      BY <2>2 DEF CloseReturn
    <3>2. used \cap free = {}
      BY <1>2
    <3>3. /\ IsFiniteSet(free') /\ IsFiniteSet(used')
          /\ Cardinality(used') + Cardinality(free') = Cardinality(used) + Cardinality(free)
      BY <3>1, <3>2, MoveKeepsSum DEF Counted
    <3>4. /\ Cardinality(used) \in Nat /\ Cardinality(free) \in Nat
          /\ Cardinality(used') \in Nat /\ Cardinality(free') \in Nat
      BY <3>3, FS_CardinalityType DEF Counted
    <3>5. QED BY <3>3, <3>4
  <2>3. CASE UNCHANGED <<free, used>>
    BY <2>3 DEF Counted
  <2>4. QED
    BY <2>1, <2>2, <2>3 DEF ClientNext, CreateWait, SpuriousWake, WakeAgain,
       CreateRegister, CloseUnregister
<1>4. Counted'
  BY <1>1, <1>3 DEF Counted, adminVars
<1>5. Conserved'
  BY <1>1, <1>3 DEF Conserved, adminVars
<1>6. QED BY <1>4, <1>5

(* The owner opens connections one by one before m_connected is set, and   *)
(* closes all of them or none.                                             *)
LEMMA AdminConserves ==
  ASSUME PoolIInv, Counted, Conserved, AdminNext
  PROVE  Counted' /\ Conserved'
<1> USE DEF Counted, Conserved
<1>1. UNCHANGED used
  BY DEF AdminNext, SetConnectionPooling, ConnectStart, ConnectOpen, ConnectFail,
     ConnectDone, DisconnectCheck, DisconnectClose, Destroy
<1>2. /\ Cardinality(free) \in Nat /\ Cardinality(used) \in Nat
      /\ opened \in Nat /\ failures \in Nat
  BY FS_CardinalityType DEF PoolIInv, PoolTypeOK
<1>3. IsFiniteSet({}) /\ Cardinality({}) = 0
  BY FS_EmptySet
<1>4. CASE \E n \in 0 .. MaxPool + 1 : SetConnectionPooling(n)
  BY <1>4, <1>1 DEF SetConnectionPooling
<1>5. CASE ConnectStart
  BY <1>5, <1>1, <1>2 DEF ConnectStart
<1>6. ASSUME NEW h \in Handle, ConnectOpen(h) PROVE Counted' /\ Conserved'
  <2>1. ~connected
    BY <1>6 DEF ConnectOpen, PoolIInv, ClientsConnected
  <2>2. IsFiniteSet(free') /\ Cardinality(free') = Cardinality(free) + 1
    BY <1>6, FS_AddElement DEF ConnectOpen
  <2>3. QED BY <1>1, <1>2, <1>6, <2>1, <2>2 DEF ConnectOpen
<1>7. CASE ConnectFail
  <2>1. ~connected
    BY <1>7 DEF ConnectFail, PoolIInv, ClientsConnected
  <2>2. QED BY <1>1, <1>2, <1>7, <2>1 DEF ConnectFail
<1>8. CASE ConnectDone
  <2>1. ~connected
    BY <1>8 DEF ConnectDone, PoolIInv, ClientsConnected
  <2>2. QED BY <1>1, <1>2, <1>3, <1>8, <2>1 DEF ConnectDone
<1>9. CASE DisconnectCheck
  BY <1>9, <1>1 DEF DisconnectCheck
<1>10. CASE DisconnectClose
  <2>1. connected
    BY <1>10 DEF DisconnectClose
  <2>2. CASE used # {} /\ ~NDebug
    BY <2>1, <2>2, <1>1, <1>10 DEF DisconnectClose
  <2>3. CASE ~(used # {} /\ ~NDebug)
    BY <2>1, <2>3, <1>1, <1>3, <1>10 DEF DisconnectClose
  <2>4. QED BY <2>2, <2>3
<1>11. CASE Destroy
  <2>1. CASE connected /\ transactions = {}
    <3>1. used = {}
      BY <2>1, <1>11 DEF Destroy, PoolIInv, Registered, Exclusive, Holders
    <3>2. QED BY <1>1, <1>3, <1>11, <2>1, <3>1 DEF Destroy
  <2>2. CASE ~(connected /\ transactions = {})
    BY <2>2, <1>1, <1>11 DEF Destroy
  <2>3. QED BY <2>1, <2>2
<1>12. QED
  BY <1>4, <1>5, <1>6, <1>7, <1>8, <1>9, <1>10, <1>11 DEF AdminNext

(* The critical sections neither lose a connection nor make one: with      *)
(* assert() compiled in, the two lists together hold what connect() opened *)
(* or, after disconnect(), nothing; only what an earlier failed connect()  *)
(* left behind can add to it.                                              *)
THEOREM ConnectionsConserved == PoolSpec => []Conserved
<1>1. PoolInit => Counted /\ Conserved
  BY FS_EmptySet DEF PoolInit, Counted, Conserved
<1>2. PoolIInv /\ Counted /\ Conserved /\ [PoolNext]_poolVars => Counted' /\ Conserved'
  <2> SUFFICES ASSUME PoolIInv, Counted, Conserved, [PoolNext]_poolVars
               PROVE  Counted' /\ Conserved'
    OBVIOUS
  <2>1. CASE AdminNext
    BY <2>1, AdminConserves
  <2>2. CASE \E x \in Tx : ClientNext(x)
    BY <2>2, ClientConserves
  <2>3. CASE Terminate \/ UNCHANGED poolVars
    BY <2>3 DEF Terminate, Counted, Conserved, adminVars, poolVars
  <2>4. QED BY <2>1, <2>2, <2>3 DEF PoolNext
<1>3. QED BY <1>1, <1>2, PoolInvariant, PTL DEF PoolSpec

-----------------------------------------------------------------------------
(* Refinement. *)

(* The leased handles of the abstract pool are m_usedDbHandles. *)
LEMMA LeasedIsUsed == PoolIInv => Lease!Leased = used
<1> SUFFICES ASSUME PoolIInv PROVE Lease!Leased = used
  OBVIOUS
<1>1. \A x \in Tx : handle[x] # NoHandle <=> x \in Holders
  BY DEF PoolIInv, HandleIffHolding
<1>2. \A x \in Holders : x \in Tx
  BY DEF Holders
<1>3. {handle[x] : x \in Tx} \ {NoHandle} = {handle[x] : x \in Holders}
  BY <1>1, <1>2
<1>4. QED BY <1>3 DEF Lease!Leased, PoolIInv, Exclusive

(* The owner opens one handle at a time and, where assert() is compiled    *)
(* in, closes them only when none is used.                                 *)
LEMMA AdminRefines ==
  ASSUME PoolIInv, ~NDebug, AdminNext
  PROVE  [Lease!Next]_(Lease!leaseVars)
<1>1. UNCHANGED <<clientVars, used>>
  BY DEF AdminNext, SetConnectionPooling, ConnectStart, ConnectOpen, ConnectFail,
     ConnectDone, DisconnectCheck, DisconnectClose, Destroy
<1>2. UNCHANGED handle
  BY <1>1 DEF clientVars
<1>3. Lease!Leased = used
  BY LeasedIsUsed
<1>4. CASE \E h \in Handle : ConnectOpen(h)
  <2>1. PICK h \in Handle : ConnectOpen(h)
    BY <1>4
  <2>2. Lease!Open(h)
    BY <2>1, <1>2, <1>3 DEF ConnectOpen, Lease!Open
  <2>3. QED BY <2>2 DEF Lease!Next
<1>5. CASE DisconnectClose
  <2>1. CASE used # {}
    BY <2>1, <1>2, <1>5 DEF DisconnectClose, Lease!leaseVars
  <2>2. CASE used = {}
    <3>1. Lease!CloseAll
      BY <2>2, <1>2, <1>3, <1>5 DEF DisconnectClose, Lease!CloseAll
    <3>2. QED BY <3>1 DEF Lease!Next
  <2>3. QED BY <2>1, <2>2
<1>6. CASE Destroy
  <2>1. CASE connected /\ transactions = {}
    <3>1. \A x \in Tx : pc[x] = "out"
      BY <2>1, <1>6 DEF Destroy, PoolIInv, Registered
    <3>2. used = {}
      BY <3>1 DEF PoolIInv, Exclusive, Holders
    <3>3. Lease!CloseAll
      BY <2>1, <3>2, <1>2, <1>3, <1>6 DEF Destroy, Lease!CloseAll
    <3>4. QED BY <3>3 DEF Lease!Next
  <2>2. CASE ~(connected /\ transactions = {})
    BY <2>2, <1>2, <1>6 DEF Destroy, Lease!leaseVars
  <2>3. QED BY <2>1, <2>2
<1>7. CASE UNCHANGED free
  BY <1>2, <1>7 DEF Lease!leaseVars
<1>8. QED
  BY <1>4, <1>5, <1>6, <1>7 DEF AdminNext, SetConnectionPooling, ConnectStart,
     ConnectFail, ConnectDone, DisconnectCheck

(* A transaction that takes a handle acquires a lease. *)
LEMMA TakeRefines ==
  ASSUME PoolIInv, NEW x \in Tx, pc[x] \in {"out", "woken"}, TakeHandle(x)
  PROVE  Lease!Next
<1>1. PICK h \in free : /\ free' = free \ {h}
                        /\ handle' = [handle EXCEPT ![x] = h]
  BY DEF TakeHandle
<1>2. h \in Handle
  BY DEF PoolIInv, PoolTypeOK
<1>3. handle[x] = NoHandle
  BY DEF PoolIInv, HandleIffHolding, Holders
<1>4. Lease!Acquire(x, h)
  BY <1>1, <1>2, <1>3 DEF Lease!Acquire
<1>5. QED BY <1>2, <1>4 DEF Lease!Next

(* Every step of the pool is a step of the lease specification or leaves   *)
(* its variables alone.                                                    *)
LEMMA StepRefines ==
  ASSUME PoolIInv, ~NDebug, [PoolNext]_poolVars
  PROVE  [Lease!Next]_(Lease!leaseVars)
<1>1. CASE AdminNext
  BY <1>1, AdminRefines
<1>2. ASSUME NEW x \in Tx, ClientNext(x) PROVE [Lease!Next]_(Lease!leaseVars)
  <2>1. CASE CreateTake(x) \/ WakeTake(x)
    BY <2>1, TakeRefines DEF CreateTake, WakeTake
  <2>2. CASE CloseReturn(x)
    <3>1. handle[x] # NoHandle
      BY <2>2 DEF CloseReturn, PoolIInv, HandleIffHolding, Holders
    <3>2. Lease!Release(x)
      BY <2>2, <3>1 DEF CloseReturn, Lease!Release
    <3>3. QED BY <3>2 DEF Lease!Next
  <2>3. CASE UNCHANGED <<handle, free>>
    BY <2>3 DEF Lease!leaseVars
  <2>4. QED
    BY <1>2, <2>1, <2>2, <2>3 DEF ClientNext, CreateWait, SpuriousWake, WakeAgain,
       CreateRegister, CloseUnregister
<1>3. CASE Terminate \/ UNCHANGED poolVars
  BY <1>3 DEF Terminate, poolVars, clientVars, Lease!leaseVars
<1>4. QED BY <1>1, <1>2, <1>3 DEF PoolNext

(* With assert() compiled in, the connector implements the lease           *)
(* specification: exclusive leases, and no connection closed under a user. *)
THEOREM PoolImplementsLease == ~NDebug => (PoolSpec => LeaseSpec)
<1> SUFFICES ASSUME ~NDebug PROVE PoolSpec => LeaseSpec
  OBVIOUS
<1>1. PoolInit => Lease!Init
  BY DEF PoolInit, Lease!Init
<1>2. PoolIInv /\ [PoolNext]_poolVars => [Lease!Next]_(Lease!leaseVars)
  BY StepRefines
<1>3. QED BY <1>1, <1>2, PoolInvariant, PTL DEF PoolSpec, LeaseSpec, Lease!Spec

-----------------------------------------------------------------------------
(* SqlTransaction objects over the pool. *)

(* Every step of the program is a step of the pool or leaves it alone.     *)
LEMMA NextIsPoolStep == [Next]_vars => [PoolNext]_poolVars
<1> SUFFICES ASSUME [Next]_vars PROVE [PoolNext]_poolVars
  OBVIOUS
<1>1. CASE Admin
  BY <1>1 DEF Admin, PoolNext
<1>2. ASSUME NEW x \in Tx, ThreadStep(x) PROVE [PoolNext]_poolVars
  <2>1. CASE Construct(x) \/ Creating(x) \/ Close(x)
    <3>1. ClientNext(x)
      BY <2>1 DEF Construct, Creating, Close, ClientNext
    <3>2. QED BY <3>1 DEF PoolNext
  <2>2. CASE ConstructEnd(x) \/ Begin(x) \/ EndBlock(x)
    BY <2>2 DEF ConstructEnd, Begin, EndBlock
  <2>3. CASE Destruct(x)
    <3>1. CASE UNCHANGED program
      BY <2>3, <3>1 DEF Destruct, poolVars
    <3>2. CASE Terminate
      BY <3>2 DEF PoolNext
    <3>3. QED BY <2>3, <3>1, <3>2 DEF Destruct
  <2>4. QED BY <1>2, <2>1, <2>2, <2>3 DEF ThreadStep
<1>3. CASE UNCHANGED vars
  BY <1>3 DEF vars
<1>4. QED BY <1>1, <1>2, <1>3 DEF Next

(* The objects are clients of the connection pool.                         *)
THEOREM UsesPool == Spec => PoolSpec
<1>1. Init => PoolInit
  BY DEF Init
<1>2. QED BY <1>1, NextIsPoolStep, PTL DEF Spec, PoolSpec

LEMMA InitInv == Init => IInv
<1> SUFFICES ASSUME Init PROVE IInv
  OBVIOUS
<1>1. PoolIInv
  BY PoolInitInv DEF Init
<1>2. TypeOK
  <2>1. left \in [Tx -> Nat] /\ faults \in Nat
    BY TransactionAssumption DEF Init
  <2>2. phase \in [Tx -> Phase] /\ started \in [Tx -> BOOLEAN]
        /\ mode \in [Tx -> Modes \cup {"rollback"}] /\ inBlock \subseteq Handle
    BY DEF Init, Phase
  <2>3. QED BY <1>1, <2>1, <2>2 DEF TypeOK, PoolIInv
<1>3. PhaseMatchesPool
  BY DEF Init, PoolInit, PhaseMatchesPool
<1>4. BlockOwned
  BY DEF Init, BlockOwned
<1>5. QED BY <1>1, <1>2, <1>3, <1>4 DEF IInv

(* What the database does to its set of open blocks. *)
LEMMA ExecKeepsOthers ==
  ASSUME NEW h \in Handle, NEW ok \in BOOLEAN, inBlock \subseteq Handle, faults \in Nat,
         ExecBegin(h, ok) \/ ExecEnd(h, ok)
  PROVE  /\ inBlock' \subseteq Handle /\ faults' \in Nat
         /\ \A g \in Handle : g # h => (g \in inBlock' <=> g \in inBlock)
<1>1. faults' \in Nat
  BY DEF ExecBegin, ExecEnd, Reject, dbVars
<1>2. inBlock' \in {inBlock, inBlock \cup {h}, inBlock \ {h}}
  BY DEF ExecBegin, ExecEnd, Reject, dbVars
<1>3. QED BY <1>1, <1>2

(* Types are preserved. *)
LEMMA NextTypeOK ==
  ASSUME IInv, PoolIInv', Next
  PROVE  TypeOK'
<1> USE TransactionAssumption DEF IInv
<1>0. PoolTypeOK'
  BY DEF PoolIInv
<1>1. CASE Admin
  BY <1>0, <1>1 DEF Admin, TypeOK, txVars
<1>2. ASSUME NEW x \in Tx, ThreadStep(x) PROVE TypeOK'
  <2>1. CASE Construct(x)
    <3>1. left' \in [Tx -> Nat]
      BY <2>1 DEF Construct, TypeOK
    <3>2. phase' \in [Tx -> Phase] /\ started' \in [Tx -> BOOLEAN]
      BY <2>1 DEF Construct, TypeOK, Phase
    <3>3. mode' \in [Tx -> Modes \cup {"rollback"}]
      BY <2>1 DEF Construct, TypeOK
    <3>4. QED BY <1>0, <2>1, <3>1, <3>2, <3>3 DEF Construct, TypeOK, dbVars
  <2>2. CASE Creating(x)
    BY <1>0, <2>2 DEF Creating, TypeOK, txVars, dbVars
  <2>3. CASE Close(x)
    BY <1>0, <2>3 DEF Close, TypeOK, dbVars, Phase
  <2>4. CASE ConstructEnd(x) \/ Begin(x) \/ EndBlock(x) \/ Destruct(x)
    <3>1. handle[x] \in Handle
      <4>1. pc[x] = "open"
        BY <2>4 DEF ConstructEnd, Begin, EndBlock, Destruct, PhaseMatchesPool
      <4>2. QED BY <4>1 DEF PoolIInv, PoolTypeOK, HandleIffHolding, Holders
    <3>2. \/ UNCHANGED dbVars
          \/ \E ok \in BOOLEAN : ExecBegin(handle[x], ok) \/ ExecEnd(handle[x], ok)
      BY <2>4 DEF ConstructEnd, Begin, EndBlock, Destruct
    <3>3. inBlock' \subseteq Handle /\ faults' \in Nat
      BY <3>1, <3>2, ExecKeepsOthers DEF TypeOK, dbVars
    <3>4. phase' \in [Tx -> Phase] /\ started' \in [Tx -> BOOLEAN] /\ UNCHANGED <<mode, left>>
      BY <2>4 DEF ConstructEnd, Begin, EndBlock, Destruct, TypeOK, Phase
    <3>5. QED BY <1>0, <3>3, <3>4 DEF TypeOK
  <2>5. QED BY <1>2, <2>1, <2>2, <2>3, <2>4 DEF ThreadStep
<1>3. QED BY <1>1, <1>2 DEF Next

(* The life of an object and the calls it makes stay in step.              *)
LEMMA NextPhase ==
  ASSUME IInv, Next
  PROVE  PhaseMatchesPool'
<1> USE DEF IInv
<1>1. CASE Admin
  <2>1. UNCHANGED <<pc, phase>>
    BY <1>1 DEF Admin, txVars, clientVars, AdminNext, SetConnectionPooling, ConnectStart,
       ConnectOpen, ConnectFail, ConnectDone, DisconnectCheck, DisconnectClose, Destroy
  <2>2. QED BY <2>1 DEF PhaseMatchesPool
<1>2. ASSUME NEW x \in Tx, ThreadStep(x) PROVE PhaseMatchesPool'
  <2> USE DEF PhaseMatchesPool, TypeOK, PoolTypeOK
  <2>1. CASE Construct(x)
    BY <2>1 DEF Construct, CreateTake, CreateWait, TakeHandle
  <2>2. CASE Creating(x)
    BY <2>2 DEF Creating, SpuriousWake, WakeTake, WakeAgain, CreateRegister, TakeHandle, txVars
  <2>3. CASE Close(x)
    <3>1. CASE CloseUnregister(x) /\ UNCHANGED phase
      BY <2>3, <3>1 DEF Close, CloseUnregister
    <3>2. CASE CloseReturn(x) /\ phase' = [phase EXCEPT ![x] = "none"]
      BY <2>3, <3>2 DEF CloseReturn
    <3>3. QED BY <2>3, <3>1, <3>2 DEF Close
  <2>4. CASE ConstructEnd(x)
    BY <2>4 DEF ConstructEnd, poolVars, clientVars
  <2>5. CASE Begin(x) \/ EndBlock(x)
    BY <2>5 DEF Begin, EndBlock, poolVars, clientVars
  <2>6. CASE Destruct(x)
    BY <2>6 DEF Destruct, clientVars
  <2>7. QED BY <1>2, <2>1, <2>2, <2>3, <2>4, <2>5, <2>6 DEF ThreadStep
<1>3. QED BY <1>1, <1>2 DEF Next

(* A step of x leaves the blocks on the connections of other objects.      *)
LEMMA OthersBlocks ==
  ASSUME IInv, NEW x \in Tx, handle[x] \in Handle, UNCHANGED handle, pc[x] = "open",
         \/ UNCHANGED dbVars
         \/ \E ok \in BOOLEAN : ExecBegin(handle[x], ok) \/ ExecEnd(handle[x], ok),
         NEW y \in Tx, y # x, phase[y] \in {"live", "dtor"}
  PROVE  (handle[y] \in inBlock)' <=> handle[y] \in inBlock
<1>1. x \in Holders /\ y \in Holders
  BY DEF IInv, PhaseMatchesPool, Holders
<1>2. handle[y] \in Handle /\ handle[y] # handle[x]
  BY <1>1 DEF IInv, PoolIInv, PoolTypeOK, Exclusive, HandleIffHolding
<1>3. inBlock \subseteq Handle /\ faults \in Nat
  BY DEF IInv, TypeOK
<1>4. CASE UNCHANGED dbVars
  BY <1>4 DEF dbVars
<1>5. ASSUME NEW ok \in BOOLEAN, ExecBegin(handle[x], ok) \/ ExecEnd(handle[x], ok)
      PROVE  (handle[y] \in inBlock)' <=> handle[y] \in inBlock
  BY <1>2, <1>3, <1>5, ExecKeepsOthers
<1>6. QED BY <1>4, <1>5

(* Blocks are opened and ended by the object that holds the connection.    *)
LEMMA NextBlock ==
  ASSUME IInv, Next
  PROVE  BlockOwned'
<1> DEFINE Owned(y) ==
      mode[y] # "manual" =>
        /\ started[y] => phase[y] = "live"
        /\ phase[y] \in {"live", "dtor"} /\ handle[y] \in inBlock => started[y]
<1>a. /\ \A y \in Tx : Owned(y)
      /\ phase \in [Tx -> Phase] /\ started \in [Tx -> BOOLEAN]
      /\ mode \in [Tx -> Modes \cup {"rollback"}]
      /\ handle \in [Tx -> Handle \cup {NoHandle}] /\ pc \in [Tx -> TxState]
  BY DEF IInv, BlockOwned, TypeOK, PoolTypeOK
<1> SUFFICES ASSUME NEW y \in Tx PROVE Owned(y)'
  BY DEF BlockOwned
<1>1. CASE Admin
  <2>1. UNCHANGED <<handle, phase, started, mode>> /\ inBlock' \subseteq inBlock
    BY <1>1 DEF Admin, txVars, clientVars, AdminNext, SetConnectionPooling, ConnectStart,
       ConnectOpen, ConnectFail, ConnectDone, DisconnectCheck, DisconnectClose, Destroy
  <2>2. QED BY <2>1, <1>a
<1>2. ASSUME NEW x \in Tx, ThreadStep(x) PROVE Owned(y)'
  <2>1. CASE Construct(x)
    <3>1. UNCHANGED inBlock /\ ~started'[x] /\ phase'[x] = "ctor"
      BY <2>1, <1>a DEF Construct, dbVars
    <3>2. y # x => /\ started'[y] = started[y] /\ phase'[y] = phase[y]
                   /\ handle'[y] = handle[y] /\ mode'[y] = mode[y]
      BY <2>1, <1>a DEF Construct, CreateTake, CreateWait, TakeHandle
    <3>3. QED BY <3>1, <3>2, <1>a
  <2>2. CASE Creating(x)
    <3>1. phase[x] \notin {"live", "dtor"}
      BY <2>2 DEF Creating, SpuriousWake, WakeTake, WakeAgain, CreateRegister, IInv,
         PhaseMatchesPool
    <3>2. UNCHANGED <<inBlock, started, phase, mode>>
      BY <2>2 DEF Creating, txVars, dbVars
    <3>3. y # x => handle'[y] = handle[y]
      BY <2>2, <1>a DEF Creating, SpuriousWake, WakeTake, WakeAgain, CreateRegister, TakeHandle
    <3>4. QED BY <3>1, <3>2, <3>3, <1>a
  <2>3. CASE Close(x)
    <3>1. UNCHANGED <<inBlock, started, mode>> /\ phase[x] = "dtor"
      BY <2>3 DEF Close, dbVars
    <3>2. y # x => phase'[y] = phase[y] /\ handle'[y] = handle[y]
      BY <2>3, <1>a DEF Close, CloseUnregister, CloseReturn
    <3>3. \/ phase'[x] = "none"
          \/ phase'[x] = phase[x] /\ handle'[x] = handle[x]
      BY <2>3, <1>a DEF Close, CloseUnregister, CloseReturn
    <3>4. QED BY <3>1, <3>2, <3>3, <1>a
  <2>4. CASE ConstructEnd(x) \/ Begin(x) \/ EndBlock(x) \/ Destruct(x)
    <3>1. UNCHANGED <<handle, mode>>
      BY <2>4 DEF ConstructEnd, Begin, EndBlock, Destruct, poolVars, clientVars
    <3>2. pc[x] = "open"
      BY <2>4 DEF ConstructEnd, Begin, EndBlock, Destruct, IInv, PhaseMatchesPool
    <3>3. handle[x] \in Handle
      BY <3>2 DEF IInv, PoolIInv, PoolTypeOK, HandleIffHolding, Holders
    <3>4. CASE y # x
      <4>1. started'[y] = started[y] /\ phase'[y] = phase[y]
        BY <2>4, <3>4, <1>a DEF ConstructEnd, Begin, EndBlock, Destruct
      <4>2. \/ UNCHANGED dbVars
            \/ \E ok \in BOOLEAN : ExecBegin(handle[x], ok) \/ ExecEnd(handle[x], ok)
        BY <2>4 DEF ConstructEnd, Begin, EndBlock, Destruct
      <4>3. phase[y] \in {"live", "dtor"} => ((handle[y] \in inBlock)' <=> handle[y] \in inBlock)
        BY <3>1, <3>2, <3>3, <3>4, <4>2, OthersBlocks
      <4>4. QED BY <3>1, <4>1, <4>3, <1>a
    <3>5. CASE y = x
      <4> HIDE DEF Owned
      <4>0. Owned(x)
        BY <1>a
      <4>1. CASE ConstructEnd(x)
        BY <4>0, <4>1, <3>1, <3>5, <1>a DEF ConstructEnd, ExecBegin, Owned
      <4>2. CASE Begin(x)
        BY <4>0, <4>2, <3>1, <3>5, <1>a DEF Begin, ExecBegin, Owned
      <4>3. CASE EndBlock(x)
        BY <4>0, <4>3, <3>1, <3>5, <1>a DEF EndBlock, ExecEnd, Reject, dbVars, Owned
      <4>4. CASE Destruct(x)
        BY <4>0, <4>4, <3>1, <3>5, <1>a DEF Destruct, ExecEnd, Reject, dbVars, Owned
      <4>5. QED BY <2>4, <4>1, <4>2, <4>3, <4>4
    <3>6. QED BY <3>4, <3>5
  <2>5. QED BY <1>2, <2>1, <2>2, <2>3, <2>4 DEF ThreadStep
<1>3. QED BY <1>1, <1>2 DEF Next

(* The inductive invariant holds in every reachable state. *)
THEOREM SessionInvariant == Spec => []IInv
<1>1. IInv /\ [Next]_vars => IInv'
  <2> SUFFICES ASSUME IInv, [Next]_vars PROVE IInv'
    OBVIOUS
  <2>1. PoolIInv'
    BY NextIsPoolStep, PoolNextInv DEF IInv
  <2>2. CASE Next
    BY <2>1, <2>2, NextTypeOK, NextPhase, NextBlock DEF IInv
  <2>3. CASE UNCHANGED vars
    BY <2>1, <2>3 DEF IInv, PoolIInv, TypeOK, PhaseMatchesPool, BlockOwned, vars, poolVars,
       clientVars, txVars, dbVars
  <2>4. QED BY <2>2, <2>3
<1>2. QED BY InitInv, <1>1, PTL DEF Spec

(* An automatic object gives back its connection outside any block.        *)
THEOREM ReturnedClean == Spec => []ReturnsClean
<1>1. IInv => ReturnsClean
  BY DEF IInv, BlockOwned, ReturnsClean
<1>2. QED BY <1>1, SessionInvariant, PTL

(* An object that reports no started transaction has none on the server.   *)
THEOREM StartedIsTrue == Spec => []NoForgottenBlock
<1>1. IInv => NoForgottenBlock
  BY DEF IInv, BlockOwned, NoForgottenBlock
<1>2. QED BY <1>1, SessionInvariant, PTL

(* Only the object that holds a connection opens and ends blocks on it, so *)
(* without faults a started block stays open until its object ends it.     *)
LEMMA StepKeepsStarted ==
  ASSUME IInv, StartedMeansBlock, Next
  PROVE  StartedMeansBlock'
<1> DEFINE Has(y) ==
      started[y] => /\ phase[y] # "ctor"
                    /\ phase[y] = "live" => handle[y] \in inBlock
<1>a. /\ faults \in Nat /\ inBlock \subseteq Handle
      /\ phase \in [Tx -> Phase] /\ started \in [Tx -> BOOLEAN]
      /\ handle \in [Tx -> Handle \cup {NoHandle}] /\ pc \in [Tx -> TxState]
  BY DEF IInv, TypeOK, PoolTypeOK
<1> SUFFICES ASSUME NEW y \in Tx, faults' = 0 PROVE Has(y)'
  BY DEF StartedMeansBlock
<1>1. CASE Admin
  <2>1. UNCHANGED <<handle, phase, started, used, faults, pc>>
    BY <1>1 DEF Admin, txVars, clientVars, AdminNext, SetConnectionPooling, ConnectStart,
       ConnectOpen, ConnectFail, ConnectDone, DisconnectCheck, DisconnectClose, Destroy
  <2>2. phase[y] = "live" => handle[y] \in used
    BY <1>a DEF IInv, PhaseMatchesPool, PoolIInv, Exclusive, Holders
  <2>3. QED BY <1>1, <2>1, <2>2 DEF Admin, StartedMeansBlock
<1>2. ASSUME NEW x \in Tx, ThreadStep(x) PROVE Has(y)'
  <2>1. CASE Construct(x)
    <3>1. UNCHANGED <<inBlock, faults>> /\ ~started'[x]
      BY <2>1, <1>a DEF Construct, dbVars
    <3>2. y # x => started'[y] = started[y] /\ phase'[y] = phase[y] /\ handle'[y] = handle[y]
      BY <2>1, <1>a DEF Construct, CreateTake, CreateWait, TakeHandle
    <3>3. QED BY <3>1, <3>2 DEF StartedMeansBlock
  <2>2. CASE Creating(x)
    <3>1. phase[x] # "live"
      BY <2>2 DEF Creating, SpuriousWake, WakeTake, WakeAgain, CreateRegister, IInv,
         PhaseMatchesPool
    <3>2. UNCHANGED <<inBlock, faults, started, phase>>
      BY <2>2 DEF Creating, txVars, dbVars
    <3>3. y # x => handle'[y] = handle[y]
      BY <2>2, <1>a DEF Creating, SpuriousWake, WakeTake, WakeAgain, CreateRegister, TakeHandle
    <3>4. QED BY <3>1, <3>2, <3>3 DEF StartedMeansBlock
  <2>3. CASE Close(x)
    <3>1. UNCHANGED <<inBlock, faults, started>> /\ phase'[x] \notin {"ctor", "live"}
      BY <2>3, <1>a DEF Close, dbVars, CloseUnregister, CloseReturn
    <3>2. y # x => phase'[y] = phase[y] /\ handle'[y] = handle[y]
      BY <2>3, <1>a DEF Close, CloseUnregister, CloseReturn
    <3>3. QED BY <3>1, <3>2 DEF StartedMeansBlock
  <2>4. CASE ConstructEnd(x) \/ Begin(x) \/ EndBlock(x) \/ Destruct(x)
    <3>1. UNCHANGED handle /\ pc[x] = "open"
      BY <2>4 DEF ConstructEnd, Begin, EndBlock, Destruct, poolVars, clientVars, IInv,
         PhaseMatchesPool
    <3>2. handle[x] \in Handle
      BY <3>1 DEF IInv, PoolIInv, PoolTypeOK, HandleIffHolding, Holders
    <3>3. \/ UNCHANGED dbVars
          \/ \E ok \in BOOLEAN : ExecBegin(handle[x], ok) \/ ExecEnd(handle[x], ok)
      BY <2>4 DEF ConstructEnd, Begin, EndBlock, Destruct
    <3>4. faults = 0
      BY <3>3, <1>a DEF ExecBegin, ExecEnd, Reject, dbVars
    <3>5. CASE y # x
      <4>1. started'[y] = started[y] /\ phase'[y] = phase[y]
        BY <2>4, <3>5, <1>a DEF ConstructEnd, Begin, EndBlock, Destruct
      <4>2. phase[y] = "live" => ((handle[y] \in inBlock)' <=> handle[y] \in inBlock)
        BY <3>1, <3>2, <3>3, <3>5, OthersBlocks
      <4>3. QED BY <3>1, <3>4, <4>1, <4>2 DEF StartedMeansBlock
    <3>6. CASE y = x
      <4>0. Has(x)
        BY <3>4 DEF StartedMeansBlock
      <4> HIDE DEF Has
      <4>a. ~Reject
        BY <3>4 DEF Reject
      <4>1. CASE ConstructEnd(x)
        <5>1. CASE mode[x] = "manual"
          <6>1. phase[x] = "ctor" /\ UNCHANGED started
            BY <4>1, <5>1 DEF ConstructEnd
          <6>2. ~started'[x]
            BY <6>1, <4>0 DEF Has
          <6>3. QED BY <6>2, <3>6 DEF Has
        <5>2. CASE mode[x] # "manual"
          BY <4>1, <5>2, <3>1, <3>6, <1>a DEF ConstructEnd, ExecBegin, Has
        <5>3. QED BY <5>1, <5>2
      <4>2. CASE Begin(x)
        BY <4>2, <3>1, <3>6, <1>a DEF Begin, ExecBegin, Has
      <4>3. CASE EndBlock(x)
        <5>1. PICK ok \in BOOLEAN : /\ ExecEnd(handle[x], ok)
                                   /\ started' = [started EXCEPT ![x] = ~ok]
                                   /\ started[x] /\ phase[x] = "live"
          BY <4>3 DEF EndBlock
        <5>2. ok
          BY <4>0, <5>1, <4>a DEF ExecEnd, Has
        <5>3. QED BY <5>1, <5>2, <3>6, <1>a DEF Has
      <4>4. CASE Destruct(x)
        <5>1. CASE started[x] /\ ExecEnd(handle[x], FALSE)
          BY <4>0, <4>4, <4>a, <5>1 DEF Destruct, ExecEnd, Has
        <5>2. CASE phase' = [phase EXCEPT ![x] = "dtor"]
          BY <5>2, <3>6, <1>a DEF Has
        <5>3. QED BY <4>4, <5>1, <5>2 DEF Destruct
      <4>5. QED BY <2>4, <4>1, <4>2, <4>3, <4>4
    <3>7. QED BY <3>5, <3>6
  <2>5. QED BY <1>2, <2>1, <2>2, <2>3, <2>4 DEF ThreadStep
<1>3. QED BY <1>1, <1>2 DEF Next

(* ~SqlTransaction ends the process only where it ends a block, and its    *)
(* COMMIT or ROLLBACK of an open block fails only when it is rejected.     *)
LEMMA StepTerminates ==
  ASSUME IInv, StartedMeansBlock, TerminatedByFault, Next
  PROVE  TerminatedByFault'
<1>a. faults \in Nat
  BY DEF IInv, TypeOK
<1>1. CASE Admin
  <2>1. program' = "terminated" => program = "terminated"
    BY <1>1 DEF Admin, AdminNext, SetConnectionPooling, ConnectStart, ConnectOpen,
       ConnectFail, ConnectDone, DisconnectCheck, DisconnectClose, Destroy
  <2>2. QED BY <1>1, <2>1 DEF Admin, TerminatedByFault
<1>2. ASSUME NEW x \in Tx, ThreadStep(x) PROVE TerminatedByFault'
  <2>1. CASE Destruct(x)
    <3>1. CASE UNCHANGED program
      BY <2>1, <3>1 DEF Destruct, TerminatedByFault
    <3>2. CASE started[x] /\ ExecEnd(handle[x], FALSE)
      <4>1. phase[x] = "live"
        BY <2>1 DEF Destruct
      <4>2. CASE faults = 0
        <5>1. handle[x] \in inBlock
          BY <3>2, <4>1, <4>2 DEF StartedMeansBlock
        <5>2. faults' = faults + 1
          BY <3>2, <5>1 DEF ExecEnd, Reject
        <5>3. QED BY <1>a, <5>2 DEF TerminatedByFault
      <4>3. CASE faults # 0
        BY <1>a, <3>2, <4>3 DEF ExecEnd, Reject, dbVars, TerminatedByFault
      <4>4. QED BY <4>2, <4>3
    <3>3. QED BY <2>1, <3>1, <3>2 DEF Destruct
  <2>2. CASE Construct(x) \/ Creating(x) \/ Close(x)
    BY <2>2 DEF TerminatedByFault, Construct, Creating, Close, dbVars, CreateTake, CreateWait,
       SpuriousWake, WakeTake, WakeAgain, CreateRegister, CloseUnregister, CloseReturn
  <2>3. CASE ConstructEnd(x) \/ Begin(x) \/ EndBlock(x)
    BY <2>3 DEF TerminatedByFault, ConstructEnd, Begin, EndBlock, poolVars
  <2>4. QED BY <1>2, <2>1, <2>2, <2>3 DEF ThreadStep
<1>3. QED BY <1>1, <1>2 DEF Next

(* Only a statement that the database rejected ends the process from       *)
(* within ~SqlTransaction.                                                 *)
THEOREM TerminatesOnlyByFault == Spec => []TerminatedByFault
<1>1. Init => StartedMeansBlock /\ TerminatedByFault
  BY DEF Init, PoolInit, StartedMeansBlock, TerminatedByFault
<1>2. IInv /\ StartedMeansBlock /\ TerminatedByFault /\ [Next]_vars
        => StartedMeansBlock' /\ TerminatedByFault'
  <2>1. CASE UNCHANGED vars
    BY <2>1 DEF StartedMeansBlock, TerminatedByFault, vars, poolVars, clientVars, txVars, dbVars
  <2>2. QED BY <2>1, StepKeepsStarted, StepTerminates
<1>3. QED BY <1>1, <1>2, SessionInvariant, PTL DEF Spec
=============================================================================
