--------------------------- MODULE ConnectionPool ---------------------------
(***************************************************************************)
(* The connection pool of one SQL connector.  SqliteConnector,             *)
(* MySqlConnector and PostgresConnector implement the same algorithm line  *)
(* by line; the owner's operations below are mapped to the MySQL one, the  *)
(* clients' to the PostgreSQL one.                                         *)
(*                                                                         *)
(* Threads call createTransaction() and closeTransaction() concurrently;   *)
(* the thread that owns the connector calls setConnectionPooling(),        *)
(* connect(), disconnect() and the destructor.  Each action is one         *)
(* critical section: what happens between a lock and the next unlock (or   *)
(* wait) of m_poolMutex or m_transactionMutex.                             *)
(*                                                                         *)
(* A transaction implementation object is identified with the SqlTransaction*)
(* x it was made for.  The two handle lists are sets: Exclusive below is   *)
(* also what makes that exact, since no push_back can then duplicate a     *)
(* handle.                                                                 *)
(***************************************************************************)
EXTENDS Naturals, FiniteSets

CONSTANTS Handle,        \* identities of database handles (sqlite3*, MYSQL*, PGconn*)
          Tx,            \* SqlTransaction objects
          NoHandle,      \* a null handle
          MaxPool,       \* the largest size setConnectionPooling accepts (10)
          MaxFailures,   \* bound on failing connection attempts
          NDebug         \* the build defines NDEBUG: assert() is compiled out

ASSUME PoolAssumption ==
  /\ NoHandle \notin Handle
  /\ MaxPool \in Nat \ {0}
  /\ MaxFailures \in Nat
  /\ NDebug \in BOOLEAN

VARIABLES connected,     \* m_connected
          poolSize,      \* m_poolSize
          free,          \* m_freeDbHandles
          used,          \* m_usedDbHandles
          transactions,  \* m_transactions
          admin,         \* where the owning thread is
          opened,        \* handles opened by the latest connect()
          failures,      \* connection attempts that failed so far
          pc,            \* where the thread of each transaction is
          handle,        \* the handle of each transaction's implementation
          program        \* has the process been aborted?

adminVars  == <<connected, poolSize, admin, opened, failures>>
clientVars == <<transactions, pc, handle>>
poolVars   == <<adminVars, clientVars, free, used, program>>

(* pc of a transaction:                                                    *)
(*   out      no call in progress, no handle                               *)
(*   waiting  blocked in m_dbHandleFreedEvent.wait                         *)
(*   woken    notified (or woken spuriously), predicate not yet re-checked *)
(*   taken    owns a handle, not yet in m_transactions                     *)
(*   open     createTransaction has returned                               *)
(*   closing  closeTransaction between its two critical sections           *)
TxState    == {"out", "waiting", "woken", "taken", "open", "closing"}
Holding    == {"taken", "open", "closing"}
AdminState == {"idle", "opening", "checked", "destroyed"}

Holders == {x \in Tx : pc[x] \in Holding}

-----------------------------------------------------------------------------

PoolInit ==
  /\ connected = FALSE
  /\ poolSize = 1
  /\ free = {}
  /\ used = {}
  /\ transactions = {}
  /\ admin = "idle"
  /\ opened = 0
  /\ failures = 0
  /\ pc = [x \in Tx |-> "out"]
  /\ handle = [x \in Tx |-> NoHandle]
  /\ program = "running"

-----------------------------------------------------------------------------
(* The owning thread. *)

(* Mutant: no check of the size. *)
SetConnectionPoolingUnchecked(n) ==
  /\ program = "running" /\ admin = "idle"
  /\ poolSize' = n
  /\ UNCHANGED <<connected, admin, opened, failures, clientVars, free, used, program>>

(* setConnectionPooling(n); a size outside 1..MaxPool throws and changes   *)
(* nothing.                                                                *)
SetConnectionPooling(n) ==
  /\ program = "running" /\ admin = "idle"
  /\ n \in 1 .. MaxPool
  /\ poolSize' = n
  /\ UNCHANGED <<connected, admin, opened, failures, clientVars, free, used, program>>

(* connect() past its early return; with m_connected set it returns true   *)
(* at once and changes nothing.                                            *)
ConnectStart ==
  /\ program = "running" /\ admin = "idle"
  /\ ~connected
  /\ admin' = "opening"
  /\ opened' = 0
  /\ UNCHANGED <<connected, poolSize, failures, clientVars, free, used, program>>

(* One iteration of the opening loop succeeds. *)
ConnectOpen(h) ==
  /\ program = "running" /\ admin = "opening"
  /\ opened < poolSize
  /\ h \notin free \cup used
  /\ free' = free \cup {h}
  /\ opened' = opened + 1
  /\ UNCHANGED <<connected, poolSize, admin, failures, clientVars, used, program>>

(* One iteration fails: disconnect() is called, but m_connected is still   *)
(* false, so it returns without closing what was opened before.            *)
ConnectFail ==
  /\ program = "running" /\ admin = "opening"
  /\ opened < poolSize
  /\ failures < MaxFailures
  /\ failures' = failures + 1
  /\ admin' = "idle"
  /\ UNCHANGED <<connected, poolSize, opened, clientVars, free, used, program>>

ConnectDone ==
  /\ program = "running" /\ admin = "opening"
  /\ opened = poolSize
  /\ connected' = TRUE
  /\ admin' = "idle"
  /\ UNCHANGED <<poolSize, opened, failures, clientVars, free, used, program>>

(* disconnect(), first critical section: m_transactions is empty.  With a  *)
(* transaction left, or when not connected, it returns without effect.     *)
DisconnectCheck ==
  /\ program = "running" /\ admin = "idle"
  /\ connected
  /\ transactions = {}
  /\ admin' = "checked"
  /\ UNCHANGED <<connected, poolSize, opened, failures, clientVars, free, used, program>>

(* Mutant: the pool is closed without looking at m_usedDbHandles. *)
DisconnectCloseBlindly ==
  /\ program = "running" /\ admin = "checked"
  /\ free' = {} /\ admin' = "idle"
  /\ UNCHANGED <<connected, poolSize, opened, failures, clientVars, used, program>>

(* disconnect(), second critical section: assert(m_usedDbHandles.empty()), *)
(* then every free handle is closed.  m_connected keeps its value.         *)
DisconnectClose ==
  /\ program = "running" /\ admin = "checked"
  /\ IF used # {} /\ ~NDebug
     THEN program' = "aborted" /\ UNCHANGED <<free, admin>>
     ELSE free' = {} /\ admin' = "idle" /\ UNCHANGED program
  /\ UNCHANGED <<connected, poolSize, opened, failures, clientVars, used>>

(* The destructor, once no thread is inside the connector: disconnect()    *)
(* if m_connected, which gives up when a transaction is still registered.  *)
Destroy ==
  /\ program = "running" /\ admin = "idle"
  /\ \A x \in Tx : pc[x] \in {"out", "open"}
  /\ admin' = "destroyed"
  /\ free' = IF connected /\ transactions = {} THEN {} ELSE free
  /\ UNCHANGED <<connected, poolSize, opened, failures, clientVars, used, program>>

AdminNext ==
  \/ \E n \in 0 .. MaxPool + 1 : SetConnectionPooling(n)
  \/ ConnectStart
  \/ \E h \in Handle : ConnectOpen(h)
  \/ ConnectFail
  \/ ConnectDone
  \/ DisconnectCheck
  \/ DisconnectClose
  \/ Destroy

-----------------------------------------------------------------------------
(* The threads that run transactions. *)

(* The connector may be called: connect() has succeeded once. *)
Callable == program = "running" /\ connected /\ admin # "destroyed"

(* Mutant: pop_back is forgotten. *)
TakeHandleWithoutPop(x) ==
  \E h \in free :
    /\ used' = used \cup {h}
    /\ handle' = [handle EXCEPT ![x] = h]
    /\ pc' = [pc EXCEPT ![x] = "taken"]
    /\ UNCHANGED free

(* Mutant: the handle is not pushed to the used list. *)
TakeHandleUnlisted(x) ==
  \E h \in free :
    /\ free' = free \ {h}
    /\ handle' = [handle EXCEPT ![x] = h]
    /\ pc' = [pc EXCEPT ![x] = "taken"]
    /\ UNCHANGED used

(* The handle moves from the free to the used list. *)
TakeHandle(x) ==
  \E h \in free :
    /\ free' = free \ {h}
    /\ used' = used \cup {h}
    /\ handle' = [handle EXCEPT ![x] = h]
    /\ pc' = [pc EXCEPT ![x] = "taken"]

(* createTransaction() finds a free handle. *)
CreateTake(x) ==
  /\ Callable /\ pc[x] = "out"
  /\ TakeHandle(x)
  /\ UNCHANGED <<adminVars, transactions, program>>

(* createTransaction() finds none and blocks on the condition variable. *)
CreateWait(x) ==
  /\ Callable /\ pc[x] = "out"
  /\ free = {}
  /\ pc' = [pc EXCEPT ![x] = "waiting"]
  /\ UNCHANGED <<adminVars, transactions, handle, free, used, program>>

(* A condition variable may wake a thread that nobody notified. *)
SpuriousWake(x) ==
  /\ Callable /\ pc[x] = "waiting"
  /\ pc' = [pc EXCEPT ![x] = "woken"]
  /\ UNCHANGED <<adminVars, transactions, handle, free, used, program>>

(* The woken thread has the mutex again and the predicate holds... *)
WakeTake(x) ==
  /\ Callable /\ pc[x] = "woken"
  /\ TakeHandle(x)
  /\ UNCHANGED <<adminVars, transactions, program>>

(* ...or another thread was faster. *)
WakeAgain(x) ==
  /\ Callable /\ pc[x] = "woken"
  /\ free = {}
  /\ pc' = [pc EXCEPT ![x] = "waiting"]
  /\ UNCHANGED <<adminVars, transactions, handle, free, used, program>>

(* createTransaction(), second critical section. *)
CreateRegister(x) ==
  /\ Callable /\ pc[x] = "taken"
  /\ transactions' = transactions \cup {x}
  /\ pc' = [pc EXCEPT ![x] = "open"]
  /\ UNCHANGED <<adminVars, handle, free, used, program>>

(* closeTransaction(), first critical section: out of the registry. *)
CloseUnregister(x) ==
  /\ Callable /\ pc[x] = "open"
  /\ x \in transactions
  /\ transactions' = transactions \ {x}
  /\ pc' = [pc EXCEPT ![x] = "closing"]
  /\ UNCHANGED <<adminVars, handle, free, used, program>>

(* Mutant: notify_all is forgotten. *)
CloseReturnSilently(x) ==
  /\ Callable /\ pc[x] = "closing"
  /\ handle[x] \in used
  /\ used' = used \ {handle[x]}
  /\ free' = free \cup {handle[x]}
  /\ handle' = [handle EXCEPT ![x] = NoHandle]
  /\ pc' = [pc EXCEPT ![x] = "out"]
  /\ UNCHANGED <<adminVars, transactions, program>>

(* Mutant: the handle is erased from one list and not pushed to the other. *)
CloseReturnLosing(x) ==
  /\ Callable /\ pc[x] = "closing"
  /\ handle[x] \in used
  /\ used' = used \ {handle[x]}
  /\ handle' = [handle EXCEPT ![x] = NoHandle]
  /\ pc' = [y \in Tx |-> IF y = x THEN "out"
                         ELSE IF pc[y] = "waiting" THEN "woken" ELSE pc[y]]
  /\ UNCHANGED <<adminVars, transactions, free, program>>

(* closeTransaction(), second critical section: back to the free list and  *)
(* notify_all.  The guard is the code's find; its failure, which throws,   *)
(* is what CloseFindsHandle excludes.                                      *)
CloseReturn(x) ==
  /\ Callable /\ pc[x] = "closing"
  /\ handle[x] \in used
  /\ used' = used \ {handle[x]}
  /\ free' = free \cup {handle[x]}
  /\ handle' = [handle EXCEPT ![x] = NoHandle]
  /\ pc' = [y \in Tx |-> IF y = x THEN "out"
                         ELSE IF pc[y] = "waiting" THEN "woken" ELSE pc[y]]
  /\ UNCHANGED <<adminVars, transactions, program>>

ClientNext(x) ==
  \/ CreateTake(x)
  \/ CreateWait(x)
  \/ SpuriousWake(x)
  \/ WakeTake(x)
  \/ WakeAgain(x)
  \/ CreateRegister(x)
  \/ CloseUnregister(x)
  \/ CloseReturn(x)

(* An exception leaves a destructor somewhere in the program. *)
Terminate ==
  /\ program = "running"
  /\ program' = "terminated"
  /\ UNCHANGED <<adminVars, clientVars, free, used>>

PoolNext == AdminNext \/ (\E x \in Tx : ClientNext(x)) \/ Terminate

PoolSpec == PoolInit /\ [][PoolNext]_poolVars

-----------------------------------------------------------------------------
(* Properties. *)

PoolTypeOK ==
  /\ connected \in BOOLEAN
  /\ poolSize \in 1 .. MaxPool
  /\ free \subseteq Handle
  /\ used \subseteq Handle
  /\ transactions \subseteq Tx
  /\ admin \in AdminState
  /\ opened \in Nat
  /\ failures \in Nat
  /\ pc \in [Tx -> TxState]
  /\ handle \in [Tx -> Handle \cup {NoHandle}]
  /\ program \in {"running", "aborted", "terminated"}

(* A handle serves one transaction at a time: m_usedDbHandles is exactly   *)
(* what the transactions between createTransaction and closeTransaction    *)
(* hold, no two of them hold the same handle, and none is free as well.    *)
Exclusive ==
  /\ used = {handle[x] : x \in Holders}
  /\ \A x, y \in Holders : handle[x] = handle[y] => x = y
  /\ free \cap used = {}

(* closeTransaction never throws "No such used dbConn": what it looks for  *)
(* after it has dropped the first mutex is still there.                    *)
CloseFindsHandle == \A x \in Tx : pc[x] = "closing" => handle[x] \in used

(* No lost wakeup: while a handle is free nobody sleeps on                 *)
(* m_dbHandleFreedEvent without having been notified.                      *)
NoLostWakeup == free # {} => \A x \in Tx : pc[x] # "waiting"

(* disconnect() sees in m_transactions all transactions it must refuse     *)
(* for, except those between two critical sections.                        *)
Registered == transactions = {x \in Tx : pc[x] = "open"}

(* As many connections as one connect() opened, or none after disconnect():*)
(* the critical sections neither lose nor make one.  Only a connect() that *)
(* failed half-way, whose connections stay in the pool, lets a later one   *)
(* exceed the size set by setConnectionPooling (SqlConnectorBase.h:79).    *)
Conserved ==
  connected /\ ~NDebug =>
    LET open == Cardinality(free) + Cardinality(used)
    IN  open \in {0, opened} \/ (failures > 0 /\ open > opened)

(* assert(m_usedDbHandles.empty()) in disconnect() never fails. *)
DisconnectAssertHolds == program # "aborted"

(* Clients exist only behind a connect() that succeeded. *)
ClientsConnected ==
  /\ (\E x \in Tx : pc[x] # "out") => connected
  /\ admin = "opening" => ~connected

(* A transaction has a handle exactly while it is inside the connector's   *)
(* lists.                                                                  *)
HandleIffHolding == \A x \in Tx : (handle[x] = NoHandle) <=> (x \notin Holders)

(* Inductive invariant: Exclusive relates three variables that different   *)
(* critical sections write, so each clause needs the others.               *)
PoolIInv ==
  /\ PoolTypeOK
  /\ HandleIffHolding
  /\ Exclusive
  /\ NoLostWakeup
  /\ Registered
  /\ ClientsConnected

(* What Conserved rests on: until connect() succeeds nothing is used, and  *)
(* the free list holds at least what this attempt opened; without a failed *)
(* attempt it holds just that, and nothing when no attempt is under way.   *)
Counted ==
  /\ IsFiniteSet(free) /\ IsFiniteSet(used)
  /\ admin = "checked" => connected
  /\ ~connected =>
       /\ used = {}
       /\ Cardinality(free) >= opened
       /\ failures = 0 => /\ Cardinality(free) = opened
                          /\ admin # "opening" => opened = 0

(* The connector keeps its promise: see HandleLease.                       *)
Lease == INSTANCE HandleLease WITH idle <- free, lease <- handle
LeaseSpec == Lease!Spec
=============================================================================
