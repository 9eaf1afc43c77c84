--------------------------- MODULE SqlTransaction ---------------------------
(***************************************************************************)
(* SqlTransaction objects over the connection pool: the constructor takes  *)
(* a connection and starts a transaction block, the destructor ends the    *)
(* block as the auto-close mode says and returns the connection.  Each     *)
(* object belongs to one thread, a thread is inside at most one call at a  *)
(* time, and it may own several objects ("recursive instantiation").       *)
(*                                                                         *)
(* Each action is a step of ConnectionPool, or a statement sent to the     *)
(* database, together with what SqlTransaction does around it.             *)
(***************************************************************************)
EXTENDS ConnectionPool

CONSTANTS Thread,
          Owner,           \* the thread each SqlTransaction object lives in
          Modes,           \* auto-close modes the program uses
          MaxFaults,       \* bound on statements the database rejects
          Uses,            \* bound on the objects a thread makes in each scope
          BlocksNest,      \* BEGIN inside a block succeeds (MySQL, PostgreSQL) or fails (SQLite)
          JoinsFirst       \* the owner disconnects only when the other threads are done

ASSUME TransactionAssumption ==
  /\ Owner \in [Tx -> Thread]
  /\ Modes \subseteq {"rollback", "commit", "manual"}
  /\ MaxFaults \in Nat /\ Uses \in Nat
  /\ BlocksNest \in BOOLEAN /\ JoinsFirst \in BOOLEAN

VARIABLES phase,           \* where each object is in its life
          mode,            \* m_autoCloseMode
          started,         \* m_transactionStarted
          inBlock,         \* external: handles the server has an open block on
          faults,          \* statements rejected so far
          left             \* objects each scope may still make

txVars == <<phase, mode, started, left>>
dbVars == <<inBlock, faults>>
vars   == <<poolVars, txVars, dbVars>>

(* phase of an object:                                                     *)
(*   none    not constructed            ctor    inside the constructor     *)
(*   live    constructed                dtor    the destructor has ended   *)
(*   leaked  the constructor threw              the block as its mode says *)
Phase == {"none", "ctor", "live", "dtor", "leaked"}

(* The thread of x is not in the middle of a call. *)
Ready(x) == \A y \in Tx : Owner[y] = Owner[x] => phase[y] \in {"none", "live", "leaked"}

(* Every thread has run all its transactions. *)
Done(x) == phase[x] = "leaked" \/ (phase[x] = "none" /\ left[x] = 0)
Quiet   == \A x \in Tx : Done(x)

Init ==
  /\ PoolInit
  /\ phase = [x \in Tx |-> "none"]
  /\ mode = [x \in Tx |-> "rollback"]
  /\ started = [x \in Tx |-> FALSE]
  /\ inBlock = {}
  /\ faults = 0
  /\ left = [x \in Tx |-> Uses]

-----------------------------------------------------------------------------
(* External: what the database answers to BEGIN, COMMIT and ROLLBACK on    *)
(* handle h.  A rejected statement is a fault unless the server's own      *)
(* rules reject it; a rejected COMMIT or ROLLBACK may or may not leave the *)
(* block open.                                                             *)
Reject == faults < MaxFaults /\ faults' = faults + 1

ExecBegin(h, ok) ==
  IF ok
  THEN /\ h \notin inBlock \/ BlocksNest
       /\ inBlock' = inBlock \cup {h}
       /\ UNCHANGED faults
  ELSE /\ \/ Reject
          \/ h \in inBlock /\ ~BlocksNest /\ UNCHANGED faults
       /\ UNCHANGED inBlock

ExecEnd(h, ok) ==
  IF ok
  THEN /\ h \in inBlock \/ BlocksNest
       /\ inBlock' = inBlock \ {h}
       /\ UNCHANGED faults
  ELSE \/ Reject /\ inBlock' \in {inBlock, inBlock \ {h}}
       \/ h \notin inBlock /\ ~BlocksNest /\ UNCHANGED dbVars

-----------------------------------------------------------------------------
(* SqlTransaction(autoClose, connector): createTransaction() is called. *)
Construct(x) ==
  /\ phase[x] = "none" /\ Ready(x)
  /\ left[x] > 0
  /\ \E m \in Modes : mode' = [mode EXCEPT ![x] = m]
  /\ left' = [left EXCEPT ![x] = @ - 1]
  /\ phase' = [phase EXCEPT ![x] = "ctor"]
  /\ started' = [started EXCEPT ![x] = FALSE]
  /\ CreateTake(x) \/ CreateWait(x)
  /\ UNCHANGED dbVars

(* createTransaction() goes on inside the constructor. *)
Creating(x) ==
  /\ SpuriousWake(x) \/ WakeTake(x) \/ WakeAgain(x) \/ CreateRegister(x)
  /\ UNCHANGED <<txVars, dbVars>>

(* The constructor's last step: begin(), unless the mode is manual.  When  *)
(* begin() throws the destructor does not run and nothing closes m_impl.   *)
ConstructEnd(x) ==
  /\ program = "running"
  /\ phase[x] = "ctor" /\ pc[x] = "open"
  /\ \/ /\ mode[x] = "manual"
        /\ phase' = [phase EXCEPT ![x] = "live"]
        /\ UNCHANGED <<started, dbVars>>
     \/ /\ mode[x] # "manual"
        /\ ExecBegin(handle[x], TRUE)
        /\ phase' = [phase EXCEPT ![x] = "live"]
        /\ started' = [started EXCEPT ![x] = TRUE]
     \/ /\ mode[x] # "manual"
        /\ ExecBegin(handle[x], FALSE)
        /\ phase' = [phase EXCEPT ![x] = "leaked"]
        /\ UNCHANGED started
  /\ UNCHANGED <<poolVars, mode, left>>

(* Mutant: begin() does not record that it succeeded. *)
BeginForgets(x) ==
  /\ program = "running"
  /\ phase[x] = "live" /\ Ready(x)
  /\ ~started[x]
  /\ \E ok \in BOOLEAN : ExecBegin(handle[x], ok)
  /\ UNCHANGED <<poolVars, txVars>>

(* begin() called by the program; throws without effect when started. *)
Begin(x) ==
  /\ program = "running"
  /\ phase[x] = "live" /\ Ready(x)
  /\ ~started[x]
  /\ \E ok \in BOOLEAN :
       /\ ExecBegin(handle[x], ok)
       /\ started' = [started EXCEPT ![x] = ok]
  /\ UNCHANGED <<poolVars, phase, mode, left>>

(* Mutant: m_transactionStarted is reset before the answer is known. *)
EndBlockEarly(x) ==
  /\ program = "running"
  /\ phase[x] = "live" /\ Ready(x)
  /\ started[x]
  /\ \E ok \in BOOLEAN : ExecEnd(handle[x], ok)
  /\ started' = [started EXCEPT ![x] = FALSE]
  /\ UNCHANGED <<poolVars, phase, mode, left>>

(* commit() or rollback() called by the program; both throw without effect *)
(* when no block is started, and keep m_transactionStarted on failure.     *)
EndBlock(x) ==
  /\ program = "running"
  /\ phase[x] = "live" /\ Ready(x)
  /\ started[x]
  /\ \E ok \in BOOLEAN :
       /\ ExecEnd(handle[x], ok)
       /\ started' = [started EXCEPT ![x] = ~ok]
  /\ UNCHANGED <<poolVars, phase, mode, left>>

(* Mutant: the destructor leaves the block to the server. *)
DestructOnly(x) ==
  /\ program = "running"
  /\ phase[x] = "live" /\ Ready(x)
  /\ phase' = [phase EXCEPT ![x] = "dtor"]
  /\ started' = [started EXCEPT ![x] = FALSE]
  /\ UNCHANGED <<poolVars, mode, left, dbVars>>

(* Mutant: the destructor ends the block whether or not there is one. *)
DestructAlways(x) ==
  /\ program = "running"
  /\ phase[x] = "live" /\ Ready(x)
  /\ \E ok \in BOOLEAN :
       /\ ExecEnd(handle[x], ok)
       /\ IF ok THEN /\ phase' = [phase EXCEPT ![x] = "dtor"]
                     /\ UNCHANGED program
                ELSE /\ program' = "terminated"
                     /\ UNCHANGED phase
  /\ started' = [started EXCEPT ![x] = FALSE]
  /\ UNCHANGED <<adminVars, clientVars, free, used, mode, left>>

(* ~SqlTransaction() up to closeTransaction().  A commit() or rollback()   *)
(* that throws here leaves a destructor, which ends the process.           *)
Destruct(x) ==
  /\ program = "running"
  /\ phase[x] = "live" /\ Ready(x)
  /\ \/ /\ ~started[x] \/ mode[x] = "manual"
        /\ phase' = [phase EXCEPT ![x] = "dtor"]
        /\ UNCHANGED <<started, dbVars, program>>
     \/ /\ started[x] /\ mode[x] # "manual"
        /\ ExecEnd(handle[x], TRUE)
        /\ phase' = [phase EXCEPT ![x] = "dtor"]
        /\ started' = [started EXCEPT ![x] = FALSE]
        /\ UNCHANGED program
     \/ /\ started[x] /\ mode[x] # "manual"
        /\ ExecEnd(handle[x], FALSE)
        /\ Terminate
        /\ UNCHANGED <<phase, started>>
  /\ UNCHANGED <<adminVars, clientVars, free, used, mode, left>>

(* closeTransaction() inside the destructor. *)
Close(x) ==
  /\ phase[x] = "dtor"
  /\ \/ CloseUnregister(x) /\ UNCHANGED phase
     \/ CloseReturn(x) /\ phase' = [phase EXCEPT ![x] = "none"]
  /\ UNCHANGED <<mode, started, left, dbVars>>

(* The owner of the connector.  Closing a connection ends its block.       *)
Admin ==
  /\ AdminNext
  /\ JoinsFirst /\ ~Quiet => admin' \notin {"checked", "destroyed"}
  /\ inBlock' = inBlock \cap (free' \cup used')
  /\ UNCHANGED <<txVars, faults>>

ThreadStep(x) ==
  \/ Construct(x)
  \/ Creating(x)
  \/ ConstructEnd(x)
  \/ Begin(x)
  \/ EndBlock(x)
  \/ Destruct(x)
  \/ Close(x)

Next == Admin \/ \E x \in Tx : ThreadStep(x)

Spec == Init /\ [][Next]_vars

(* A thread keeps running its transactions and the owner connects; nobody  *)
(* is obliged to call begin(), commit() or rollback(), to wake up without  *)
(* being notified, to change the pool size or to disconnect.  Weak         *)
(* fairness is what an operating system gives a runnable thread.           *)
Fairness ==
  /\ WF_vars(Admin /\ (ConnectStart \/ ConnectDone \/ \E h \in Handle : ConnectOpen(h)))
  /\ \A x \in Tx :
       /\ WF_vars(Construct(x))
       /\ WF_vars(Creating(x) /\ ~SpuriousWake(x))
       /\ WF_vars(ConstructEnd(x))
       /\ WF_vars(Destruct(x))
       /\ WF_vars(Close(x))

FairSpec == Spec /\ Fairness

-----------------------------------------------------------------------------
(* Properties. *)

TypeOK ==
  /\ PoolTypeOK
  /\ phase \in [Tx -> Phase]
  /\ mode \in [Tx -> Modes \cup {"rollback"}]
  /\ started \in [Tx -> BOOLEAN]
  /\ inBlock \subseteq Handle
  /\ faults \in Nat
  /\ left \in [Tx -> Nat]

(* An object with an automatic close mode gives its connection back        *)
(* without an open transaction block, whatever the program did with it and *)
(* whatever state it got the connection in.                                *)
ReturnsClean ==
  \A x \in Tx : phase[x] = "dtor" /\ mode[x] # "manual" => handle[x] \notin inBlock

(* An object that thinks it has no block has none on the server: commit()  *)
(* and rollback() forget m_transactionStarted only when the block is over. *)
(* In manual mode a connection may come with the block of another object.  *)
NoForgottenBlock ==
  \A x \in Tx :
    phase[x] = "live" /\ ~started[x] /\ mode[x] # "manual" => handle[x] \notin inBlock

(* Only a statement the database rejected can end the process from within  *)
(* ~SqlTransaction.                                                        *)
TerminatedByFault == program = "terminated" => faults > 0

(* Where the thread of an object can be inside the connector.              *)
PhaseMatchesPool ==
  \A x \in Tx :
    /\ phase[x] = "none" => pc[x] = "out"
    /\ phase[x] = "ctor" => pc[x] \in {"waiting", "woken", "taken", "open"}
    /\ phase[x] = "dtor" => pc[x] \in {"open", "closing"}
    /\ phase[x] \in {"live", "leaked"} => pc[x] = "open"

(* In the automatic modes m_transactionStarted is set only while the       *)
(* object lives, and whenever its connection is inside a block.            *)
BlockOwned ==
  \A x \in Tx :
    mode[x] # "manual" =>
      /\ started[x] => phase[x] = "live"
      /\ phase[x] \in {"live", "dtor"} /\ handle[x] \in inBlock => started[x]

(* As long as the database has rejected nothing, a block that an object    *)
(* has started is open on its connection, in manual mode too.              *)
StartedMeansBlock ==
  faults = 0 =>
    \A x \in Tx : started[x] => /\ phase[x] # "ctor"
                                /\ phase[x] = "live" => handle[x] \in inBlock

(* Inductive invariant of the objects over the pool.                       *)
IInv == TypeOK /\ PoolIInv /\ PhaseMatchesPool /\ BlockOwned

(* Every connection taken from the pool belongs to an object that can      *)
(* return it in its destructor.                                            *)
NoOrphanHandle ==
  \A h \in used : \E x \in Tx : handle[x] = h /\ phase[x] \in {"ctor", "live", "dtor"}

(* Recursive instantiation of SqlTransaction deadlocks (SqlTransaction.h   *)
(* warns of it), but only a pool too small for the nesting: with one       *)
(* connection more than there are nested objects, all transactions of all  *)
(* threads get a connection and end.                                       *)
AllFinish ==
  <>(Quiet \/ (connected /\ opened <= Cardinality(Tx) - Cardinality(Thread)))
=============================================================================
