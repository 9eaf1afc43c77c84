----------------------------- MODULE Statements -----------------------------
(***************************************************************************)
(* The statements of one transaction: SqlStatement objects, the            *)
(* SqlStatementImpl objects they make in a backend, the result sets and    *)
(* the row cursor.  One thread uses a transaction, so an action is a whole *)
(* call; what can go wrong is the order of calls and a database that       *)
(* rejects some of them.                                                   *)
(*                                                                         *)
(* A result set is identified with the implementation object it reads (the *)
(* one exec made for it); it has one iterator, as in a range-based for.    *)
(* All statements write to the record of one storable.                     *)
(***************************************************************************)
EXTENDS Integers, Sequences, FiniteSets

CONSTANTS Stmt,            \* SqlStatement objects
          Kind,            \* the class of each: select, insert, update (all fields), delete
          Impl, NoImpl,    \* SqlStatementImpl objects
          Clause, NoClause,\* where clauses with a literal; an empty clause
          Backends,        \* which of sqlite, postgres, mysql to look at
          Rows,            \* rows a select finds
          MaxFaults,       \* bound on calls the database rejects
          MaxChanges,      \* bound on rows changed
          MaxLiterals      \* bound on the length of m_literals

ASSUME StatementAssumption ==
  /\ Kind \in [Stmt -> {"select", "insert", "update", "delete"}]
  /\ NoImpl \notin Impl /\ NoClause \notin Clause
  /\ Backends \subseteq {"sqlite", "postgres", "mysql"}
  /\ Rows \in Nat /\ MaxFaults \in Nat /\ MaxChanges \in Nat /\ MaxLiterals \in Nat

VARIABLES backend,         \* the connector
          impl,            \* m_impl of each statement
          literals,        \* m_literals
          prepared,        \* inserts with m_prepared
          statements,      \* m_statements: implementation objects that exist
          st,              \* the state of each of them, see Fresh
          results,         \* those whose SqlResultSet exists
          rowId,           \* row id of the iterator of each result set
          record,          \* what the storable's record was last read from
          busy,            \* external: the MySQL statement with unread rows
          poisoned,        \* external: PostgreSQL rejects the rest of the block
          applied,         \* external: rows changed inside the block
          durable,         \* external: rows changed for good
          faults,          \* calls rejected for no reason of the program's
          outcome,         \* of the transaction
          reported,        \* rows changed as far as the program knows
          threw,           \* results whose iteration threw
          stale            \* statements that ran with literals not their own

stmtVars   == <<impl, literals, prepared>>
resultVars == <<results, rowId, record, threw>>
dbVars     == <<poisoned, faults>>
changeVars == <<applied, durable, outcome, reported>>
vars == <<backend, stmtVars, statements, st, resultVars, busy, dbVars, changeVars, stale>>

INVALID       == -2        \* ROW_ID_INVALID
PAST_THE_END  == -1        \* ROW_ID_PAST_THE_END
NoRecord      == <<NoImpl, 0>>

(* A new implementation object: m_prepared, m_done, m_executed (MySQL) or  *)
(* m_execResult (PostgreSQL), rows handed out (m_currentRow + 1), rows the *)
(* result has, and whether the handle needs a reset nobody does.           *)
Fresh == [ready |-> FALSE, done |-> FALSE, executed |-> FALSE,
          row |-> 0, size |-> Rows, stuck |-> FALSE]

Init ==
  /\ backend \in Backends
  /\ impl = [s \in Stmt |-> NoImpl]
  /\ literals = [s \in Stmt |-> <<>>]
  /\ prepared = {} /\ statements = {}
  /\ st = [i \in Impl |-> Fresh]
  /\ results = {} /\ threw = {} /\ stale = {}
  /\ rowId = [i \in Impl |-> INVALID]
  /\ record = NoRecord
  /\ busy = NoImpl
  /\ poisoned = FALSE
  /\ applied = 0 /\ durable = 0 /\ reported = 0 /\ faults = 0
  /\ outcome = "open"

-----------------------------------------------------------------------------
(* External: the answer to a request.  b is the MySQL statement whose rows *)
(* are unread ("commands out of sync").                                    *)

Refuses(b) == \/ backend = "postgres" /\ poisoned
              \/ backend = "mysql" /\ b # NoImpl

Accepted(b) == ~Refuses(b) /\ UNCHANGED dbVars

Fault == faults < MaxFaults /\ faults' = faults + 1

(* An error inside a block makes PostgreSQL refuse the rest of it. *)
Rejected(b) ==
  \/ Refuses(b) /\ UNCHANGED dbVars
  \/ ~Refuses(b) /\ Fault /\ poisoned' = (poisoned \/ backend = "postgres")

-----------------------------------------------------------------------------
(* Closing, building, preparing and binding. *)

(* What a statement object lets go of, unless a result set still reads it. *)
Dropped(s) == {impl[s]} \ (results \cup {NoImpl})

(* closeStatement().  mysql_stmt_close() of a prepared statement discards  *)
(* whatever rows are unread, those of another statement too: fetching      *)
(* those fails from then on.                                               *)
Cancels(gone) == /\ busy # NoImpl /\ busy \notin gone
                 /\ \E i \in gone : st[i].ready
StAfterClose(gone) ==
  [i \in Impl |-> IF i \in gone THEN Fresh
                  ELSE [st[i] EXCEPT !.stuck = @ \/ (Cancels(gone) /\ i = busy)]]
BusyAfterClose(gone) == IF busy \in gone \/ Cancels(gone) THEN NoImpl ELSE busy

(* The literals of the where clause c.  where() may be called before every *)
(* exec(), so an execution picks its c.                                    *)
Clauses(s) == IF Kind[s] = "insert" THEN {NoClause} ELSE Clause \cup {NoClause}
Own(c)     == IF c = NoClause THEN <<>> ELSE <<c>>

(* Mutant: select appends its literals too. *)
SelectLiteralsAppending(s, c) == literals[s] \o Own(c)

(* buildQuery() of each class: what it leaves in m_literals.  Select       *)
(* assigns, if there is a clause; update without set() clears first;       *)
(* delete (and update with set()) appends; insert fills them in execStep.  *)
SelectLiterals(s, c) == IF c = NoClause THEN literals[s] ELSE Own(c)
UpdateLiterals(s, c) == Own(c)
DeleteLiterals(s, c) == literals[s] \o Own(c)
InsertLiterals(s, c) == literals[s]

NewLiterals(s, c) ==
  CASE Kind[s] = "select" -> SelectLiterals(s, c)
    [] Kind[s] = "update" -> UpdateLiterals(s, c)
    [] Kind[s] = "delete" -> DeleteLiterals(s, c)
    [] Kind[s] = "insert" -> InsertLiterals(s, c)

Surplus(s, c) == Len(NewLiterals(s, c)) > Len(Own(c))

(* A new implementation object i for s with clause c, prepared or not. *)
NewImpl(s, c, i, ready) ==
  /\ i \in Impl \ statements
  /\ Len(NewLiterals(s, c)) <= MaxLiterals
  /\ literals' = [literals EXCEPT ![s] = NewLiterals(s, c)]
  /\ impl' = [impl EXCEPT ![s] = i]
  /\ st' = [StAfterClose(Dropped(s)) EXCEPT ![i].ready = ready]
  /\ busy' = BusyAfterClose(Dropped(s))
  /\ UNCHANGED <<backend, rowId, record, threw>>

(* Mutant: the old implementation object is not closed. *)
CreateImplKeeping(s, c, i, ready) ==
  /\ NewImpl(s, c, i, ready)
  /\ statements' = statements \cup {i}

(* createImpl(): the new implementation object replaces the one of the     *)
(* last execution, which is closed unless a result set still reads it.     *)
CreateImpl(s, c, i, ready) ==
  /\ NewImpl(s, c, i, ready)
  /\ statements' = (statements \ Dropped(s)) \cup {i}

(* prepare(): PostgreSQL is told the number of literals and rejects a      *)
(* parameter the query does not have. *)
Prepares(s, c) == Accepted(busy') /\ ~(backend = "postgres" /\ Surplus(s, c))

FailsToPrepare(s, c) ==
  \/ Rejected(busy')
  \/ /\ backend = "postgres" /\ ~Refuses(busy') /\ Surplus(s, c)
     /\ poisoned' = TRUE /\ UNCHANGED faults

(* bindValues(): SQLite rejects the literal that has no placeholder, MySQL *)
(* takes the first ones.                                                   *)
Binds(s, c) == ~(backend = "sqlite" /\ Surplus(s, c))

NoteLiterals(s, c) ==
  stale' = IF SubSeq(NewLiterals(s, c), 1, Len(Own(c))) = Own(c) THEN stale ELSE stale \cup {s}

-----------------------------------------------------------------------------
(* The program's calls. *)

(* The statement object is destroyed and another one made. *)
Renew(s) ==
  /\ impl' = [impl EXCEPT ![s] = NoImpl]
  /\ literals' = [literals EXCEPT ![s] = <<>>]
  /\ prepared' = prepared \ {s}
  /\ statements' = statements \ Dropped(s)
  /\ st' = StAfterClose(Dropped(s))
  /\ busy' = BusyAfterClose(Dropped(s))
  /\ stale' = stale \ {s}
  /\ UNCHANGED <<backend, resultVars, dbVars, changeVars>>

(* SqlStatementSelect::exec(): prepares and binds; nothing is executed.    *)
(* When it throws the result set made for it is gone.                      *)
SelectExec(s) ==
  /\ outcome = "open" /\ Kind[s] = "select"
  /\ \E i \in Impl, c \in Clauses(s) :
       \/ /\ CreateImpl(s, c, i, TRUE)
          /\ Prepares(s, c) /\ Binds(s, c) /\ NoteLiterals(s, c)
          /\ results' = results \cup {i}
       \/ /\ CreateImpl(s, c, i, TRUE)
          /\ Prepares(s, c) /\ ~Binds(s, c)
          /\ UNCHANGED <<results, stale>>
       \/ /\ CreateImpl(s, c, i, FALSE)
          /\ FailsToPrepare(s, c)
          /\ UNCHANGED <<results, stale>>
  /\ UNCHANGED <<prepared, changeVars>>

(* Mutant: the answer of execStatement is not looked at. *)
ModifyUnchecked(s) ==
  /\ outcome = "open" /\ Kind[s] \in {"update", "delete"}
  /\ reported < MaxChanges
  /\ \E i \in Impl, c \in Clauses(s) :
       /\ CreateImpl(s, c, i, TRUE)
       /\ NoteLiterals(s, c)
       /\ \/ Prepares(s, c) /\ applied' = applied + 1
          \/ Rejected(busy') /\ UNCHANGED applied
  /\ reported' = reported + 1
  /\ UNCHANGED <<prepared, results, durable, outcome>>

(* exec() of an update or a delete: prepare, bind and execute, any of      *)
(* which may fail.                                                         *)
Modify(s) ==
  /\ outcome = "open" /\ Kind[s] \in {"update", "delete"}
  /\ applied < MaxChanges
  /\ \E i \in Impl, c \in Clauses(s) :
       \/ /\ CreateImpl(s, c, i, TRUE)
          /\ Prepares(s, c) /\ Binds(s, c) /\ NoteLiterals(s, c)
          /\ applied' = applied + 1 /\ reported' = reported + 1
       \/ /\ CreateImpl(s, c, i, TRUE)
          /\ \/ Prepares(s, c) /\ ~Binds(s, c)
             \/ Binds(s, c) /\ ~Refuses(busy') /\ Rejected(busy')
          /\ UNCHANGED <<applied, reported, stale>>
       \/ /\ CreateImpl(s, c, i, FALSE)
          /\ FailsToPrepare(s, c)
          /\ UNCHANGED <<applied, reported, stale>>
  /\ UNCHANGED <<prepared, results, durable, outcome>>

(* execPrepare() of an insert; a second one throws and changes nothing. *)
InsertPrepare(s) ==
  /\ outcome = "open" /\ Kind[s] = "insert" /\ s \notin prepared
  /\ \E i \in Impl, c \in Clauses(s) :
       \/ /\ CreateImpl(s, c, i, TRUE)
          /\ Prepares(s, c)
          /\ prepared' = prepared \cup {s}
       \/ /\ CreateImpl(s, c, i, FALSE)
          /\ FailsToPrepare(s, c)
          /\ UNCHANGED prepared
  /\ UNCHANGED <<results, changeVars, stale>>

(* getLastInsertId() puts the new key into the storable's record.  On      *)
(* PostgreSQL that is a query, whose failure is not reported.              *)
GetLastInsertId ==
  \/ record' = NoRecord /\ UNCHANGED dbVars
  \/ /\ backend = "postgres" /\ Fault
     /\ poisoned' = TRUE /\ UNCHANGED record

(* execStep() of an insert: bind, execute, getLastInsertId().  SQLite's    *)
(* handle is reset after a success only, and binds nothing until it is.    *)
InsertStep(s) ==
  /\ outcome = "open" /\ s \in prepared
  /\ applied < MaxChanges
  /\ \/ /\ ~st[impl[s]].stuck /\ ~Refuses(busy)
        /\ GetLastInsertId
        /\ applied' = applied + 1 /\ reported' = reported + 1
        /\ UNCHANGED st
     \/ /\ ~st[impl[s]].stuck
        /\ Rejected(busy)
        /\ st' = [st EXCEPT ![impl[s]].stuck = (backend = "sqlite")]
        /\ UNCHANGED <<record, applied, reported>>
     \/ /\ st[impl[s]].stuck
        /\ UNCHANGED <<st, dbVars, record, applied, reported>>
  /\ UNCHANGED <<backend, stmtVars, statements, results, rowId, threw, busy, durable, outcome, stale>>

-----------------------------------------------------------------------------
(* Iteration: fetchNext() of the backend, called by begin() and ++. *)

(* The statement has been executed, or is now. *)
Runs(i) == st[i].executed \/ backend = "sqlite" \/ ~Refuses(busy)

(* MySQL sends rows one by one, and does nothing else until the last. *)
Reading(i) == IF backend = "mysql" THEN i ELSE busy
NotReading == IF backend = "mysql" THEN NoImpl ELSE busy

(* Mutant: the cursor is not moved. *)
FetchRowAgain(i) ==
  /\ ~st[i].done /\ ~st[i].stuck /\ Runs(i)
  /\ st[i].row < st[i].size
  /\ st' = [st EXCEPT ![i].executed = TRUE]
  /\ record' = <<i, st[i].row>>
  /\ busy' = Reading(i)
  /\ UNCHANGED <<dbVars, threw>>

(* A row is written into the record. *)
FetchRow(i) ==
  /\ ~st[i].done /\ ~st[i].stuck /\ Runs(i)
  /\ st[i].row < st[i].size
  /\ st' = [st EXCEPT ![i].executed = TRUE, ![i].row = @ + 1]
  /\ record' = <<i, st[i].row>>
  /\ busy' = Reading(i)
  /\ UNCHANGED <<dbVars, threw>>

(* Mutant: the last row is taken for the end. *)
FetchEndEarly(i) ==
  /\ \/ st[i].done /\ UNCHANGED <<st, busy, dbVars>>
     \/ /\ ~st[i].done /\ ~st[i].stuck /\ Runs(i)
        /\ st[i].row + 1 >= st[i].size
        /\ st' = [st EXCEPT ![i].executed = TRUE, ![i].done = TRUE]
        /\ busy' = NotReading
        /\ UNCHANGED dbVars
  /\ UNCHANGED <<record, threw>>

(* Mutant: m_done is not set; SQLite starts again after the last row. *)
FetchEndOpen(i) ==
  /\ ~st[i].done /\ ~st[i].stuck /\ Runs(i)
  /\ st[i].row = st[i].size
  /\ st' = [st EXCEPT ![i].executed = TRUE, ![i].row = IF backend = "sqlite" THEN 0 ELSE @]
  /\ busy' = NotReading
  /\ UNCHANGED <<dbVars, record, threw>>

(* No more rows: m_done was set, or is now; or, on PostgreSQL, the         *)
(* statement could not be executed, which leaves an error result that has  *)
(* no rows.                                                                *)
FetchEnd(i) ==
  /\ \/ st[i].done /\ UNCHANGED <<st, busy, dbVars>>
     \/ /\ ~st[i].done /\ ~st[i].stuck /\ Runs(i)
        /\ st[i].row = st[i].size
        /\ st' = [st EXCEPT ![i].executed = TRUE, ![i].done = TRUE]
        /\ busy' = NotReading
        /\ UNCHANGED dbVars
     \/ /\ backend = "postgres" /\ ~st[i].executed
        /\ Rejected(busy)
        /\ st' = [st EXCEPT ![i].executed = TRUE, ![i].size = 0]
        /\ UNCHANGED busy
  /\ UNCHANGED <<record, threw>>

(* fetchNext() throws: MySQL could not execute the statement; the next row *)
(* could not be read, after which SQLite starts again and MySQL has no     *)
(* result any more; or a column did not fit its field.                     *)
FetchThrow(i) ==
  /\ ~st[i].done
  /\ \/ /\ backend = "mysql" /\ ~st[i].executed
        /\ Rejected(busy)
        /\ UNCHANGED <<st, busy, record>>
     \/ /\ backend # "postgres" /\ ~st[i].stuck /\ Runs(i) /\ Fault
        /\ st' = [st EXCEPT ![i].executed = TRUE, ![i].stuck = (backend = "mysql"),
                            ![i].row = IF backend = "sqlite" THEN 0 ELSE @]
        /\ busy' = NotReading
        /\ UNCHANGED <<poisoned, record>>
     \/ /\ st[i].stuck
        /\ UNCHANGED <<st, busy, dbVars, record>>
     \/ /\ ~st[i].stuck /\ Runs(i) /\ st[i].row < st[i].size /\ Fault
        /\ st' = [st EXCEPT ![i].executed = TRUE, ![i].row = @ + 1]
        /\ record' = NoRecord
        /\ busy' = Reading(i)
        /\ UNCHANGED poisoned
  /\ threw' = threw \cup {i}

(* begin(), once; it may be called again when it threw. *)
Begin(i) ==
  /\ outcome = "open"
  /\ i \in results /\ rowId[i] = INVALID
  /\ \/ FetchRow(i) /\ rowId' = [rowId EXCEPT ![i] = 0]
     \/ FetchEnd(i) /\ rowId' = [rowId EXCEPT ![i] = PAST_THE_END]
     \/ FetchThrow(i) /\ UNCHANGED rowId
  /\ UNCHANGED <<backend, stmtVars, statements, results, changeVars, stale>>

(* ++iterator, also past the end. *)
Advance(i) ==
  /\ outcome = "open"
  /\ i \in results /\ rowId[i] # INVALID
  /\ \/ FetchRow(i) /\ rowId' = [rowId EXCEPT ![i] = @ + 1]
     \/ FetchEnd(i) /\ rowId' = [rowId EXCEPT ![i] = PAST_THE_END]
     \/ FetchThrow(i) /\ UNCHANGED rowId
  /\ UNCHANGED <<backend, stmtVars, statements, results, changeVars, stale>>

(* size(): executes a statement of PostgreSQL or MySQL that was not yet,   *)
(* and then counts the rows of another result object, which has none.      *)
Size(i) ==
  /\ outcome = "open"
  /\ i \in results /\ ~st[i].executed /\ backend # "sqlite"
  /\ \/ /\ Accepted(busy)
        /\ st' = [st EXCEPT ![i].executed = TRUE]
        /\ busy' = Reading(i)
     \/ /\ Rejected(busy)
        /\ st' = IF backend = "postgres"
                 THEN [st EXCEPT ![i].executed = TRUE, ![i].size = 0] ELSE st
        /\ UNCHANGED busy
  /\ UNCHANGED <<backend, stmtVars, statements, resultVars, changeVars, stale>>

(* The result set is destroyed. *)
DropResult(i) ==
  /\ i \in results
  /\ LET gone == {i} \ {impl[s] : s \in Stmt}
     IN  /\ statements' = statements \ gone
         /\ st' = StAfterClose(gone)
         /\ busy' = BusyAfterClose(gone)
  /\ results' = results \ {i} /\ threw' = threw \ {i}
  /\ rowId' = [rowId EXCEPT ![i] = INVALID]
  /\ record' = IF record[1] = i THEN NoRecord ELSE record
  /\ UNCHANGED <<backend, stmtVars, dbVars, changeVars, stale>>

(* SqlTransaction::commit().  PostgreSQL answers COMMIT of a block it has  *)
(* given up with a rollback and no error; a COMMIT that fails may or may   *)
(* not leave the block open.                                               *)
Commit ==
  /\ outcome = "open"
  /\ \/ /\ backend = "mysql" => busy = NoImpl
        /\ durable' = IF poisoned THEN 0 ELSE applied
        /\ outcome' = "committed"
        /\ UNCHANGED dbVars
     \/ /\ backend = "mysql" /\ busy # NoImpl
        /\ UNCHANGED <<durable, outcome, dbVars>>
     \/ /\ Fault
        /\ outcome' \in {"open", "failed"}
        /\ UNCHANGED <<durable, poisoned>>
  /\ UNCHANGED <<backend, stmtVars, statements, st, resultVars, busy, applied, reported, stale>>

Next ==
  \/ \E s \in Stmt : Renew(s) \/ SelectExec(s) \/ Modify(s)
                     \/ InsertPrepare(s) \/ InsertStep(s)
  \/ \E i \in Impl : Begin(i) \/ Advance(i) \/ Size(i) \/ DropResult(i)
  \/ Commit

Spec == Init /\ [][Next]_vars

-----------------------------------------------------------------------------
(* Properties. *)

(* The fields of Fresh, and their values. *)
ImplState == [ready : BOOLEAN, done : BOOLEAN, executed : BOOLEAN,
              row : 0 .. Rows, size : {0, Rows}, stuck : BOOLEAN]

TypeOK ==
  /\ backend \in Backends
  /\ impl \in [Stmt -> Impl \cup {NoImpl}]
  /\ literals \in [Stmt -> Seq(Clause)]
  /\ prepared \subseteq Stmt /\ stale \subseteq Stmt
  /\ statements \subseteq Impl /\ results \subseteq Impl /\ threw \subseteq Impl
  /\ st \in [Impl -> ImplState]
  /\ rowId \in [Impl -> {INVALID, PAST_THE_END} \cup Nat]
  /\ busy \in Impl \cup {NoImpl}
  /\ record \in (Impl \cup {NoImpl}) \X Nat
  /\ poisoned \in BOOLEAN
  /\ applied \in Nat /\ durable \in Nat /\ reported \in Nat /\ faults \in Nat
  /\ outcome \in {"open", "committed", "failed"}

(* The backend's list of statements is what statement objects and result   *)
(* sets hold: every implementation object is closed exactly when the last  *)
(* of them lets go, whatever failed, and no two statements share one.      *)
Owned ==
  /\ statements = {impl[s] : s \in {t \in Stmt : impl[t] # NoImpl}} \cup results
  /\ \A s, t \in Stmt : impl[s] = impl[t] /\ impl[s] # NoImpl => s = t

(* Rows of one statement only are ever unread on a MySQL connection: those *)
(* of the open statement that was executed and has not ended.              *)
OneReader ==
  /\ busy \in statements \cup {NoImpl}
  /\ backend # "mysql" => busy = NoImpl
  /\ backend = "mysql" =>
       \A i \in statements : busy = i <=> st[i].executed /\ ~st[i].done /\ ~st[i].stuck

(* What a statement has delivered agrees with its flags and its iterator.  *)
CursorOK ==
  \A i \in Impl :
    /\ ~st[i].executed => st[i].row = 0 /\ ~st[i].done
    /\ st[i].done => st[i].row = st[i].size
    /\ st[i].stuck /\ backend # "sqlite" => st[i].executed
    /\ st[i].size # Rows => poisoned
    /\ i \notin statements => st[i] = Fresh
    /\ i \notin results => rowId[i] = INVALID /\ i \notin threw
    /\ i \in results \ threw /\ rowId[i] = INVALID => st[i].row = 0
    /\ rowId[i] = PAST_THE_END => /\ st[i].executed /\ st[i].row = st[i].size
                                 /\ (st[i].done \/ backend = "postgres")

(* All of them together, which every call keeps. *)
IInv == /\ TypeOK /\ Owned /\ OneReader /\ CursorOK
        /\ \A s \in prepared : impl[s] # NoImpl

(* While an iteration has not thrown, row id k means that the record was   *)
(* filled with row k, unless something else has been read into the record  *)
(* since: no row is skipped, repeated or counted twice, also when          *)
(* statements are executed, renewed and closed in between.                 *)
RowIsRowId ==
  \A i \in results \ threw :
    rowId[i] >= 0 => /\ st[i].row = rowId[i] + 1
                     /\ record[1] = i => record[2] = rowId[i]

(* An iteration that ends without having thrown has delivered every row,   *)
(* except on PostgreSQL after an error: there a select that could not be   *)
(* executed looks like one that found nothing.                             *)
EndMeansAll ==
  \A i \in results \ threw :
    rowId[i] = PAST_THE_END => st[i].row = Rows \/ poisoned

(* Once at the end, an iterator stays there however often it is advanced. *)
EndIsFinal ==
  [][\A i \in results : (i \in results' /\ rowId[i] = PAST_THE_END)
                           => rowId'[i] = PAST_THE_END]_vars

(* Of the statements here, in which an update is one without set(), only a *)
(* delete that is executed again can run with literals of an earlier       *)
(* clause, and only on MySQL, which ignores the surplus; the other backends*)
(* refuse.  (An update with set() appends its literals as a delete does,   *)
(* and so would run with earlier ones where a delete would.)               *)
StaleOnlyReused ==
  stale # {} => backend = "mysql" /\ \A s \in stale : Kind[s] = "delete"

(* A successful commit has stored what the calls reported as done, except  *)
(* on PostgreSQL after an error inside the block.                          *)
CommitStores == outcome = "committed" => durable = reported \/ poisoned
=============================================================================
