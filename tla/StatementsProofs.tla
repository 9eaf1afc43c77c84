-------------------------- MODULE StatementsProofs --------------------------
(***************************************************************************)
(* What holds of the statements of a transaction for any number of         *)
(* statements, implementation objects, clauses, rows and rejected calls;   *)
(* and of the texts of update and delete statements, for expressions of    *)
(* any depth.                                                              *)
(***************************************************************************)
EXTENDS Statements, Expressions, FiniteSetTheorems, SequenceTheorems, WellFoundedInduction, TLAPS

(* What a statement lets go of exists and is nobody else's. *)
LEMMA DroppedFacts ==
  ASSUME TypeOK, Owned, NEW s \in Stmt
  PROVE  /\ Dropped(s) \subseteq statements \ results
         /\ Dropped(s) \subseteq {impl[s]}
         /\ \A t \in Stmt \ {s} : impl[t] \notin Dropped(s)
         /\ impl[s] \notin results /\ impl[s] # NoImpl => impl[s] \in Dropped(s)
BY DEF Dropped, TypeOK, Owned

LEMMA FreshTyped == Fresh \in ImplState
BY StatementAssumption DEF Fresh, ImplState

(* What closing some implementation objects does to the others. *)
LEMMA CloseState ==
  ASSUME TypeOK, OneReader, CursorOK, NEW gone \in SUBSET statements
  PROVE  /\ StAfterClose(gone) \in [Impl -> ImplState]
         /\ \A j \in gone : StAfterClose(gone)[j] = Fresh
         /\ \A j \in Impl \ statements : StAfterClose(gone)[j] = Fresh
         /\ \A j \in statements \ gone :
              /\ StAfterClose(gone)[j].done = st[j].done
              /\ StAfterClose(gone)[j].executed = st[j].executed
              /\ StAfterClose(gone)[j].row = st[j].row
              /\ StAfterClose(gone)[j].size = st[j].size
              /\ StAfterClose(gone)[j].stuck = (st[j].stuck \/ (Cancels(gone) /\ j = busy))
         /\ BusyAfterClose(gone) \in (statements \ gone) \cup {NoImpl}
<1> DEFINE S == StAfterClose(gone)
<1>1. \A j \in Impl : st[j] \in ImplState
  BY DEF TypeOK
<1>2. ASSUME NEW j \in Impl \ gone
      PROVE  /\ S[j] = [st[j] EXCEPT !.stuck = st[j].stuck \/ (Cancels(gone) /\ j = busy)]
             /\ S[j] \in ImplState
  <2>1. S[j] = [st[j] EXCEPT !.stuck = st[j].stuck \/ (Cancels(gone) /\ j = busy)]
    BY DEF StAfterClose
  <2>2. (st[j].stuck \/ (Cancels(gone) /\ j = busy)) \in BOOLEAN
    OBVIOUS
  <2>3. S[j] \in ImplState
    BY <1>1, <2>1, <2>2 DEF ImplState
  <2>4. QED BY <2>1, <2>3
<1>3. \A j \in gone : S[j] = Fresh
  BY DEF StAfterClose, TypeOK
<1>4. S \in [Impl -> ImplState]
  <2>1. \A j \in Impl : S[j] \in ImplState
    BY <1>2, <1>3, FreshTyped
  <2>2. S = [j \in Impl |-> S[j]]
    BY DEF StAfterClose
  <2>3. QED BY <2>1, <2>2
<1>5. ASSUME NEW j \in Impl \ statements PROVE S[j] = Fresh
  <2>1. st[j] = Fresh /\ j # busy
    BY StatementAssumption DEF CursorOK, OneReader
  <2>2. S[j] = [st[j] EXCEPT !.stuck = st[j].stuck \/ (Cancels(gone) /\ j = busy)]
    BY <1>2
  <2>3. (st[j].stuck \/ (Cancels(gone) /\ j = busy)) = FALSE
    BY <2>1 DEF Fresh
  <2>4. S[j] = [Fresh EXCEPT !.stuck = FALSE]
    BY <2>1, <2>2, <2>3
  <2>5. QED BY <2>4 DEF Fresh
<1>6. ASSUME NEW j \in statements \ gone
      PROVE  /\ S[j].done = st[j].done
             /\ S[j].executed = st[j].executed
             /\ S[j].row = st[j].row
             /\ S[j].size = st[j].size
             /\ S[j].stuck = (st[j].stuck \/ (Cancels(gone) /\ j = busy))
  <2>1. S[j] = [st[j] EXCEPT !.stuck = st[j].stuck \/ (Cancels(gone) /\ j = busy)]
    BY <1>2 DEF TypeOK
  <2>2. st[j] \in ImplState
    BY <1>1 DEF TypeOK
  <2>3. QED BY <2>1, <2>2 DEF ImplState
<1>7. BusyAfterClose(gone) \in (statements \ gone) \cup {NoImpl}
  BY DEF BusyAfterClose, OneReader
<1>8. QED BY <1>3, <1>4, <1>5, <1>6, <1>7

(* After closing, the rows unread are still those of one open statement.   *)
LEMMA CloseReader ==
  ASSUME TypeOK, OneReader, CursorOK, NEW gone \in SUBSET statements
  PROVE  /\ backend # "mysql" => BusyAfterClose(gone) = NoImpl
         /\ backend = "mysql" =>
              \A j \in statements \ gone :
                BusyAfterClose(gone) = j <=> /\ StAfterClose(gone)[j].executed
                                             /\ ~StAfterClose(gone)[j].done
                                             /\ ~StAfterClose(gone)[j].stuck
<1>1. backend # "mysql" => BusyAfterClose(gone) = NoImpl
  BY DEF BusyAfterClose, OneReader
<1>2. ASSUME backend = "mysql", NEW j \in statements \ gone
      PROVE  BusyAfterClose(gone) = j <=> /\ StAfterClose(gone)[j].executed
                                          /\ ~StAfterClose(gone)[j].done
                                          /\ ~StAfterClose(gone)[j].stuck
  <2>1. j # NoImpl
    BY StatementAssumption DEF TypeOK
  <2>2. busy = j <=> st[j].executed /\ ~st[j].done /\ ~st[j].stuck
    BY <1>2 DEF OneReader
  <2>3. CASE Cancels(gone)
    <3>1. BusyAfterClose(gone) = NoImpl
      BY <2>3 DEF BusyAfterClose
    <3>2. QED BY <2>1, <2>2, <2>3, <3>1, CloseState
  <2>4. CASE ~Cancels(gone)
    <3>1. BusyAfterClose(gone) = j <=> busy = j
      BY <2>1, <2>4 DEF BusyAfterClose
    <3>2. QED BY <2>2, <2>4, <3>1, CloseState
  <2>5. QED BY <2>3, <2>4
<1>3. QED BY <1>1, <1>2

(* Objects that exist after closing keep the invariant of their cursor.    *)
LEMMA CloseCursor ==
  ASSUME TypeOK, OneReader, CursorOK, NEW gone \in SUBSET statements,
         NEW j \in Impl
  PROVE  /\ ~StAfterClose(gone)[j].executed =>
              StAfterClose(gone)[j].row = 0 /\ ~StAfterClose(gone)[j].done
         /\ StAfterClose(gone)[j].done => StAfterClose(gone)[j].row = StAfterClose(gone)[j].size
         /\ StAfterClose(gone)[j].stuck /\ backend # "sqlite" => StAfterClose(gone)[j].executed
         /\ StAfterClose(gone)[j].size # Rows => poisoned
         /\ j \notin statements \ gone => StAfterClose(gone)[j] = Fresh
<1>1. CASE j \in statements \ gone
  <2>1. Cancels(gone) /\ j = busy => st[j].executed
    BY <1>1, StatementAssumption DEF OneReader, Cancels
  <2>2. /\ ~st[j].executed => st[j].row = 0 /\ ~st[j].done
        /\ st[j].done => st[j].row = st[j].size
        /\ st[j].stuck /\ backend # "sqlite" => st[j].executed
        /\ st[j].size # Rows => poisoned
    BY DEF CursorOK
  <2>3. QED BY <1>1, <2>1, <2>2, CloseState
<1>2. CASE j \notin statements \ gone
  <2>1. StAfterClose(gone)[j] = Fresh
    BY <1>2, CloseState
  <2>2. QED BY <2>1 DEF Fresh
<1>3. QED BY <1>1, <1>2

-----------------------------------------------------------------------------
(* Literals. *)

LEMMA LiteralsTyped ==
  ASSUME TypeOK, NEW s \in Stmt, NEW c \in Clauses(s)
  PROVE  /\ Own(c) \in Seq(Clause) /\ NewLiterals(s, c) \in Seq(Clause)
<1>1. c \in Clause \cup {NoClause}
  BY DEF Clauses
<1>2. Own(c) \in Seq(Clause)
  BY <1>1 DEF Own
<1>3. literals[s] \in Seq(Clause)
  BY DEF TypeOK
<1>4. literals[s] \o Own(c) \in Seq(Clause)
  BY <1>2, <1>3, ConcatProperties
<1>5. Kind[s] \in {"select", "insert", "update", "delete"}
  BY StatementAssumption
<1>6. QED BY <1>2, <1>3, <1>4, <1>5 DEF NewLiterals, SelectLiterals, UpdateLiterals, DeleteLiterals, InsertLiterals

(* Only a delete with literals of an earlier execution offers others than  *)
(* its own, and then more of them.                                         *)
LEMMA StaleIsSurplus ==
  ASSUME TypeOK, NEW s \in Stmt, NEW c \in Clauses(s),
         SubSeq(NewLiterals(s, c), 1, Len(Own(c))) # Own(c)
  PROVE  Kind[s] = "delete" /\ Surplus(s, c)
<1>1. Own(c) \in Seq(Clause) /\ literals[s] \in Seq(Clause)
  BY LiteralsTyped DEF TypeOK
<1>2. SubSeq(Own(c), 1, Len(Own(c))) = Own(c)
  BY <1>1
<1>3. Kind[s] \in {"select", "insert", "update", "delete"}
  BY StatementAssumption
<1>4. CASE c = NoClause
  <2>1. Own(c) = <<>>
    BY <1>4 DEF Own
  <2>2. SubSeq(NewLiterals(s, c), 1, Len(Own(c))) = <<>>
    BY <2>1, LiteralsTyped
  <2>3. QED BY <2>1, <2>2
<1>5. CASE c # NoClause
  <2>1. Kind[s] = "delete"
    BY <1>2, <1>3, <1>5 DEF NewLiterals, SelectLiterals, UpdateLiterals, Clauses
  <2>2. NewLiterals(s, c) = literals[s] \o Own(c)
    BY <2>1 DEF NewLiterals, DeleteLiterals
  <2>3. CASE literals[s] = <<>>
    <3>1. literals[s] \o Own(c) = Own(c)
      BY <1>1, <2>3, ConcatEmptySeq
    <3>2. QED BY <1>2, <2>2, <3>1
  <2>4. CASE literals[s] # <<>>
    <3>1. Len(literals[s]) > 0
      BY <1>1, <2>4, EmptySeq
    <3>2. Len(literals[s] \o Own(c)) = Len(literals[s]) + Len(Own(c))
      BY <1>1, ConcatProperties
    <3>3. Len(Own(c)) \in Nat /\ Len(literals[s]) \in Nat
      BY <1>1, LenProperties
    <3>4. QED BY <2>1, <2>2, <3>1, <3>2, <3>3 DEF Surplus
  <2>5. QED BY <2>3, <2>4
<1>6. QED BY <1>4, <1>5

-----------------------------------------------------------------------------
(* A new implementation object. *)

(* The state of the objects after createImpl(). *)
LEMMA CreateState ==
  ASSUME TypeOK, Owned, OneReader, CursorOK,
         NEW s \in Stmt, NEW c \in Clauses(s), NEW i \in Impl, NEW ready \in BOOLEAN,
         CreateImpl(s, c, i, ready)
  PROVE  /\ i \notin statements
         /\ st' \in [Impl -> ImplState]
         /\ st'[i] = [Fresh EXCEPT !.ready = ready]
         /\ \A j \in Impl \ {i} : st'[j] = StAfterClose(Dropped(s))[j]
<1>1. /\ i \notin statements
      /\ st' = [StAfterClose(Dropped(s)) EXCEPT ![i].ready = ready]
  BY DEF CreateImpl, NewImpl
<1>2. Dropped(s) \in SUBSET statements
  BY DroppedFacts
<1>3. /\ StAfterClose(Dropped(s)) \in [Impl -> ImplState]
      /\ StAfterClose(Dropped(s))[i] = Fresh
  BY <1>1, <1>2, CloseState
<1>4. st'[i] = [Fresh EXCEPT !.ready = ready]
  BY <1>1, <1>3
<1>5. [Fresh EXCEPT !.ready = ready] \in ImplState
  BY FreshTyped DEF Fresh, ImplState
<1>6. st' \in [Impl -> ImplState]
  BY <1>1, <1>3, <1>4, <1>5
<1>7. QED BY <1>1, <1>3, <1>4, <1>6

(* createImpl() keeps every part of the invariant that it can touch,       *)
(* whatever the request that follows does.                                 *)
LEMMA CreateKeeps ==
  ASSUME IInv,
         NEW s \in Stmt, NEW c \in Clauses(s), NEW i \in Impl, NEW ready \in BOOLEAN,
         CreateImpl(s, c, i, ready),
         results' = results \/ results' = results \cup {i},
         poisoned => poisoned',
         prepared' = prepared \/ prepared' = prepared \cup {s}
  PROVE  /\ Owned' /\ OneReader' /\ CursorOK'
         /\ backend' \in Backends /\ impl' \in [Stmt -> Impl \cup {NoImpl}]
         /\ literals' \in [Stmt -> Seq(Clause)]
         /\ statements' \subseteq Impl /\ results' \subseteq Impl /\ threw' \subseteq Impl
         /\ st' \in [Impl -> ImplState]
         /\ rowId' \in [Impl -> {INVALID, PAST_THE_END} \cup Nat]
         /\ busy' \in Impl \cup {NoImpl}
         /\ record' \in (Impl \cup {NoImpl}) \X Nat
         /\ \A t \in prepared' : impl'[t] # NoImpl
<1> DEFINE D == Dropped(s)
<1>0. TypeOK /\ Owned /\ OneReader /\ CursorOK /\ \A t \in prepared : impl[t] # NoImpl
  BY DEF IInv
<1>1. /\ i \notin statements /\ i # NoImpl
      /\ impl' = [impl EXCEPT ![s] = i]
      /\ statements' = (statements \ D) \cup {i}
      /\ literals' = [literals EXCEPT ![s] = NewLiterals(s, c)]
      /\ busy' = BusyAfterClose(D)
      /\ UNCHANGED <<backend, rowId, record, threw>>
  BY StatementAssumption DEF CreateImpl, NewImpl
<1>2. D \in SUBSET statements
  BY <1>0, DroppedFacts
<1>3. /\ impl' \in [Stmt -> Impl \cup {NoImpl}]
      /\ statements' \subseteq Impl /\ results' \subseteq Impl /\ threw' \subseteq Impl
      /\ backend' \in Backends
      /\ rowId' \in [Impl -> {INVALID, PAST_THE_END} \cup Nat]
      /\ record' \in (Impl \cup {NoImpl}) \X Nat
  BY <1>0, <1>1 DEF TypeOK
<1>4. literals' \in [Stmt -> Seq(Clause)]
  BY <1>0, <1>1, LiteralsTyped DEF TypeOK
<1>5. busy' \in (statements \ D) \cup {NoImpl}
  BY <1>0, <1>1, <1>2, CloseState
<1>6. Owned'
  <2>1. \A t \in Stmt : impl'[t] = IF t = s THEN i ELSE impl[t]
    BY <1>0, <1>1 DEF TypeOK
  <2>2. \A t \in Stmt : impl[t] # i
    BY <1>0, <1>1 DEF Owned
  <2>3. \A t, u \in Stmt : impl'[t] = impl'[u] /\ impl'[t] # NoImpl => t = u
    BY <1>0, <2>1, <2>2 DEF Owned
  <2>4. /\ D \cap results = {} /\ D \subseteq {impl[s]}
        /\ \A t \in Stmt \ {s} : impl[t] \notin D
        /\ impl[s] \notin results /\ impl[s] # NoImpl => impl[s] \in D
    BY <1>0, DroppedFacts
  <2>5. ASSUME NEW j PROVE j \in statements' <=> j \in {impl'[t] : t \in {u \in Stmt : impl'[u] # NoImpl}} \cup results'
    <3>1. j \in statements <=> j \in results \/ \E t \in Stmt : impl[t] = j /\ j # NoImpl
      BY <1>0 DEF Owned
    <3>2. (\E t \in Stmt : impl'[t] = j /\ j # NoImpl)
            <=> j = i \/ \E t \in Stmt \ {s} : impl[t] = j /\ j # NoImpl
      BY <1>1, <2>1
    <3>3. CASE j = i
      BY <1>1, <2>1, <3>3
    <3>4. CASE j # i
      <4>1. j \in statements' <=> j \in statements /\ j \notin D
        BY <1>1, <3>4
      <4>2. j \in results' <=> j \in results
        BY <3>4
      <4>3. j \in D <=> j = impl[s] /\ j # NoImpl /\ j \notin results
        BY <2>4, <1>2, <1>0, StatementAssumption DEF TypeOK
      <4>4. (\E t \in Stmt \ {s} : impl[t] = j /\ j # NoImpl) => j \notin D
        BY <2>4
      <4>5. j \in statements' <=> j \in results \/ \E t \in Stmt \ {s} : impl[t] = j /\ j # NoImpl
        BY <3>1, <4>1, <4>3, <4>4
      <4>6. QED BY <3>2, <3>4, <4>2, <4>5
    <3>5. QED BY <3>3, <3>4
  <2>6. statements' = {impl'[t] : t \in {u \in Stmt : impl'[u] # NoImpl}} \cup results'
    BY <2>5
  <2>7. QED BY <2>3, <2>6 DEF Owned
<1>7. /\ st' \in [Impl -> ImplState]
      /\ st'[i] = [Fresh EXCEPT !.ready = ready]
      /\ \A j \in Impl \ {i} : st'[j] = StAfterClose(D)[j]
  BY <1>0, CreateState
<1>8. /\ ~st'[i].executed /\ ~st'[i].done /\ ~st'[i].stuck
      /\ st'[i].row = 0 /\ st'[i].size = Rows
  BY <1>7 DEF Fresh
<1>9. OneReader'
  <2>1. busy' \in statements' \cup {NoImpl} /\ (backend' # "mysql" => busy' = NoImpl)
    BY <1>0, <1>1, <1>2, <1>5, CloseReader
  <2>2. ASSUME backend' = "mysql", NEW j \in statements'
        PROVE  busy' = j <=> st'[j].executed /\ ~st'[j].done /\ ~st'[j].stuck
    <3>1. CASE j = i
      <4>1. busy' # i
        BY <1>1, <1>5
      <4>2. QED BY <1>8, <3>1, <4>1
    <3>2. CASE j # i
      <4>1. j \in statements \ D /\ st'[j] = StAfterClose(D)[j] /\ backend = "mysql"
        BY <1>0, <1>1, <1>7, <2>2, <3>2 DEF TypeOK
      <4>2. QED BY <1>0, <1>1, <1>2, <4>1, CloseReader
    <3>3. QED BY <3>1, <3>2
  <2>3. QED BY <2>1, <2>2 DEF OneReader
<1>10. i \notin results /\ rowId[i] = INVALID /\ i \notin threw
  BY <1>0, <1>1 DEF Owned, CursorOK
<1>11. CursorOK'
  <2> SUFFICES ASSUME NEW j \in Impl
               PROVE  /\ ~st'[j].executed => st'[j].row = 0 /\ ~st'[j].done
                      /\ st'[j].done => st'[j].row = st'[j].size
                      /\ st'[j].stuck /\ backend' # "sqlite" => st'[j].executed
                      /\ st'[j].size # Rows => poisoned'
                      /\ j \notin statements' => st'[j] = Fresh
                      /\ j \notin results' => rowId'[j] = INVALID /\ j \notin threw'
                      /\ j \in results' \ threw' /\ rowId'[j] = INVALID => st'[j].row = 0
                      /\ rowId'[j] = PAST_THE_END =>
                           /\ st'[j].executed /\ st'[j].row = st'[j].size
                           /\ (st'[j].done \/ backend' = "postgres")
    BY DEF CursorOK
  <2>1. CASE j = i
    <3>1. rowId'[j] = INVALID /\ j \notin threw' /\ j \in statements'
      BY <1>1, <1>10, <2>1
    <3>2. QED BY <1>8, <2>1, <3>1 DEF INVALID, PAST_THE_END
  <2>2. CASE j # i
    <3>1. /\ ~st'[j].executed => st'[j].row = 0 /\ ~st'[j].done
          /\ st'[j].done => st'[j].row = st'[j].size
          /\ st'[j].stuck /\ backend' # "sqlite" => st'[j].executed
          /\ st'[j].size # Rows => poisoned'
          /\ j \notin statements \ D => st'[j] = Fresh
      <4>1. st'[j] = StAfterClose(D)[j] /\ backend' = backend
        BY <1>1, <1>7, <2>2
      <4>2. QED BY <1>0, <1>2, <4>1, CloseCursor
    <3>2. /\ j \in statements' <=> j \in statements \ D
          /\ j \in results' <=> j \in results
          /\ rowId'[j] = rowId[j] /\ (j \in threw' <=> j \in threw)
      BY <1>1, <2>2
    <3>3. /\ j \notin results => rowId[j] = INVALID /\ j \notin threw
          /\ j \in results \ threw /\ rowId[j] = INVALID => st[j].row = 0
          /\ rowId[j] = PAST_THE_END =>
               /\ st[j].executed /\ st[j].row = st[j].size
               /\ (st[j].done \/ backend = "postgres")
      BY <1>0 DEF CursorOK
    <3>4. j \in results => /\ st'[j].row = st[j].row /\ st'[j].executed = st[j].executed
                           /\ st'[j].size = st[j].size /\ st'[j].done = st[j].done
      <4>1. j \in results => j \in statements \ D
        BY <1>0, DroppedFacts DEF Owned
      <4>2. QED BY <1>0, <1>2, <1>7, <2>2, <4>1, CloseState
    <3>5. rowId[j] = PAST_THE_END => j \in results
      BY <3>3 DEF INVALID, PAST_THE_END
    <3>6. QED BY <1>1, <3>1, <3>2, <3>3, <3>4, <3>5
  <2>3. QED BY <2>1, <2>2
<1>12. \A t \in prepared' : impl'[t] # NoImpl
  BY <1>0, <1>1 DEF TypeOK
<1>13. QED BY <1>0, <1>3, <1>4, <1>5, <1>6, <1>7, <1>9, <1>11, <1>12 DEF TypeOK

-----------------------------------------------------------------------------
(* A step of one result set. *)

(* The part of CursorOK about one object. *)
Agrees(j) ==
  /\ ~st[j].executed => st[j].row = 0 /\ ~st[j].done
  /\ st[j].done => st[j].row = st[j].size
  /\ st[j].stuck /\ backend # "sqlite" => st[j].executed
  /\ st[j].size # Rows => poisoned
  /\ j \notin statements => st[j] = Fresh
  /\ j \notin results => rowId[j] = INVALID /\ j \notin threw
  /\ j \in results \ threw /\ rowId[j] = INVALID => st[j].row = 0
  /\ rowId[j] = PAST_THE_END => /\ st[j].executed /\ st[j].row = st[j].size
                               /\ (st[j].done \/ backend = "postgres")

Reads(j) == st[j].executed /\ ~st[j].done /\ ~st[j].stuck

LEMMA CursorIsAgrees == CursorOK <=> \A j \in Impl : Agrees(j)
BY DEF CursorOK, Agrees

(* A step that changes one open object keeps the invariant if it does so   *)
(* for that object and looks after the rows that are unread.               *)
LEMMA OneObject ==
  ASSUME IInv, NEW i \in statements,
         UNCHANGED <<backend, impl, statements, results>>,
         poisoned => poisoned',
         \A j \in Impl \ {i} : /\ st'[j] = st[j] /\ rowId'[j] = rowId[j]
                               /\ j \in threw' <=> j \in threw,
         Agrees(i)',
         backend # "mysql" => busy' = busy,
         backend = "mysql" => \/ busy' = busy /\ (Reads(i)' <=> Reads(i))
                              \/ /\ busy \in {i, NoImpl} /\ busy' \in {i, NoImpl}
                                 /\ busy' = i <=> Reads(i)'
  PROVE  Owned' /\ OneReader' /\ CursorOK'
<1>0. TypeOK /\ Owned /\ OneReader /\ CursorOK
  BY DEF IInv
<1>1. Owned'
  BY <1>0 DEF Owned
<1>2. CursorOK'
  <2>1. ASSUME NEW j \in Impl \ {i} PROVE Agrees(j)'
    <3>1. Agrees(j)
      BY <1>0, CursorIsAgrees
    <3>2. st'[j] = st[j] /\ rowId'[j] = rowId[j] /\ (j \in threw' <=> j \in threw)
      OBVIOUS
    <3>3. QED BY <3>1, <3>2 DEF Agrees
  <2>2. \A j \in Impl : Agrees(j)'
    BY <2>1
  <2>3. QED BY <2>2 DEF CursorOK, Agrees
<1>3. OneReader'
  <2>1. i \in Impl /\ i # NoImpl /\ statements \subseteq Impl
    BY <1>0, StatementAssumption DEF TypeOK
  <2>2. CASE backend # "mysql"
    BY <1>0, <2>2 DEF OneReader
  <2>3. CASE backend = "mysql"
    <3>1. \A j \in statements : busy = j <=> Reads(j)
      BY <1>0, <2>3 DEF OneReader, Reads
    <3>2. \A j \in statements \ {i} : Reads(j)' <=> Reads(j)
      BY <2>1 DEF Reads
    <3>3. busy' \in statements \cup {NoImpl}
      BY <1>0, <2>3 DEF OneReader
    <3>4. \A j \in statements : busy' = j <=> Reads(j)'
      BY <2>1, <2>3, <3>1, <3>2, StatementAssumption
    <3>5. QED BY <2>3, <3>3, <3>4 DEF OneReader, Reads
  <2>4. QED BY <2>2, <2>3
<1>4. QED BY <1>1, <1>2, <1>3

(* How st' looks in the steps of the cursor. *)
LEMMA FetchRowState ==
  ASSUME TypeOK, OneReader, CursorOK, NEW i \in statements, FetchRow(i)
  PROVE  /\ st' \in [Impl -> ImplState]
         /\ \A j \in Impl \ {i} : st'[j] = st[j]
         /\ st'[i].executed /\ ~st'[i].done /\ ~st'[i].stuck
         /\ st'[i].row = st[i].row + 1 /\ st'[i].size = st[i].size
         /\ st[i].row < st[i].size /\ st[i].row \in Nat
         /\ ~st[i].done
         /\ UNCHANGED <<poisoned, faults, threw>>
         /\ record' = <<i, st[i].row>> /\ busy' = Reading(i)
         /\ backend = "mysql" => busy \in {i, NoImpl}
<1>1. i \in Impl /\ st[i] \in ImplState
  BY DEF TypeOK
<1>2. /\ ~st[i].done /\ ~st[i].stuck /\ Runs(i)
      /\ st[i].row < st[i].size
      /\ st' = [st EXCEPT ![i] = [st[i] EXCEPT !.executed = TRUE, !.row = st[i].row + 1]]
      /\ UNCHANGED <<poisoned, faults, threw>>
      /\ record' = <<i, st[i].row>> /\ busy' = Reading(i)
  BY <1>1 DEF FetchRow, dbVars, TypeOK
<1>3. st'[i] = [st[i] EXCEPT !.executed = TRUE, !.row = st[i].row + 1]
  BY <1>1, <1>2 DEF TypeOK
<1>4. st[i].row + 1 \in 0 .. Rows /\ st[i].row \in Nat
  BY <1>1, <1>2, StatementAssumption DEF ImplState
<1>5. st'[i] \in ImplState
  BY <1>1, <1>3, <1>4 DEF ImplState
<1>6. st' \in [Impl -> ImplState] /\ \A j \in Impl \ {i} : st'[j] = st[j]
  BY <1>2, <1>3, <1>5 DEF TypeOK
<1>7. /\ st'[i].executed /\ ~st'[i].done /\ ~st'[i].stuck
      /\ st'[i].row = st[i].row + 1 /\ st'[i].size = st[i].size
  BY <1>1, <1>2, <1>3 DEF ImplState
<1>8. backend = "mysql" => busy \in {i, NoImpl}
  BY <1>2 DEF Runs, Refuses, OneReader
<1>9. QED BY <1>2, <1>4, <1>6, <1>7, <1>8

(* A rejected request, and what it leaves behind. *)
LEMMA RejectedFacts ==
  ASSUME TypeOK, NEW b, Rejected(b)
  PROVE  /\ poisoned' \in BOOLEAN /\ (poisoned => poisoned') /\ faults' \in Nat
         /\ backend = "postgres" => poisoned' = TRUE
<1>1. CASE Refuses(b) /\ UNCHANGED dbVars
  BY <1>1 DEF dbVars, Refuses, TypeOK
<1>2. CASE Fault /\ poisoned' = (poisoned \/ backend = "postgres")
  <2>1. faults' \in Nat
    BY <1>2 DEF Fault, TypeOK
  <2>2. poisoned' \in BOOLEAN
    BY <1>2
  <2>3. poisoned => poisoned'
    BY <1>2
  <2>4. backend = "postgres" => poisoned' = TRUE
    BY <1>2
  <2>5. QED BY <2>1, <2>2, <2>3, <2>4
<1>3. QED BY <1>1, <1>2 DEF Rejected

(* Fetching the end.  The third case is PostgreSQL's failed execution.     *)
LEMMA FetchEndState ==
  ASSUME TypeOK, OneReader, CursorOK, NEW i \in statements, FetchEnd(i)
  PROVE  /\ st' \in [Impl -> ImplState]
         /\ \A j \in Impl \ {i} : st'[j] = st[j]
         /\ \/ st[i].done /\ st' = st /\ busy' = busy /\ UNCHANGED <<poisoned, faults>>
            \/ /\ st'[i].executed /\ st'[i].done /\ ~st'[i].stuck
               /\ st'[i].row = st[i].row /\ st'[i].size = st[i].size
               /\ st[i].row = st[i].size
               /\ UNCHANGED <<poisoned, faults>>
               /\ busy' = NotReading
               /\ backend = "mysql" => busy \in {i, NoImpl}
            \/ /\ backend = "postgres" /\ poisoned' = TRUE /\ faults' \in Nat
               /\ st'[i].executed /\ st'[i].row = 0 /\ st'[i].size = 0
               /\ st'[i].done = st[i].done /\ st'[i].stuck = st[i].stuck
               /\ busy' = busy
         /\ UNCHANGED <<record, threw>>
<1>1. i \in Impl /\ st[i] \in ImplState
  BY DEF TypeOK
<1>2. CASE st[i].done /\ UNCHANGED <<st, busy, dbVars>> /\ UNCHANGED <<record, threw>>
  BY <1>2 DEF TypeOK, dbVars
<1>3. CASE /\ ~st[i].done /\ ~st[i].stuck /\ Runs(i)
           /\ st[i].row = st[i].size
           /\ st' = [st EXCEPT ![i] = [st[i] EXCEPT !.executed = TRUE, !.done = TRUE]]
           /\ busy' = NotReading
           /\ UNCHANGED dbVars /\ UNCHANGED <<record, threw>>
  <2>1. st'[i] = [st[i] EXCEPT !.executed = TRUE, !.done = TRUE]
    BY <1>1, <1>3 DEF TypeOK
  <2>2. st'[i] \in ImplState
    BY <1>1, <2>1 DEF ImplState
  <2>3. st' \in [Impl -> ImplState] /\ \A j \in Impl \ {i} : st'[j] = st[j]
    BY <1>3, <2>2 DEF TypeOK
  <2>4. /\ st'[i].executed /\ st'[i].done /\ ~st'[i].stuck
        /\ st'[i].row = st[i].row /\ st'[i].size = st[i].size
    BY <1>1, <1>3, <2>1 DEF ImplState
  <2>5. backend = "mysql" => busy \in {i, NoImpl}
    BY <1>3 DEF Runs, Refuses, OneReader
  <2>6. QED BY <1>3, <2>3, <2>4, <2>5 DEF dbVars
<1>4. CASE /\ backend = "postgres" /\ ~st[i].executed
           /\ Rejected(busy)
           /\ st' = [st EXCEPT ![i] = [st[i] EXCEPT !.executed = TRUE, !.size = 0]]
           /\ UNCHANGED busy /\ UNCHANGED <<record, threw>>
  <2>1. st'[i] = [st[i] EXCEPT !.executed = TRUE, !.size = 0]
    BY <1>1, <1>4 DEF TypeOK
  <2>2. st'[i] \in ImplState
    BY <1>1, <2>1 DEF ImplState
  <2>3. st' \in [Impl -> ImplState] /\ \A j \in Impl \ {i} : st'[j] = st[j]
    BY <1>4, <2>2 DEF TypeOK
  <2>4. st[i].row = 0
    BY <1>1, <1>4 DEF CursorOK
  <2>5. /\ st'[i].executed /\ st'[i].row = 0 /\ st'[i].size = 0
        /\ st'[i].done = st[i].done /\ st'[i].stuck = st[i].stuck
    BY <1>1, <2>1, <2>4 DEF ImplState
  <2>6. poisoned' = TRUE /\ faults' \in Nat
    BY <1>4, RejectedFacts
  <2>7. QED BY <1>4, <2>3, <2>5, <2>6
<1>5. QED BY <1>1, <1>2, <1>3, <1>4 DEF FetchEnd, TypeOK

(* A fetch that throws. *)
LEMMA FetchThrowState ==
  ASSUME TypeOK, OneReader, CursorOK, NEW i \in statements, FetchThrow(i)
  PROVE  /\ st' \in [Impl -> ImplState]
         /\ \A j \in Impl \ {i} : st'[j] = st[j]
         /\ threw' = threw \cup {i} /\ record' \in {record, NoRecord}
         /\ poisoned' \in BOOLEAN /\ (poisoned => poisoned') /\ faults' \in Nat
         /\ ~st[i].done
         /\ \/ st' = st /\ busy' = busy
            \/ /\ st'[i].executed /\ ~st'[i].done /\ st'[i].size = st[i].size
               /\ st'[i].stuck = (backend = "mysql")
               /\ backend # "postgres"
               /\ busy' = NotReading
               /\ backend = "mysql" => busy \in {i, NoImpl}
            \/ /\ st'[i].executed /\ ~st'[i].done /\ ~st'[i].stuck /\ st'[i].size = st[i].size
               /\ st[i].row < st[i].size
               /\ busy' = Reading(i)
               /\ backend = "mysql" => busy \in {i, NoImpl}
<1>1. i \in Impl /\ st[i] \in ImplState
  BY DEF TypeOK
<1>0. ~st[i].done /\ threw' = threw \cup {i}
  BY DEF FetchThrow
<1>2. CASE /\ backend = "mysql" /\ ~st[i].executed
           /\ Rejected(busy)
           /\ UNCHANGED <<st, busy, record>>
  <2>1. poisoned' \in BOOLEAN /\ (poisoned => poisoned') /\ faults' \in Nat
    BY <1>2, RejectedFacts
  <2>2. QED BY <1>0, <1>2, <2>1 DEF TypeOK
<1>3. CASE /\ backend # "postgres" /\ ~st[i].stuck /\ Runs(i) /\ Fault
           /\ st' = [st EXCEPT ![i] = [st[i] EXCEPT !.executed = TRUE, !.stuck = (backend = "mysql"),
                                       !.row = IF backend = "sqlite" THEN 0 ELSE st[i].row]]
           /\ busy' = NotReading
           /\ UNCHANGED <<poisoned, record>>
  <2>1. st'[i] = [st[i] EXCEPT !.executed = TRUE, !.stuck = (backend = "mysql"),
                               !.row = IF backend = "sqlite" THEN 0 ELSE st[i].row]
    BY <1>1, <1>3 DEF TypeOK
  <2>2. (IF backend = "sqlite" THEN 0 ELSE st[i].row) \in 0 .. Rows
    BY <1>1, StatementAssumption DEF ImplState
  <2>3. (backend = "mysql") \in BOOLEAN
    OBVIOUS
  <2>4. st'[i] \in ImplState
    BY <1>1, <2>1, <2>2, <2>3 DEF ImplState
  <2>5. st' \in [Impl -> ImplState] /\ \A j \in Impl \ {i} : st'[j] = st[j]
    BY <1>3, <2>4 DEF TypeOK
  <2>6. /\ st'[i].executed /\ ~st'[i].done /\ st'[i].size = st[i].size
        /\ st'[i].stuck = (backend = "mysql")
    BY <1>0, <1>1, <2>1 DEF ImplState
  <2>7. backend = "mysql" => busy \in {i, NoImpl}
    BY <1>0, <1>3 DEF Runs, Refuses, OneReader
  <2>8. faults' \in Nat
    BY <1>3 DEF Fault, TypeOK
  <2>9. QED BY <1>0, <1>3, <2>5, <2>6, <2>7, <2>8 DEF TypeOK
<1>4. CASE st[i].stuck /\ UNCHANGED <<st, busy, dbVars, record>>
  BY <1>0, <1>4 DEF dbVars, TypeOK
<1>5. CASE /\ ~st[i].stuck /\ Runs(i) /\ st[i].row < st[i].size /\ Fault
           /\ st' = [st EXCEPT ![i] = [st[i] EXCEPT !.executed = TRUE, !.row = st[i].row + 1]]
           /\ record' = NoRecord
           /\ busy' = Reading(i)
           /\ UNCHANGED poisoned
  <2>1. st'[i] = [st[i] EXCEPT !.executed = TRUE, !.row = st[i].row + 1]
    BY <1>1, <1>5 DEF TypeOK
  <2>2. st[i].row + 1 \in 0 .. Rows
    BY <1>1, <1>5, StatementAssumption DEF ImplState
  <2>3. st'[i] \in ImplState
    BY <1>1, <2>1, <2>2 DEF ImplState
  <2>4. st' \in [Impl -> ImplState] /\ \A j \in Impl \ {i} : st'[j] = st[j]
    BY <1>5, <2>3 DEF TypeOK
  <2>5. st'[i].executed /\ ~st'[i].done /\ ~st'[i].stuck /\ st'[i].size = st[i].size
    BY <1>0, <1>1, <1>5, <2>1 DEF ImplState
  <2>6. backend = "mysql" => busy \in {i, NoImpl}
    BY <1>0, <1>5 DEF Runs, Refuses, OneReader
  <2>7. faults' \in Nat
    BY <1>5 DEF Fault, TypeOK
  <2>8. QED BY <1>0, <1>5, <2>4, <2>5, <2>6, <2>7 DEF TypeOK
<1>6. QED BY <1>1, <1>2, <1>3, <1>4, <1>5 DEF FetchThrow, TypeOK

(* What begin() and ++ share: an iterator of an open object is moved. *)
LEMMA FetchKeeps ==
  ASSUME IInv, RowIsRowId, NEW i \in results,
         \/ FetchRow(i) /\ rowId' = [rowId EXCEPT ![i] = IF rowId[i] = INVALID THEN 0 ELSE @ + 1]
         \/ FetchEnd(i) /\ rowId' = [rowId EXCEPT ![i] = PAST_THE_END]
         \/ FetchThrow(i) /\ rowId' = rowId,
         UNCHANGED <<backend, stmtVars, statements, results, changeVars, stale>>
  PROVE  /\ IInv' /\ RowIsRowId'
         /\ \A j \in results : rowId[j] = PAST_THE_END => rowId'[j] = PAST_THE_END
<1>0. /\ TypeOK /\ Owned /\ OneReader /\ CursorOK /\ i \in statements /\ i \in Impl
      /\ \A t \in prepared : impl[t] # NoImpl
  BY DEF IInv, Owned, TypeOK
<1>1. /\ backend' = backend /\ impl' = impl /\ literals' = literals /\ prepared' = prepared
      /\ statements' = statements /\ results' = results /\ stale' = stale
      /\ applied' = applied /\ durable' = durable /\ outcome' = outcome /\ reported' = reported
  BY DEF stmtVars, changeVars
<1>2. Agrees(i) /\ i # NoImpl
  BY <1>0, CursorIsAgrees, StatementAssumption
<1>3. st[i] \in ImplState /\ rowId[i] \in {INVALID, PAST_THE_END} \cup Nat
  BY <1>0 DEF TypeOK
<1>4. CASE FetchRow(i) /\ rowId' = [rowId EXCEPT ![i] = IF rowId[i] = INVALID THEN 0 ELSE @ + 1]
  <2>1. /\ st' \in [Impl -> ImplState]
        /\ \A j \in Impl \ {i} : st'[j] = st[j]
        /\ st'[i].executed /\ ~st'[i].done /\ ~st'[i].stuck
        /\ st'[i].row = st[i].row + 1 /\ st'[i].size = st[i].size
        /\ st[i].row < st[i].size /\ st[i].row \in Nat /\ ~st[i].done
        /\ UNCHANGED <<poisoned, faults, threw>>
        /\ record' = <<i, st[i].row>> /\ busy' = Reading(i)
        /\ backend = "mysql" => busy \in {i, NoImpl}
    BY <1>0, <1>4, FetchRowState
  <2>2. rowId[i] # PAST_THE_END
    <3>1. rowId[i] = PAST_THE_END => st[i].row = st[i].size
      BY <1>2 DEF Agrees
    <3>2. st[i].row # st[i].size
      BY <2>1, <1>3, StatementAssumption DEF ImplState
    <3>3. QED BY <3>1, <3>2
  <2>3. rowId' \in [Impl -> {INVALID, PAST_THE_END} \cup Nat]
    BY <1>0, <1>3, <1>4, <2>2 DEF TypeOK
  <2>4. rowId'[i] \in Nat /\ \A j \in Impl \ {i} : rowId'[j] = rowId[j]
    BY <1>0, <1>3, <1>4, <2>2 DEF TypeOK
  <2>5. Agrees(i)'
    BY <1>0, <1>1, <1>2, <2>1, <2>4 DEF Agrees, INVALID, PAST_THE_END
  <2>6. (backend # "mysql" => busy' = busy) /\ (backend = "mysql" => busy' = i)
    BY <2>1 DEF Reading
  <2>7. Owned' /\ OneReader' /\ CursorOK'
    BY <1>0, <1>1, <2>1, <2>4, <2>5, <2>6, OneObject DEF Reads
  <2>8. TypeOK'
    BY <1>0, <1>1, <2>1, <2>3, <2>6 DEF TypeOK
  <2>9. ASSUME NEW j \in results' \ threw', rowId'[j] >= 0
        PROVE  st'[j].row = rowId'[j] + 1 /\ (record'[1] = j => record'[2] = rowId'[j])
    <3>1. CASE j = i
      <4>1. rowId[i] = INVALID => st[i].row = 0
        BY <1>1, <1>2, <2>1, <2>9, <3>1 DEF Agrees
      <4>2. rowId[i] # INVALID => st[i].row = rowId[i] + 1
        BY <1>1, <1>3, <2>1, <2>2, <2>9, <3>1 DEF RowIsRowId
      <4>3. rowId'[i] = IF rowId[i] = INVALID THEN 0 ELSE rowId[i] + 1
        BY <1>0, <1>4 DEF TypeOK
      <4>4. QED BY <2>1, <3>1, <4>1, <4>2, <4>3
    <3>2. CASE j # i
      BY <1>0, <1>1, <2>1, <2>4, <2>9, <3>2 DEF RowIsRowId, TypeOK
    <3>3. QED BY <3>1, <3>2
  <2>10. RowIsRowId'
    BY <2>9 DEF RowIsRowId
  <2>11. QED BY <1>0, <1>1, <2>2, <2>4, <2>7, <2>8, <2>10 DEF IInv, TypeOK
<1>5. CASE FetchEnd(i) /\ rowId' = [rowId EXCEPT ![i] = PAST_THE_END]
  <2>1. /\ st' \in [Impl -> ImplState]
        /\ \A j \in Impl \ {i} : st'[j] = st[j]
        /\ UNCHANGED <<record, threw>>
    BY <1>0, <1>5, FetchEndState
  <2>2. /\ rowId' \in [Impl -> {INVALID, PAST_THE_END} \cup Nat]
        /\ rowId'[i] = PAST_THE_END /\ \A j \in Impl \ {i} : rowId'[j] = rowId[j]
    BY <1>0, <1>5 DEF TypeOK
  <2>3. /\ Agrees(i)' /\ busy' \in Impl \cup {NoImpl}
        /\ poisoned' \in BOOLEAN /\ (poisoned => poisoned') /\ faults' \in Nat
        /\ backend # "mysql" => busy' = busy
        /\ backend = "mysql" => \/ busy' = busy /\ (Reads(i)' <=> Reads(i))
                                \/ /\ busy \in {i, NoImpl} /\ busy' \in {i, NoImpl}
                                   /\ busy' = i <=> Reads(i)'
    <3>1. CASE st[i].done /\ st' = st /\ busy' = busy /\ UNCHANGED <<poisoned, faults>>
      BY <1>0, <1>1, <1>2, <2>1, <2>2, <3>1 DEF Agrees, Reads, TypeOK, INVALID, PAST_THE_END
    <3>2. CASE /\ st'[i].executed /\ st'[i].done /\ ~st'[i].stuck
               /\ st'[i].row = st[i].row /\ st'[i].size = st[i].size
               /\ st[i].row = st[i].size
               /\ UNCHANGED <<poisoned, faults>>
               /\ busy' = NotReading
               /\ backend = "mysql" => busy \in {i, NoImpl}
      <4>1. Agrees(i)'
        BY <1>0, <1>1, <1>2, <2>1, <2>2, <3>2 DEF Agrees, INVALID, PAST_THE_END
      <4>2. QED BY <1>0, <1>2, <3>2, <4>1 DEF Reads, NotReading, TypeOK
    <3>3. CASE /\ backend = "postgres" /\ poisoned' = TRUE /\ faults' \in Nat
               /\ st'[i].executed /\ st'[i].row = 0 /\ st'[i].size = 0
               /\ st'[i].done = st[i].done /\ st'[i].stuck = st[i].stuck
               /\ busy' = busy
      <4>1. Agrees(i)'
        BY <1>0, <1>1, <1>2, <2>1, <2>2, <3>3 DEF Agrees, INVALID, PAST_THE_END
      <4>2. QED BY <1>0, <3>3, <4>1 DEF TypeOK
    <3>4. QED BY <1>0, <1>5, <3>1, <3>2, <3>3, FetchEndState
  <2>4. Owned' /\ OneReader' /\ CursorOK'
    BY <1>0, <1>1, <2>1, <2>2, <2>3, OneObject
  <2>5. TypeOK'
    BY <1>0, <1>1, <2>1, <2>2, <2>3 DEF TypeOK
  <2>6. RowIsRowId'
    BY <1>0, <1>1, <2>1, <2>2 DEF RowIsRowId, TypeOK, PAST_THE_END
  <2>7. QED BY <1>0, <1>1, <2>2, <2>4, <2>5, <2>6 DEF IInv, TypeOK
<1>6. CASE FetchThrow(i) /\ rowId' = rowId
  <2>1. /\ st' \in [Impl -> ImplState]
        /\ \A j \in Impl \ {i} : st'[j] = st[j]
        /\ threw' = threw \cup {i} /\ record' \in {record, NoRecord}
        /\ poisoned' \in BOOLEAN /\ (poisoned => poisoned') /\ faults' \in Nat
        /\ ~st[i].done
    BY <1>0, <1>6, FetchThrowState
  <2>2. /\ Agrees(i)' /\ busy' \in Impl \cup {NoImpl}
        /\ backend # "mysql" => busy' = busy
        /\ backend = "mysql" => \/ busy' = busy /\ (Reads(i)' <=> Reads(i))
                                \/ /\ busy \in {i, NoImpl} /\ busy' \in {i, NoImpl}
                                   /\ busy' = i <=> Reads(i)'
    <3>1. CASE st' = st /\ busy' = busy
      BY <1>0, <1>1, <1>2, <1>6, <2>1, <3>1 DEF Agrees, Reads, TypeOK
    <3>2. CASE /\ st'[i].executed /\ ~st'[i].done /\ st'[i].size = st[i].size
               /\ st'[i].stuck = (backend = "mysql")
               /\ backend # "postgres"
               /\ busy' = NotReading
               /\ backend = "mysql" => busy \in {i, NoImpl}
      <4>1. rowId[i] # PAST_THE_END
        BY <1>2, <2>1, <3>2 DEF Agrees
      <4>2. Agrees(i)'
        BY <1>0, <1>1, <1>2, <1>6, <2>1, <3>2, <4>1 DEF Agrees
      <4>3. QED BY <1>0, <1>2, <3>2, <4>2 DEF Reads, NotReading, TypeOK
    <3>3. CASE /\ st'[i].executed /\ ~st'[i].done /\ ~st'[i].stuck /\ st'[i].size = st[i].size
               /\ st[i].row < st[i].size
               /\ busy' = Reading(i)
               /\ backend = "mysql" => busy \in {i, NoImpl}
      <4>1. rowId[i] # PAST_THE_END
        <5>1. st[i].row # st[i].size
          BY <1>3, <3>3, StatementAssumption DEF ImplState
        <5>2. QED BY <1>2, <5>1 DEF Agrees
      <4>2. Agrees(i)'
        BY <1>0, <1>1, <1>2, <1>6, <2>1, <3>3, <4>1 DEF Agrees
      <4>3. QED BY <1>0, <1>2, <3>3, <4>2 DEF Reads, Reading, TypeOK
    <3>4. QED BY <1>0, <1>6, <3>1, <3>2, <3>3, FetchThrowState
  <2>3. Owned' /\ OneReader' /\ CursorOK'
    BY <1>0, <1>1, <1>6, <2>1, <2>2, OneObject
  <2>4. TypeOK'
    BY <1>0, <1>1, <1>6, <2>1, <2>2 DEF TypeOK, NoRecord
  <2>5. RowIsRowId'
    BY <1>0, <1>1, <1>6, <2>1, StatementAssumption DEF RowIsRowId, TypeOK, NoRecord
  <2>6. QED BY <1>0, <1>1, <1>6, <2>3, <2>4, <2>5 DEF IInv
<1>7. QED BY <1>4, <1>5, <1>6

-----------------------------------------------------------------------------
(* Each action keeps the invariant and RowIsRowId. *)

LEMMA BeginKeeps ==
  ASSUME IInv, RowIsRowId, NEW i \in Impl, Begin(i)
  PROVE  IInv' /\ RowIsRowId'
<1>1. i \in results /\ rowId[i] = INVALID
  BY DEF Begin
<1>2. [rowId EXCEPT ![i] = 0] = [rowId EXCEPT ![i] = IF rowId[i] = INVALID THEN 0 ELSE @ + 1]
  BY <1>1
<1>3. QED BY <1>1, <1>2, FetchKeeps DEF Begin

LEMMA AdvanceKeeps ==
  ASSUME IInv, RowIsRowId, NEW i \in Impl, Advance(i)
  PROVE  IInv' /\ RowIsRowId'
<1>1. i \in results /\ rowId[i] # INVALID
  BY DEF Advance
<1>2. [rowId EXCEPT ![i] = @ + 1] = [rowId EXCEPT ![i] = IF rowId[i] = INVALID THEN 0 ELSE @ + 1]
  BY <1>1
<1>3. QED BY <1>1, <1>2, FetchKeeps DEF Advance

LEMMA SizeKeeps ==
  ASSUME IInv, RowIsRowId, NEW i \in Impl, Size(i)
  PROVE  IInv' /\ RowIsRowId'
<1>0. /\ TypeOK /\ Owned /\ OneReader /\ CursorOK /\ i \in statements /\ i \in results
      /\ \A t \in prepared : impl[t] # NoImpl
  BY DEF IInv, Owned, Size
<1>1. /\ backend' = backend /\ impl' = impl /\ literals' = literals /\ prepared' = prepared
      /\ statements' = statements /\ results' = results /\ stale' = stale
      /\ rowId' = rowId /\ record' = record /\ threw' = threw
      /\ applied' = applied /\ durable' = durable /\ outcome' = outcome /\ reported' = reported
  BY DEF Size, stmtVars, changeVars, resultVars
<1>2. Agrees(i) /\ i # NoImpl /\ st[i] \in ImplState
  BY <1>0, CursorIsAgrees, StatementAssumption DEF TypeOK
<1>3. ~st[i].executed /\ st[i].row = 0 /\ ~st[i].done /\ backend # "sqlite" /\ ~st[i].stuck
      /\ rowId[i] # PAST_THE_END
  BY <1>2 DEF Size, Agrees
<1>4. CASE Accepted(busy) /\ st' = [st EXCEPT ![i] = [st[i] EXCEPT !.executed = TRUE]] /\ busy' = Reading(i)
  <2>1. st'[i] = [st[i] EXCEPT !.executed = TRUE]
    BY <1>0, <1>4 DEF TypeOK
  <2>2. st'[i] \in ImplState
    BY <1>2, <2>1 DEF ImplState
  <2>3. st' \in [Impl -> ImplState] /\ \A j \in Impl \ {i} : st'[j] = st[j]
    BY <1>0, <1>4, <2>2 DEF TypeOK
  <2>4. /\ st'[i].executed /\ st'[i].row = 0 /\ st'[i].size = st[i].size
        /\ ~st'[i].done /\ ~st'[i].stuck
    BY <1>2, <1>3, <2>1 DEF ImplState
  <2>5. UNCHANGED <<poisoned, faults>> /\ (backend = "mysql" => busy = NoImpl)
    BY <1>4 DEF Accepted, Refuses, dbVars
  <2>6. Agrees(i)'
    BY <1>0, <1>1, <1>2, <1>3, <2>4, <2>5 DEF Agrees
  <2>7. (backend # "mysql" => busy' = busy) /\ (backend = "mysql" => busy' = i)
    BY <1>4 DEF Reading
  <2>8. Owned' /\ OneReader' /\ CursorOK'
    BY <1>0, <1>1, <2>3, <2>4, <2>5, <2>6, <2>7, OneObject DEF Reads
  <2>9. TypeOK'
    BY <1>0, <1>1, <2>3, <2>5, <2>7 DEF TypeOK
  <2>10. RowIsRowId'
    BY <1>0, <1>1, <1>3, <2>3, <2>4 DEF RowIsRowId, TypeOK
  <2>11. QED BY <1>0, <1>1, <2>8, <2>9, <2>10 DEF IInv
<1>5. CASE Rejected(busy) /\ UNCHANGED busy /\ backend # "postgres" /\ st' = st
  <2>1. poisoned' \in BOOLEAN /\ (poisoned => poisoned') /\ faults' \in Nat
    BY <1>0, <1>5, RejectedFacts
  <2>2. Owned' /\ OneReader' /\ CursorOK'
    <3>1. Agrees(i)'
      BY <1>1, <1>2, <1>5, <2>1 DEF Agrees
    <3>2. QED BY <1>0, <1>1, <1>5, <2>1, <3>1, OneObject DEF Reads
  <2>3. TypeOK'
    BY <1>0, <1>1, <1>5, <2>1 DEF TypeOK
  <2>4. RowIsRowId'
    BY <1>1, <1>5 DEF RowIsRowId
  <2>5. QED BY <1>0, <1>1, <2>2, <2>3, <2>4 DEF IInv
<1>6. CASE /\ Rejected(busy) /\ UNCHANGED busy /\ backend = "postgres"
           /\ st' = [st EXCEPT ![i] = [st[i] EXCEPT !.executed = TRUE, !.size = 0]]
  <2>1. st'[i] = [st[i] EXCEPT !.executed = TRUE, !.size = 0]
    BY <1>0, <1>6 DEF TypeOK
  <2>2. st'[i] \in ImplState
    BY <1>2, <2>1 DEF ImplState
  <2>3. st' \in [Impl -> ImplState] /\ \A j \in Impl \ {i} : st'[j] = st[j]
    BY <1>0, <1>6, <2>2 DEF TypeOK
  <2>4. st'[i].executed /\ st'[i].row = 0 /\ ~st'[i].done /\ ~st'[i].stuck
    BY <1>2, <1>3, <2>1 DEF ImplState
  <2>5. poisoned' = TRUE /\ faults' \in Nat
    BY <1>0, <1>6, RejectedFacts
  <2>6. Agrees(i)'
    BY <1>0, <1>1, <1>2, <1>3, <2>4, <2>5 DEF Agrees
  <2>7. Owned' /\ OneReader' /\ CursorOK'
    BY <1>0, <1>1, <1>6, <2>3, <2>5, <2>6, OneObject
  <2>8. TypeOK'
    BY <1>0, <1>1, <1>6, <2>3, <2>5 DEF TypeOK
  <2>9. RowIsRowId'
    BY <1>0, <1>1, <1>3, <2>3, <2>4 DEF RowIsRowId, TypeOK
  <2>10. QED BY <1>0, <1>1, <2>7, <2>8, <2>9 DEF IInv
<1>7. QED BY <1>2, <1>4, <1>5, <1>6 DEF Size

(* Letting go of a result set or of a statement closes what nobody holds.  *)
LEMMA CloseKeeps ==
  ASSUME IInv, RowIsRowId, NEW gone \in SUBSET statements,
         backend' = backend, statements' = statements \ gone,
         st' = StAfterClose(gone), busy' = BusyAfterClose(gone),
         results' \subseteq results \ gone, poisoned' = poisoned,
         \A j \in results' : rowId'[j] = rowId[j] /\ (j \in threw' <=> j \in threw)
                               /\ (record'[1] = j => record' = record),
         \A j \in Impl \ results' : rowId'[j] = INVALID /\ j \notin threw',
         threw' \subseteq Impl
  PROVE  OneReader' /\ CursorOK' /\ RowIsRowId' /\ st' \in [Impl -> ImplState]
         /\ busy' \in Impl \cup {NoImpl}
<1>0. TypeOK /\ Owned /\ OneReader /\ CursorOK
  BY DEF IInv
<1>1. st' \in [Impl -> ImplState] /\ busy' \in (statements \ gone) \cup {NoImpl}
  BY <1>0, CloseState
<1>2. OneReader'
  BY <1>0, <1>1, CloseReader DEF OneReader
<1>3. \A j \in results' : /\ j \in statements \ gone
                          /\ st'[j].row = st[j].row /\ st'[j].executed = st[j].executed
                          /\ st'[j].size = st[j].size /\ st'[j].done = st[j].done
  BY <1>0, CloseState DEF Owned
<1>4. CursorOK'
  <2>1. ASSUME NEW j \in Impl PROVE Agrees(j)'
    <3>1. /\ ~st'[j].executed => st'[j].row = 0 /\ ~st'[j].done
          /\ st'[j].done => st'[j].row = st'[j].size
          /\ st'[j].stuck /\ backend' # "sqlite" => st'[j].executed
          /\ st'[j].size # Rows => poisoned'
          /\ j \notin statements' => st'[j] = Fresh
      BY <1>0, CloseCursor
    <3>2. CASE j \in results'
      <4>1. Agrees(j)
        BY <1>0, CursorIsAgrees
      <4>2. QED BY <1>3, <3>1, <3>2, <4>1 DEF Agrees
    <3>3. CASE j \notin results'
      BY <3>1, <3>3 DEF Agrees, INVALID, PAST_THE_END
    <3>4. QED BY <3>2, <3>3
  <2>2. QED BY <2>1 DEF CursorOK, Agrees
<1>5. RowIsRowId'
  BY <1>3 DEF RowIsRowId
<1>6. QED BY <1>0, <1>1, <1>2, <1>4, <1>5 DEF TypeOK

LEMMA DropResultKeeps ==
  ASSUME IInv, RowIsRowId, NEW i \in Impl, DropResult(i)
  PROVE  IInv' /\ RowIsRowId'
<1> DEFINE gone == {i} \ {impl[s] : s \in Stmt}
<1>0. /\ TypeOK /\ Owned /\ OneReader /\ CursorOK
      /\ \A t \in prepared : impl[t] # NoImpl
  BY DEF IInv
<1>1. /\ i \in results /\ i # NoImpl
      /\ statements' = statements \ gone
      /\ st' = StAfterClose(gone) /\ busy' = BusyAfterClose(gone)
      /\ results' = results \ {i} /\ threw' = threw \ {i}
      /\ rowId' = [rowId EXCEPT ![i] = INVALID]
      /\ record' = IF record[1] = i THEN NoRecord ELSE record
      /\ backend' = backend /\ impl' = impl /\ literals' = literals /\ prepared' = prepared
      /\ poisoned' = poisoned /\ faults' = faults /\ stale' = stale
      /\ applied' = applied /\ durable' = durable /\ outcome' = outcome /\ reported' = reported
  BY StatementAssumption DEF DropResult, stmtVars, dbVars, changeVars
<1>2. gone \in SUBSET statements
  BY <1>0, <1>1 DEF Owned
<1>3. Owned'
  <2>1. ASSUME NEW j
        PROVE  j \in statements' <=> j \in {impl[t] : t \in {u \in Stmt : impl[u] # NoImpl}} \cup results'
    BY <1>0, <1>1 DEF Owned
  <2>2. statements' = {impl'[t] : t \in {u \in Stmt : impl'[u] # NoImpl}} \cup results'
    BY <1>1, <2>1
  <2>3. QED BY <1>0, <1>1, <2>2 DEF Owned
<1>4. /\ results' \subseteq results \ gone
      /\ \A j \in results' : rowId'[j] = rowId[j] /\ (j \in threw' <=> j \in threw)
                             /\ (record'[1] = j => record' = record)
      /\ \A j \in Impl \ results' : rowId'[j] = INVALID /\ j \notin threw'
      /\ threw' \subseteq Impl
  BY <1>0, <1>1, StatementAssumption DEF TypeOK, CursorOK, NoRecord
<1>5. OneReader' /\ CursorOK' /\ RowIsRowId' /\ st' \in [Impl -> ImplState]
      /\ busy' \in Impl \cup {NoImpl}
  BY <1>1, <1>2, <1>4, CloseKeeps
<1>6. TypeOK'
  BY <1>0, <1>1, <1>4, <1>5 DEF TypeOK, NoRecord
<1>7. QED BY <1>0, <1>1, <1>3, <1>5, <1>6 DEF IInv

LEMMA RenewKeeps ==
  ASSUME IInv, RowIsRowId, NEW s \in Stmt, Renew(s)
  PROVE  IInv' /\ RowIsRowId'
<1> DEFINE gone == Dropped(s)
<1>0. /\ TypeOK /\ Owned /\ OneReader /\ CursorOK
      /\ \A t \in prepared : impl[t] # NoImpl
  BY DEF IInv
<1>1. /\ impl' = [impl EXCEPT ![s] = NoImpl]
      /\ literals' = [literals EXCEPT ![s] = <<>>]
      /\ prepared' = prepared \ {s}
      /\ statements' = statements \ gone
      /\ st' = StAfterClose(gone) /\ busy' = BusyAfterClose(gone)
      /\ stale' = stale \ {s}
      /\ backend' = backend /\ results' = results /\ rowId' = rowId
      /\ record' = record /\ threw' = threw
      /\ poisoned' = poisoned /\ faults' = faults
      /\ applied' = applied /\ durable' = durable /\ outcome' = outcome /\ reported' = reported
  BY DEF Renew, resultVars, dbVars, changeVars
<1>2. gone \in SUBSET statements /\ gone \cap results = {}
  BY <1>0, DroppedFacts
<1>3. Owned'
  <2>1. \A t \in Stmt : impl'[t] = IF t = s THEN NoImpl ELSE impl[t]
    BY <1>0, <1>1 DEF TypeOK
  <2>2. ASSUME NEW j
        PROVE  j \in statements' <=> j \in {impl'[t] : t \in {u \in Stmt : impl'[u] # NoImpl}} \cup results'
    <3>1. j \in statements <=> j \in results \/ \E t \in Stmt : impl[t] = j /\ j # NoImpl
      BY <1>0 DEF Owned
    <3>2. j \in gone <=> j = impl[s] /\ j # NoImpl /\ j \notin results
      BY DEF Dropped
    <3>3. \A t \in Stmt \ {s} : impl[t] \notin gone
      BY <1>0, DroppedFacts
    <3>4. (\E t \in Stmt : impl'[t] = j /\ j # NoImpl) <=> \E t \in Stmt \ {s} : impl[t] = j /\ j # NoImpl
      BY <2>1
    <3>5. j \in statements' <=> j \in results' \/ \E t \in Stmt : impl'[t] = j /\ j # NoImpl
      BY <1>1, <1>2, <3>1, <3>2, <3>3, <3>4
    <3>6. QED BY <3>5
  <2>3. statements' = {impl'[t] : t \in {u \in Stmt : impl'[u] # NoImpl}} \cup results'
    BY <2>2
  <2>4. QED BY <1>0, <2>1, <2>3 DEF Owned
<1>4. /\ \A j \in Impl \ results' : rowId'[j] = INVALID /\ j \notin threw'
      /\ threw' \subseteq Impl
  BY <1>0, <1>1 DEF TypeOK, CursorOK
<1>5. OneReader' /\ CursorOK' /\ RowIsRowId' /\ st' \in [Impl -> ImplState]
      /\ busy' \in Impl \cup {NoImpl}
  BY <1>1, <1>2, <1>4, CloseKeeps
<1>6. TypeOK'
  <2>1. literals' \in [Stmt -> Seq(Clause)]
    BY <1>0, <1>1, EmptySeq DEF TypeOK
  <2>2. QED BY <1>0, <1>1, <1>5, <2>1 DEF TypeOK
<1>7. \A t \in prepared' : impl'[t] # NoImpl
  BY <1>0, <1>1 DEF TypeOK
<1>8. QED BY <1>3, <1>5, <1>6, <1>7 DEF IInv

-----------------------------------------------------------------------------
(* Executing. *)

(* An execution leaves the iterators of other results alone, and the one   *)
(* it makes has not begun.                                                 *)
LEMMA CreateRows ==
  ASSUME IInv, RowIsRowId,
         NEW s \in Stmt, NEW c \in Clauses(s), NEW i \in Impl, NEW ready \in BOOLEAN,
         CreateImpl(s, c, i, ready),
         results' = results \/ results' = results \cup {i}
  PROVE  RowIsRowId'
<1>0. TypeOK /\ Owned /\ OneReader /\ CursorOK
  BY DEF IInv
<1>1. /\ i \notin statements
      /\ UNCHANGED <<rowId, record, threw>>
  BY DEF CreateImpl, NewImpl
<1>2. rowId[i] = INVALID
  BY <1>0, <1>1 DEF Owned, CursorOK
<1>3. /\ i \notin statements
      /\ st' \in [Impl -> ImplState]
      /\ st'[i] = [Fresh EXCEPT !.ready = ready]
      /\ \A j \in Impl \ {i} : st'[j] = StAfterClose(Dropped(s))[j]
  BY <1>0, CreateState
<1>4. ASSUME NEW j \in results' \ threw', rowId'[j] >= 0
      PROVE  st'[j].row = rowId'[j] + 1 /\ (record'[1] = j => record'[2] = rowId'[j])
  <2>1. j # i /\ j \in results
    BY <1>1, <1>2, <1>4 DEF INVALID
  <2>2. j \in statements \ Dropped(s) /\ j \in Impl
    BY <1>0, <2>1, DroppedFacts DEF Owned, TypeOK
  <2>3. Dropped(s) \in SUBSET statements
    BY <1>0, DroppedFacts
  <2>4. st'[j] = StAfterClose(Dropped(s))[j]
    BY <1>3, <2>1, <2>2
  <2>5. st'[j].row = st[j].row
    BY <1>0, <2>2, <2>3, <2>4, CloseState
  <2>6. QED BY <1>1, <1>4, <2>1, <2>5 DEF RowIsRowId
<1>5. QED BY <1>4 DEF RowIsRowId

(* A new implementation object keeps the invariant, whatever the requests  *)
(* made with it answer.                                                    *)
LEMMA ExecKeeps ==
  ASSUME IInv, RowIsRowId,
         NEW s \in Stmt, NEW c \in Clauses(s), NEW i \in Impl, NEW ready \in BOOLEAN,
         CreateImpl(s, c, i, ready),
         results' = results \/ results' = results \cup {i},
         prepared' = prepared \/ prepared' = prepared \cup {s},
         poisoned => poisoned', poisoned' \in BOOLEAN, faults' \in Nat,
         stale' \subseteq Stmt,
         applied' \in Nat, durable' \in Nat, reported' \in Nat,
         outcome' = outcome
  PROVE  IInv' /\ RowIsRowId'
<1>1. RowIsRowId'
  BY CreateRows
<1>2. /\ Owned' /\ OneReader' /\ CursorOK'
      /\ backend' \in Backends /\ impl' \in [Stmt -> Impl \cup {NoImpl}]
      /\ literals' \in [Stmt -> Seq(Clause)]
      /\ statements' \subseteq Impl /\ results' \subseteq Impl /\ threw' \subseteq Impl
      /\ st' \in [Impl -> ImplState]
      /\ rowId' \in [Impl -> {INVALID, PAST_THE_END} \cup Nat]
      /\ busy' \in Impl \cup {NoImpl}
      /\ record' \in (Impl \cup {NoImpl}) \X Nat
      /\ \A t \in prepared' : impl'[t] # NoImpl
  BY CreateKeeps
<1>3. prepared' \subseteq Stmt /\ outcome' \in {"open", "committed", "failed"}
  BY DEF IInv, TypeOK
<1>4. TypeOK'
  BY <1>2, <1>3 DEF TypeOK
<1>5. QED BY <1>1, <1>2, <1>4 DEF IInv

(* What a request leaves in the variables of the server. *)
LEMMA AcceptedFacts ==
  ASSUME TypeOK, NEW b, Accepted(b)
  PROVE  poisoned' \in BOOLEAN /\ (poisoned => poisoned') /\ faults' \in Nat
BY DEF Accepted, dbVars, TypeOK

LEMMA PrepareFacts ==
  ASSUME TypeOK, NEW s, NEW c, Prepares(s, c) \/ FailsToPrepare(s, c)
  PROVE  poisoned' \in BOOLEAN /\ (poisoned => poisoned') /\ faults' \in Nat
<1>1. CASE Accepted(busy')
  BY <1>1, AcceptedFacts
<1>2. CASE Rejected(busy')
  BY <1>2, RejectedFacts
<1>3. CASE poisoned' = TRUE /\ UNCHANGED faults
  BY <1>3 DEF TypeOK
<1>4. QED BY <1>1, <1>2, <1>3 DEF Prepares, FailsToPrepare

LEMMA NotedTyped ==
  ASSUME TypeOK, NEW s \in Stmt, NEW c, NoteLiterals(s, c)
  PROVE  stale' \subseteq Stmt
BY DEF NoteLiterals, TypeOK

LEMMA SelectExecKeeps ==
  ASSUME IInv, RowIsRowId, NEW s \in Stmt, SelectExec(s)
  PROVE  IInv' /\ RowIsRowId'
<1>0. TypeOK
  BY DEF IInv
<1>1. PICK i \in Impl, c \in Clauses(s) :
        \/ /\ CreateImpl(s, c, i, TRUE)
           /\ Prepares(s, c) /\ NoteLiterals(s, c)
           /\ results' = results \cup {i}
        \/ /\ CreateImpl(s, c, i, TRUE)
           /\ Prepares(s, c) /\ UNCHANGED <<results, stale>>
        \/ /\ CreateImpl(s, c, i, FALSE)
           /\ FailsToPrepare(s, c) /\ UNCHANGED <<results, stale>>
  BY DEF SelectExec
<1>2. PICK ready \in BOOLEAN : CreateImpl(s, c, i, ready)
  BY <1>1
<1>3. poisoned' \in BOOLEAN /\ (poisoned => poisoned') /\ faults' \in Nat
  BY <1>0, <1>1, PrepareFacts
<1>4. stale' \subseteq Stmt
  BY <1>0, <1>1, NotedTyped DEF TypeOK
<1>5. results' = results \/ results' = results \cup {i}
  BY <1>1
<1>6. /\ prepared' = prepared /\ outcome' = outcome
      /\ applied' \in Nat /\ durable' \in Nat /\ reported' \in Nat
  BY <1>0 DEF SelectExec, changeVars, TypeOK
<1>7. QED BY <1>2, <1>3, <1>4, <1>5, <1>6, ExecKeeps

LEMMA ModifyKeeps ==
  ASSUME IInv, RowIsRowId, NEW s \in Stmt, Modify(s)
  PROVE  IInv' /\ RowIsRowId'
<1>0. TypeOK
  BY DEF IInv
<1>1. PICK i \in Impl, c \in Clauses(s) :
        \/ /\ CreateImpl(s, c, i, TRUE)
           /\ Prepares(s, c) /\ NoteLiterals(s, c)
           /\ applied' = applied + 1 /\ reported' = reported + 1
        \/ /\ CreateImpl(s, c, i, TRUE)
           /\ Prepares(s, c) \/ Rejected(busy')
           /\ UNCHANGED <<applied, reported, stale>>
        \/ /\ CreateImpl(s, c, i, FALSE)
           /\ FailsToPrepare(s, c)
           /\ UNCHANGED <<applied, reported, stale>>
  BY DEF Modify
<1>2. PICK ready \in BOOLEAN : CreateImpl(s, c, i, ready)
  BY <1>1
<1>3. poisoned' \in BOOLEAN /\ (poisoned => poisoned') /\ faults' \in Nat
  BY <1>0, <1>1, PrepareFacts, RejectedFacts
<1>4. stale' \subseteq Stmt
  BY <1>0, <1>1, NotedTyped DEF TypeOK
<1>5. /\ prepared' = prepared /\ results' = results
      /\ durable' = durable /\ outcome' = outcome
  BY DEF Modify
<1>6. applied' \in Nat /\ durable' \in Nat /\ reported' \in Nat
  <2>1. \/ applied' = applied + 1 /\ reported' = reported + 1
        \/ applied' = applied /\ reported' = reported
    BY <1>1
  <2>2. QED BY <1>0, <1>5, <2>1 DEF TypeOK
<1>7. QED BY <1>2, <1>3, <1>4, <1>5, <1>6, ExecKeeps

LEMMA InsertPrepareKeeps ==
  ASSUME IInv, RowIsRowId, NEW s \in Stmt, InsertPrepare(s)
  PROVE  IInv' /\ RowIsRowId'
<1>0. TypeOK
  BY DEF IInv
<1>1. PICK i \in Impl, c \in Clauses(s) :
        \/ /\ CreateImpl(s, c, i, TRUE)
           /\ Prepares(s, c) /\ prepared' = prepared \cup {s}
        \/ /\ CreateImpl(s, c, i, FALSE)
           /\ FailsToPrepare(s, c) /\ UNCHANGED prepared
  BY DEF InsertPrepare
<1>2. PICK ready \in BOOLEAN : CreateImpl(s, c, i, ready)
  BY <1>1
<1>3. poisoned' \in BOOLEAN /\ (poisoned => poisoned') /\ faults' \in Nat
  BY <1>0, <1>1, PrepareFacts
<1>4. prepared' = prepared \/ prepared' = prepared \cup {s}
  BY <1>1
<1>5. /\ results' = results /\ outcome' = outcome /\ stale' \subseteq Stmt
      /\ applied' \in Nat /\ durable' \in Nat /\ reported' \in Nat
  BY <1>0 DEF InsertPrepare, changeVars, TypeOK
<1>6. QED BY <1>2, <1>3, <1>4, <1>5, ExecKeeps

(* What execStep() leaves: the object of the statement, and whether its    *)
(* handle has to be reset, which is seen on SQLite only.                   *)
LEMMA InsertStepFacts ==
  ASSUME TypeOK, NEW s \in Stmt, InsertStep(s)
  PROVE  /\ poisoned' \in BOOLEAN /\ (poisoned => poisoned') /\ faults' \in Nat
         /\ record' \in {record, NoRecord}
         /\ applied' \in Nat /\ reported' \in Nat
         /\ \/ st' = st
            \/ /\ ~st[impl[s]].stuck
               /\ st' = [st EXCEPT ![impl[s]].stuck = (backend = "sqlite")]
<1>1. CASE GetLastInsertId /\ applied' = applied + 1 /\ reported' = reported + 1 /\ UNCHANGED st
  <2>1. poisoned' \in BOOLEAN /\ (poisoned => poisoned') /\ faults' \in Nat
    <3>1. CASE UNCHANGED dbVars
      BY <3>1 DEF dbVars, TypeOK
    <3>2. CASE Fault /\ poisoned' = TRUE
      <4>1. faults' \in Nat
        BY <3>2 DEF Fault, TypeOK
      <4>2. QED BY <3>2, <4>1
    <3>3. QED BY <1>1, <3>1, <3>2 DEF GetLastInsertId
  <2>2. record' \in {record, NoRecord}
    BY <1>1 DEF GetLastInsertId
  <2>3. QED BY <1>1, <2>1, <2>2 DEF TypeOK
<1>2. CASE /\ ~st[impl[s]].stuck /\ Rejected(busy)
           /\ st' = [st EXCEPT ![impl[s]].stuck = (backend = "sqlite")]
           /\ UNCHANGED <<record, applied, reported>>
  BY <1>2, RejectedFacts DEF TypeOK
<1>3. CASE UNCHANGED <<st, dbVars, record, applied, reported>>
  BY <1>3 DEF dbVars, TypeOK
<1>4. QED BY <1>1, <1>2, <1>3 DEF InsertStep

LEMMA InsertStepKeeps ==
  ASSUME IInv, RowIsRowId, NEW s \in Stmt, InsertStep(s)
  PROVE  IInv' /\ RowIsRowId'
<1> DEFINE i == impl[s]
<1>0. /\ TypeOK /\ Owned /\ OneReader /\ CursorOK
      /\ \A t \in prepared : impl[t] # NoImpl
  BY DEF IInv
<1>1. i \in statements /\ i \in Impl /\ i # NoImpl
  BY <1>0 DEF InsertStep, Owned, TypeOK
<1>2. /\ backend' = backend /\ impl' = impl /\ literals' = literals /\ prepared' = prepared
      /\ statements' = statements /\ results' = results /\ stale' = stale
      /\ rowId' = rowId /\ threw' = threw /\ busy' = busy
      /\ durable' = durable /\ outcome' = outcome
  BY DEF InsertStep, stmtVars
<1>3. /\ poisoned' \in BOOLEAN /\ (poisoned => poisoned') /\ faults' \in Nat
      /\ record' \in {record, NoRecord}
      /\ applied' \in Nat /\ reported' \in Nat
      /\ \/ st' = st
         \/ /\ ~st[i].stuck
            /\ st' = [st EXCEPT ![i].stuck = (backend = "sqlite")]
  BY <1>0, InsertStepFacts
<1>4. Agrees(i) /\ st[i] \in ImplState
  BY <1>0, <1>1, CursorIsAgrees DEF TypeOK
<1>5. /\ st' \in [Impl -> ImplState]
      /\ \A j \in Impl \ {i} : st'[j] = st[j]
      /\ st'[i].done = st[i].done /\ st'[i].executed = st[i].executed
      /\ st'[i].row = st[i].row /\ st'[i].size = st[i].size
      /\ backend # "sqlite" => st'[i].stuck = st[i].stuck
  <2>1. CASE st' = st
    BY <1>0, <2>1 DEF TypeOK
  <2>2. CASE /\ ~st[i].stuck
             /\ st' = [st EXCEPT ![i].stuck = (backend = "sqlite")]
    <3>1. st'[i] = [st[i] EXCEPT !.stuck = (backend = "sqlite")]
      BY <1>0, <1>1, <2>2 DEF TypeOK
    <3>2. (backend = "sqlite") \in BOOLEAN
      OBVIOUS
    <3>3. st'[i] \in ImplState
      BY <1>4, <3>1, <3>2 DEF ImplState
    <3>4. st' \in [Impl -> ImplState] /\ \A j \in Impl \ {i} : st'[j] = st[j]
      BY <1>0, <2>2, <3>3 DEF TypeOK
    <3>5. /\ st'[i].done = st[i].done /\ st'[i].executed = st[i].executed
          /\ st'[i].row = st[i].row /\ st'[i].size = st[i].size
      BY <1>4, <3>1 DEF ImplState
    <3>6. backend # "sqlite" => st'[i].stuck = st[i].stuck
      <4>1. st'[i].stuck = (backend = "sqlite")
        BY <1>4, <3>1 DEF ImplState
      <4>2. st[i].stuck \in BOOLEAN
        BY <1>4 DEF ImplState
      <4>3. QED BY <2>2, <4>1, <4>2
    <3>7. QED BY <3>4, <3>5, <3>6
  <2>3. QED BY <1>3, <2>1, <2>2
<1>6. Agrees(i)'
  BY <1>1, <1>2, <1>3, <1>4, <1>5 DEF Agrees
<1>7. backend = "mysql" => (Reads(i)' <=> Reads(i))
  BY <1>2, <1>5 DEF Reads
<1>8. Owned' /\ OneReader' /\ CursorOK'
  BY <1>1, <1>2, <1>3, <1>5, <1>6, <1>7, OneObject
<1>9. TypeOK'
  BY <1>0, <1>2, <1>3, <1>5 DEF TypeOK, NoRecord
<1>10. RowIsRowId'
  <2>1. \A j \in results' : st'[j].row = st[j].row
    BY <1>0, <1>2, <1>5 DEF TypeOK
  <2>2. \A j \in results' : record'[1] = j => record' = record
    BY <1>0, <1>2, <1>3, StatementAssumption DEF TypeOK, NoRecord
  <2>3. QED BY <1>2, <2>1, <2>2 DEF RowIsRowId
<1>11. QED BY <1>0, <1>2, <1>8, <1>9 , <1>10 DEF IInv

LEMMA CommitKeeps ==
  ASSUME IInv, RowIsRowId, Commit
  PROVE  IInv' /\ RowIsRowId'
<1>0. /\ TypeOK /\ Owned /\ OneReader /\ CursorOK
      /\ \A t \in prepared : impl[t] # NoImpl
  BY DEF IInv
<1>1. /\ backend' = backend /\ impl' = impl /\ literals' = literals /\ prepared' = prepared
      /\ statements' = statements /\ st' = st /\ results' = results /\ rowId' = rowId
      /\ record' = record /\ threw' = threw /\ busy' = busy
      /\ applied' = applied /\ reported' = reported /\ stale' = stale
      /\ poisoned' = poisoned
  BY DEF Commit, stmtVars, resultVars, dbVars
<1>2. /\ durable' \in Nat /\ faults' \in Nat
      /\ outcome' \in {"open", "committed", "failed"}
  BY <1>0 DEF Commit, dbVars, Fault, TypeOK
<1>3. TypeOK'
  BY <1>0, <1>1, <1>2 DEF TypeOK
<1>4. Owned' /\ OneReader' /\ CursorOK' /\ RowIsRowId'
  BY <1>0, <1>1 DEF Owned, OneReader, CursorOK, RowIsRowId
<1>5. QED BY <1>0, <1>1, <1>3, <1>4 DEF IInv

(* Nothing happened. *)
LEMMA StutterKeeps ==
  ASSUME IInv, RowIsRowId, UNCHANGED vars
  PROVE  IInv' /\ RowIsRowId'
BY DEF vars, stmtVars, resultVars, dbVars, changeVars, IInv, TypeOK, Owned, OneReader, CursorOK, RowIsRowId

LEMMA NextKeeps ==
  ASSUME IInv, RowIsRowId, [Next]_vars
  PROVE  IInv' /\ RowIsRowId'
<1>1. ASSUME NEW s \in Stmt, Renew(s) PROVE IInv' /\ RowIsRowId'
  BY <1>1, RenewKeeps
<1>2. ASSUME NEW s \in Stmt, SelectExec(s) PROVE IInv' /\ RowIsRowId'
  BY <1>2, SelectExecKeeps
<1>3. ASSUME NEW s \in Stmt, Modify(s) PROVE IInv' /\ RowIsRowId'
  BY <1>3, ModifyKeeps
<1>4. ASSUME NEW s \in Stmt, InsertPrepare(s) PROVE IInv' /\ RowIsRowId'
  BY <1>4, InsertPrepareKeeps
<1>5. ASSUME NEW s \in Stmt, InsertStep(s) PROVE IInv' /\ RowIsRowId'
  BY <1>5, InsertStepKeeps
<1>6. ASSUME NEW i \in Impl, Begin(i) PROVE IInv' /\ RowIsRowId'
  BY <1>6, BeginKeeps
<1>7. ASSUME NEW i \in Impl, Advance(i) PROVE IInv' /\ RowIsRowId'
  BY <1>7, AdvanceKeeps
<1>8. ASSUME NEW i \in Impl, Size(i) PROVE IInv' /\ RowIsRowId'
  BY <1>8, SizeKeeps
<1>9. ASSUME NEW i \in Impl, DropResult(i) PROVE IInv' /\ RowIsRowId'
  BY <1>9, DropResultKeeps
<1>10. CASE Commit
  BY <1>10, CommitKeeps
<1>11. CASE UNCHANGED vars
  BY <1>11, StutterKeeps
<1>12. QED BY <1>1, <1>2, <1>3, <1>4, <1>5, <1>6, <1>7, <1>8, <1>9, <1>10, <1>11 DEF Next

LEMMA InitKeeps == Init => IInv /\ RowIsRowId
<1> SUFFICES ASSUME Init PROVE IInv /\ RowIsRowId
  OBVIOUS
<1>1. TypeOK
  <2>1. st \in [Impl -> ImplState]
    BY FreshTyped DEF Init
  <2>2. literals \in [Stmt -> Seq(Clause)]
    BY EmptySeq DEF Init
  <2>3. rowId \in [Impl -> {INVALID, PAST_THE_END} \cup Nat]
    BY DEF Init
  <2>4. QED BY <2>1, <2>2, <2>3 DEF Init, TypeOK, NoRecord
<1>2. Owned
  BY DEF Init, Owned
<1>3. OneReader
  BY DEF Init, OneReader
<1>4. CursorOK
  <2>1. ASSUME NEW j \in Impl
        PROVE  st[j] = Fresh /\ rowId[j] = INVALID /\ j \notin threw /\ j \notin results
    BY DEF Init
  <2>2. ~Fresh.executed /\ ~Fresh.done /\ ~Fresh.stuck /\ Fresh.row = 0 /\ Fresh.size = Rows
    BY DEF Fresh
  <2>3. INVALID # PAST_THE_END
    BY DEF INVALID, PAST_THE_END
  <2>4. ASSUME NEW j \in Impl PROVE Agrees(j)
    BY <2>1, <2>2, <2>3 DEF Agrees
  <2>5. QED BY <2>4, CursorIsAgrees
<1>5. RowIsRowId
  BY DEF Init, RowIsRowId
<1>6. QED BY <1>1, <1>2, <1>3, <1>4, <1>5 DEF Init, IInv

-----------------------------------------------------------------------------
(* The theorems. *)

(* Implementation objects are closed exactly when the last statement or    *)
(* result set lets go of them, one MySQL statement at most has unread      *)
(* rows, and what each object has delivered agrees with its flags:         *)
(* whatever is executed, iterated, renewed, dropped or rejected.           *)
THEOREM StatementInvariant == Spec => []IInv
<1>1. Init => IInv /\ RowIsRowId
  BY InitKeeps
<1>2. (IInv /\ RowIsRowId) /\ [Next]_vars => (IInv /\ RowIsRowId)'
  BY NextKeeps
<1>3. QED BY <1>1, <1>2, PTL DEF Spec

(* The row id of an iterator that has not thrown is the number of the row  *)
(* in the record: fetchNext() and ++ never skip or repeat a row, whatever  *)
(* is done with other statements in between.                               *)
THEOREM RowsInOrder == Spec => []RowIsRowId
<1>1. Init => IInv /\ RowIsRowId
  BY InitKeeps
<1>2. (IInv /\ RowIsRowId) /\ [Next]_vars => (IInv /\ RowIsRowId)'
  BY NextKeeps
<1>3. QED BY <1>1, <1>2, PTL DEF Spec

(* ROW_ID_PAST_THE_END without an exception means that all rows have been  *)
(* delivered, except on PostgreSQL after an error inside the block.        *)
THEOREM EndDeliversAll == Spec => []EndMeansAll
<1>1. IInv => EndMeansAll
  BY DEF IInv, TypeOK, CursorOK, EndMeansAll
<1>2. QED BY <1>1, StatementInvariant, PTL

(* Advancing an iterator that is past the end leaves it there: fetchNext() *)
(* answers from m_done, or from a cursor at the end of PostgreSQL's rows.  *)
THEOREM IteratorEnds == Spec => EndIsFinal
<1> DEFINE Final == \A i \in results :
                      (i \in results' /\ rowId[i] = PAST_THE_END) => rowId'[i] = PAST_THE_END
<1>1. IInv /\ RowIsRowId /\ [Next]_vars => Final
  <2> SUFFICES ASSUME IInv, RowIsRowId, [Next]_vars PROVE Final
    OBVIOUS
  <2>1. ASSUME NEW i \in Impl, Advance(i) PROVE Final
    <3>1. i \in results /\ rowId[i] # INVALID
      BY <2>1 DEF Advance
    <3>2. [rowId EXCEPT ![i] = @ + 1] = [rowId EXCEPT ![i] = IF rowId[i] = INVALID THEN 0 ELSE @ + 1]
      BY <3>1
    <3>3. \A j \in results : rowId[j] = PAST_THE_END => rowId'[j] = PAST_THE_END
      BY <2>1, <3>1, <3>2, FetchKeeps DEF Advance
    <3>4. QED BY <3>3
  <2>2. ASSUME NEW i \in Impl, Begin(i) PROVE Final
    <3>1. i \in results /\ rowId[i] = INVALID
      BY <2>2 DEF Begin
    <3>2. \A j \in Impl \ {i} : rowId'[j] = rowId[j]
      BY <2>2 DEF Begin, IInv, TypeOK
    <3>3. QED BY <3>1, <3>2 DEF INVALID, PAST_THE_END, IInv, TypeOK
  <2>3. ASSUME NEW i \in Impl, DropResult(i) PROVE Final
    BY <2>3 DEF DropResult, IInv, TypeOK
  <2>4. ASSUME rowId' = rowId PROVE Final
    BY <2>4
  <2>5. ASSUME NEW i \in Impl, Size(i) PROVE rowId' = rowId
    BY <2>5 DEF Size, resultVars
  <2>6. ASSUME NEW s \in Stmt,
               Renew(s) \/ SelectExec(s) \/ Modify(s) \/ InsertPrepare(s) \/ InsertStep(s)
        PROVE  rowId' = rowId
    BY <2>6 DEF Renew, SelectExec, Modify, InsertPrepare, InsertStep, CreateImpl, NewImpl, resultVars
  <2>7. Commit \/ UNCHANGED vars => rowId' = rowId
    BY DEF Commit, vars, resultVars
  <2>8. QED BY <2>1, <2>2, <2>3, <2>4, <2>5, <2>6, <2>7 DEF Next
<1>2. Spec => [][IInv /\ RowIsRowId /\ [Next]_vars]_vars
  BY StatementInvariant, RowsInOrder, PTL DEF Spec
<1>3. QED BY <1>1, <1>2, StatementInvariant, RowsInOrder, PTL DEF Spec, EndIsFinal

(* Literals of an earlier clause are bound only by a delete (or an update  *)
(* with set()) on MySQL: select and update start afresh, PostgreSQL fails  *)
(* to prepare and SQLite to bind the surplus.                              *)
THEOREM StaleLiterals == Spec => []StaleOnlyReused
<1>1. Init => StaleOnlyReused
  BY DEF Init, StaleOnlyReused
<1>2. ASSUME TypeOK, StaleOnlyReused, NEW s \in Stmt, NEW c \in Clauses(s),
             Prepares(s, c), Binds(s, c), NoteLiterals(s, c), backend' = backend
      PROVE  StaleOnlyReused'
  <2>1. CASE SubSeq(NewLiterals(s, c), 1, Len(Own(c))) = Own(c)
    BY <1>2, <2>1 DEF NoteLiterals, StaleOnlyReused
  <2>2. CASE SubSeq(NewLiterals(s, c), 1, Len(Own(c))) # Own(c)
    <3>1. Kind[s] = "delete" /\ Surplus(s, c)
      BY <1>2, <2>2, StaleIsSurplus
    <3>2. backend = "mysql"
      BY <1>2, <3>1, StatementAssumption DEF TypeOK, Prepares, Binds
    <3>3. stale' = stale \cup {s}
      BY <1>2, <2>2 DEF NoteLiterals
    <3>4. QED BY <1>2, <3>1, <3>2, <3>3 DEF StaleOnlyReused
  <2>3. QED BY <2>1, <2>2
<1>3. IInv /\ StaleOnlyReused /\ [Next]_vars => StaleOnlyReused'
  <2> SUFFICES ASSUME IInv, StaleOnlyReused, [Next]_vars PROVE StaleOnlyReused'
    OBVIOUS
  <2>0. TypeOK
    BY DEF IInv
  <2>1. CASE backend' = backend /\ stale' \subseteq stale
    BY <2>1 DEF StaleOnlyReused
  <2>2. ASSUME NEW s \in Stmt, SelectExec(s) PROVE StaleOnlyReused'
    <3>1. PICK i \in Impl, c \in Clauses(s) :
            /\ backend' = backend
            /\ \/ Prepares(s, c) /\ Binds(s, c) /\ NoteLiterals(s, c)
               \/ UNCHANGED stale
      BY <2>2 DEF SelectExec, CreateImpl, NewImpl
    <3>2. QED BY <1>2, <2>0, <2>1, <3>1
  <2>3. ASSUME NEW s \in Stmt, Modify(s) PROVE StaleOnlyReused'
    <3>1. PICK i \in Impl, c \in Clauses(s) :
            /\ backend' = backend
            /\ \/ Prepares(s, c) /\ Binds(s, c) /\ NoteLiterals(s, c)
               \/ UNCHANGED stale
      BY <2>3 DEF Modify, CreateImpl, NewImpl
    <3>2. QED BY <1>2, <2>0, <2>1, <3>1
  <2>4. ASSUME NEW s \in Stmt, Renew(s) \/ InsertPrepare(s) \/ InsertStep(s)
        PROVE  backend' = backend /\ stale' \subseteq stale
    BY <2>4 DEF Renew, InsertPrepare, InsertStep, CreateImpl, NewImpl
  <2>5. ASSUME NEW i \in Impl, Begin(i) \/ Advance(i) \/ Size(i) \/ DropResult(i)
        PROVE  backend' = backend /\ stale' \subseteq stale
    BY <2>5 DEF Begin, Advance, Size, DropResult
  <2>6. Commit \/ UNCHANGED vars => backend' = backend /\ stale' \subseteq stale
    BY DEF Commit, vars
  <2>7. QED BY <2>1, <2>2, <2>3, <2>4, <2>5, <2>6 DEF Next
<1>4. QED BY <1>1, <1>3, StatementInvariant, PTL DEF Spec

(* What commit() has stored is what the calls before it reported, unless   *)
(* PostgreSQL had given up the block: a rejected call reports nothing, and *)
(* no call of a transaction that has ended changes anything.               *)
THEOREM CommitIsDurable == Spec => []CommitStores
<1> DEFINE Counted == applied = reported
<1>1. Init => Counted /\ CommitStores
  BY DEF Init, CommitStores
<1>2. IInv /\ Counted /\ CommitStores /\ [Next]_vars => (Counted /\ CommitStores)'
  <2> SUFFICES ASSUME IInv, Counted, CommitStores, [Next]_vars
               PROVE  (Counted /\ CommitStores)'
    OBVIOUS
  <2>1. CASE /\ UNCHANGED <<applied, durable, reported, outcome, poisoned>>
    BY <2>1 DEF CommitStores
  <2>2. CASE /\ outcome = "open" /\ outcome' = "open"
             /\ \/ applied' = applied /\ reported' = reported
                \/ applied' = applied + 1 /\ reported' = reported + 1
    BY <2>2 DEF CommitStores
  <2>3. CASE Commit
    <3>1. UNCHANGED <<applied, reported>>
      BY <2>3 DEF Commit
    <3>2. CASE durable' = (IF poisoned THEN 0 ELSE applied) /\ UNCHANGED dbVars
      BY <3>1, <3>2 DEF CommitStores, dbVars
    <3>3. CASE outcome' # "committed"
      BY <3>1, <3>3 DEF CommitStores
    <3>4. QED BY <2>3, <3>2, <3>3 DEF Commit
  <2>4. ASSUME NEW s \in Stmt, SelectExec(s) \/ InsertPrepare(s)
        PROVE  outcome = "open" /\ UNCHANGED changeVars
    BY <2>4 DEF SelectExec, InsertPrepare
  <2>5. ASSUME NEW s \in Stmt, Modify(s) \/ InsertStep(s)
        PROVE  /\ outcome = "open" /\ outcome' = outcome
               /\ \/ applied' = applied /\ reported' = reported
                  \/ applied' = applied + 1 /\ reported' = reported + 1
    BY <2>5 DEF Modify, InsertStep
  <2>6. ASSUME NEW i \in Impl, Begin(i) \/ Advance(i) \/ Size(i)
        PROVE  outcome = "open" /\ UNCHANGED changeVars
    BY <2>6 DEF Begin, Advance, Size
  <2>7. ASSUME NEW s \in Stmt, Renew(s) PROVE UNCHANGED <<changeVars, dbVars>>
    BY <2>7 DEF Renew
  <2>8. ASSUME NEW i \in Impl, DropResult(i) PROVE UNCHANGED <<changeVars, dbVars>>
    BY <2>8 DEF DropResult
  <2>9. UNCHANGED vars => UNCHANGED <<changeVars, dbVars>>
    BY DEF vars
  <2>10. QED BY <2>1, <2>2, <2>3, <2>4, <2>5, <2>6, <2>7, <2>8, <2>9 DEF Next, changeVars, dbVars
<1>3. QED BY <1>1, <1>2, StatementInvariant, PTL DEF Spec

-----------------------------------------------------------------------------
(* Expressions: trees by levels. *)

LEMMA LeastLevel ==
  ASSUME NEW T, T \subseteq Nat, T # {}
  PROVE  \E n \in T : \A m \in T : n <= m
<1>1. \E x \in T : \A y \in T : ~ (<<y, x>> \in OpToRel(<, Nat))
  BY NatLessThanWellFounded, WFMin
<1>2. \E x \in T : \A y \in T : ~ (y < x)
  <2>1. PICK x \in T : \A y \in T : ~ (<<y, x>> \in OpToRel(<, Nat))
    BY <1>1
  <2>2. \A y \in T : ~(y < x)
    BY <2>1 DEF OpToRel
  <2> QED
    BY <2>2
<1> HIDE <1>1
<1> QED
  BY <1>2

LEMMA UpLevels ==
  ASSUME NEW n \in Nat, NEW S, 0 \in S, \A k \in 0 .. n - 1 : k \in S => k + 1 \in S
  PROVE  0..n \subseteq S
<1> SUFFICES ASSUME NEW b \in 0..n, b \notin S PROVE FALSE
  OBVIOUS
<1> DEFINE T == {k \in 0..n : k \notin S}
<1>1. T \subseteq Nat /\ b \in T
  OBVIOUS
<1>2. PICK k \in T : \A j \in T : k <= j
  BY <1>1, LeastLevel
<1>3. k \in 1..n /\ k - 1 \in 0 .. n - 1 /\ k - 1 \in 0..n /\ ~(k <= k - 1) /\ (k - 1) + 1 = k
  BY <1>2
<1>4. k - 1 \in S
  BY <1>2, <1>3
<1> QED
  BY <1>2, <1>3, <1>4

Lowest == Leaves \cup NullNodes
LevelsUpTo(f, m) == f = [d \in 0..m |-> IF d = 0 THEN Lowest ELSE f[d - 1] \cup NodesOver(f[d - 1])]

LEMMA LevelsExist == \A m \in Nat : \E f : LevelsUpTo(f, m)
<1> SUFFICES ASSUME NEW m \in Nat PROVE \E f : LevelsUpTo(f, m)
  OBVIOUS
<1> DEFINE S == {k \in 0..m : \E f : LevelsUpTo(f, k)}
<1>1. 0 \in S
  <2> DEFINE f == [d \in 0..0 |-> Lowest]
             g == [d \in 0..0 |-> IF d = 0 THEN Lowest ELSE f[d - 1] \cup NodesOver(f[d - 1])]
  <2>1. f = g
    OBVIOUS
  <2>2. LevelsUpTo(f, 0)
    BY <2>1 DEF LevelsUpTo
  <2> QED
    BY <2>2
<1>2. ASSUME NEW k \in 0 .. m - 1, k \in S
      PROVE  k + 1 \in S
  <2>1. PICK f : LevelsUpTo(f, k)
    BY <1>2
  <2> DEFINE g == [d \in 0..(k + 1) |-> IF d = 0 THEN Lowest ELSE f[d - 1] \cup NodesOver(f[d - 1])]
  <2>2. \A d \in 0..k : g[d] = f[d]
    <3> TAKE d \in 0..k
    <3>1. d \in 0..(k + 1)
      OBVIOUS
    <3>2. g[d] = IF d = 0 THEN Lowest ELSE f[d - 1] \cup NodesOver(f[d - 1])
      BY <3>1
    <3>3. f[d] = IF d = 0 THEN Lowest ELSE f[d - 1] \cup NodesOver(f[d - 1])
      BY <2>1 DEF LevelsUpTo
    <3> QED
      BY <3>2, <3>3
  <2>3. \A d \in 0..(k + 1) : d # 0 => d - 1 \in 0..k
    OBVIOUS
  <2> DEFINE h == [d \in 0..(k + 1) |-> IF d = 0 THEN Lowest ELSE g[d - 1] \cup NodesOver(g[d - 1])]
  <2>4. g = h
    <3>1. \A d \in 0..(k + 1) : d # 0 => g[d - 1] = f[d - 1]
      BY <2>2, <2>3
    <3> DEFINE x(d) == IF d = 0 THEN Lowest ELSE f[d - 1] \cup NodesOver(f[d - 1])
               y(d) == IF d = 0 THEN Lowest ELSE g[d - 1] \cup NodesOver(g[d - 1])
    <3>2. \A d \in 0..(k + 1) : x(d) = y(d)
      <4> HIDE DEF g
      <4> QED
        BY <3>1
    <3>3. g = [d \in 0..(k + 1) |-> x(d)] /\ h = [d \in 0..(k + 1) |-> y(d)]
      OBVIOUS
    <3> HIDE DEF g, h, x, y
    <3> QED
      BY <3>2, <3>3
  <2>5. LevelsUpTo(g, k + 1)
    <3> HIDE DEF g
    <3> QED
      BY <2>4 DEF LevelsUpTo
  <2>6. k + 1 \in 0..m
    OBVIOUS
  <2> QED
    BY <2>5, <2>6
<1> HIDE DEF S
<1>3. 0..m \subseteq S
  BY <1>1, <1>2, UpLevels
<1>4. m \in 0..m
  OBVIOUS
<1> QED
  BY <1>3, <1>4 DEF S

(* Each level has the one below and the nodes over it. *)
LEMMA LevelsAre ==
  /\ MaxNodes \in Nat /\ TreesUpTo[0] = Lowest
  /\ \A d \in 1..MaxNodes : TreesUpTo[d] = TreesUpTo[d - 1] \cup NodesOver(TreesUpTo[d - 1])
<1>1. MaxNodes \in Nat
  BY ExpressionAssumption
<1>2. PICK f : LevelsUpTo(f, MaxNodes)
  BY <1>1, LevelsExist
<1> DEFINE R(g) == g = [d \in 0..MaxNodes |->
                          IF d = 0 THEN Leaves \cup NullNodes ELSE g[d - 1] \cup NodesOver(g[d - 1])]
<1>3. TreesUpTo = CHOOSE g : R(g)
  BY DEF TreesUpTo
<1>4. R(f)
  BY <1>2 DEF LevelsUpTo, Lowest
<1>5. R(TreesUpTo)
  <2> HIDE DEF R
  <2> QED
    BY <1>3, <1>4
<1>6. 0 \in 0..MaxNodes /\ \A d \in 1..MaxNodes : d \in 0..MaxNodes /\ d # 0
  BY <1>1
<1>7. TreesUpTo[0] = Lowest
  BY <1>5, <1>6 DEF Lowest
<1>8. \A d \in 1..MaxNodes : TreesUpTo[d] = TreesUpTo[d - 1] \cup NodesOver(TreesUpTo[d - 1])
  BY <1>5, <1>6
<1> QED
  BY <1>1, <1>7, <1>8

(* What every level has, and the nodes over a level that has it, all trees have. *)
LEMMA TreeInduction ==
  ASSUME NEW S, Lowest \subseteq S,
         \A d \in 0 .. MaxNodes - 1 : TreesUpTo[d] \subseteq S => NodesOver(TreesUpTo[d]) \subseteq S
  PROVE  Trees \subseteq S
<1> DEFINE L == {d \in 0..MaxNodes : TreesUpTo[d] \subseteq S}
<1>1. MaxNodes \in Nat /\ 0 \in 0..MaxNodes /\ MaxNodes \in 0..MaxNodes
  BY LevelsAre
<1>2. 0 \in L
  BY <1>1, LevelsAre
<1>3. ASSUME NEW k \in 0 .. MaxNodes - 1, k \in L
      PROVE  k + 1 \in L
  <2>1. k + 1 \in 1..MaxNodes /\ (k + 1) - 1 = k /\ k + 1 \in 0..MaxNodes
    BY <1>1
  <2>2. TreesUpTo[k + 1] = TreesUpTo[k] \cup NodesOver(TreesUpTo[k])
    BY <2>1, LevelsAre
  <2>3. TreesUpTo[k] \subseteq S /\ NodesOver(TreesUpTo[k]) \subseteq S
    BY <1>3
  <2> QED
    BY <2>1, <2>2, <2>3
<1> HIDE DEF L
<1>4. 0..MaxNodes \subseteq L
  BY <1>1, <1>2, <1>3, UpLevels
<1> QED
  BY <1>1, <1>4 DEF L, Trees

(* A level has the levels below it. *)
LEMMA LevelsGrow ==
  ASSUME NEW d \in 0..MaxNodes
  PROVE  Lowest \subseteq TreesUpTo[d] /\ TreesUpTo[d] \subseteq Trees
<1> DEFINE L == {k \in 0..MaxNodes : Lowest \subseteq TreesUpTo[k]}
           U == {k \in 0..(MaxNodes - d) : TreesUpTo[d] \subseteq TreesUpTo[d + k]}
           m == MaxNodes - d
<1>1. MaxNodes \in Nat /\ 0 \in 0..MaxNodes /\ m \in Nat /\ d + 0 = d /\ 0 \in 0..m /\ m \in 0..m /\ d + m = MaxNodes
  BY LevelsAre
<1>2. 0 \in L /\ 0 \in U
  BY <1>1, LevelsAre
<1>3. ASSUME NEW k \in 0 .. MaxNodes - 1, k \in L
      PROVE  k + 1 \in L
  <2>1. k + 1 \in 1..MaxNodes /\ (k + 1) - 1 = k /\ k + 1 \in 0..MaxNodes
    BY <1>1
  <2>2. TreesUpTo[k + 1] = TreesUpTo[k] \cup NodesOver(TreesUpTo[k])
    BY <2>1, LevelsAre
  <2> QED
    BY <1>3, <2>1, <2>2
<1>4. ASSUME NEW k \in 0 .. m - 1, k \in U
      PROVE  k + 1 \in U
  <2>1. (d + k) + 1 \in 1..MaxNodes /\ ((d + k) + 1) - 1 = d + k /\ k + 1 \in 0..m /\ d + (k + 1) = (d + k) + 1
    BY <1>1
  <2>2. TreesUpTo[(d + k) + 1] = TreesUpTo[d + k] \cup NodesOver(TreesUpTo[d + k])
    BY <2>1, LevelsAre
  <2> QED
    BY <1>4, <2>1, <2>2
<1> HIDE DEF L, U
<1>5. 0..MaxNodes \subseteq L
  BY <1>1, <1>2, <1>3, UpLevels
<1> HIDE DEF m
<1>6. 0..m \subseteq U
  BY <1>1, <1>2, <1>4, UpLevels
<1>7. Lowest \subseteq TreesUpTo[d]
  BY <1>5 DEF L
<1>8. TreesUpTo[d] \subseteq TreesUpTo[d + m]
  BY <1>1, <1>6 DEF U
<1> QED
  BY <1>1, <1>7, <1>8 DEF Trees
-----------------------------------------------------------------------------
(* What is defined along the trees is defined on all of them: a node lies  *)
(* above nodes of the level below.                                         *)

LEMMA ArgsOver ==
  ASSUME NEW S, NEW n \in NodesOver(S)
  PROVE  /\ DOMAIN n.args = 1..1 \/ DOMAIN n.args = 1..2
         /\ \A i \in DOMAIN n.args : n.args[i] \in S \cup NullNodes
<1> DEFINE Good == /\ DOMAIN n.args = 1..1 \/ DOMAIN n.args = 1..2
                   /\ \A i \in DOMAIN n.args : n.args[i] \in S \cup NullNodes
<1>1. ASSUME n.args \in [1..1 -> S] PROVE Good
  BY <1>1
<1>2. ASSUME n.args \in [1..2 -> S] PROVE Good
  BY <1>2
<1>3. ASSUME n.args \in S \X NullNodes PROVE Good
  <2>1. PICK a \in S, b \in NullNodes : n.args = <<a, b>>
    BY <1>3
  <2>2. DOMAIN n.args = 1..2 /\ n.args[1] = a /\ n.args[2] = b
    BY <2>1
  <2> QED
    BY <2>2
<1>4. n.args \in [1..1 -> S] \/ n.args \in [1..2 -> S] \/ n.args \in S \X NullNodes
  <2> DEFINE one == [1..1 -> S]
             two == [1..2 -> S]
             both == S \X NullNodes
  <2>1. n.args \in one \/ n.args \in two \/ n.args \in both
    <3> HIDE DEF one, two, both
    <3>1. n \in     [kind : {"unary"}, op : {"plus", "-", "~"}, type : Types, args : one]
     \cup [kind : {"cast"}, op : {""}, type : Types, args : one]
     \cup [kind : {"call"}, op : {"upper", "length", "abs", "coalesce"}, type : Types, args : one \cup two]
     \cup [kind : {"binary"}, op : Operators \cup {"||"}, type : Types, args : two]
     \cup [kind : {"relational"}, op : Relations \cup {"=", "LIKE"}, type : {"void"}, args : two]
     \cup [kind : {"relational"}, op : {"IS NULL", "IS NOT NULL"}, type : {"void"}, args : both]
     \cup [kind : {"not"}, op : {""}, type : {"void"}, args : one]
     \cup [kind : {"conditional"}, op : {"AND", "OR"}, type : {"void"}, args : two]
      BY DEF NodesOver, one, two, both
    <3> QED
      BY <3>1
  <2> QED
    BY <2>1
<1> HIDE DEF Good
<1>5. Good
  BY <1>1, <1>2, <1>3, <1>4
<1> QED
  BY <1>5 DEF Good

LEMMA LowestHaveNone ==
  ASSUME NEW n \in Lowest
  PROVE  n.args = <<>> /\ DOMAIN n.args = {}
<1>1. \/ \E c \in DOMAIN ColumnType : n = ColumnNode(c)
      \/ \E v \in DOMAIN LiteralType : n = LiteralNode(v)
      \/ \E t \in Types : n = NullNode(t)
  BY DEF Lowest, Leaves, Columns, LiteralNodes, NullNodes
<1>2. \A kind, op, type : Node(kind, op, type, <<>>).args = <<>>
  BY DEF Node
<1>3. n.args = <<>>
  BY <1>1, <1>2 DEF ColumnNode, LiteralNode, NullNode
<1>4. DOMAIN <<>> = {}
  OBVIOUS
<1> QED
  BY <1>3, <1>4

LEMMA LevelsClosed ==
  \A d \in 0..MaxNodes : \A n \in TreesUpTo[d] : \A i \in DOMAIN n.args : n.args[i] \in TreesUpTo[d]
<1> DEFINE Closed(d) == \A n \in TreesUpTo[d] : \A i \in DOMAIN n.args : n.args[i] \in TreesUpTo[d]
           L == {d \in 0..MaxNodes : Closed(d)}
<1>1. MaxNodes \in Nat /\ 0 \in 0..MaxNodes
  BY LevelsAre
<1>2. Closed(0)
  BY LowestHaveNone, LevelsAre
<1>3. ASSUME NEW k \in 0 .. MaxNodes - 1, k \in L
      PROVE  k + 1 \in L
  <2>1. k + 1 \in 1..MaxNodes /\ (k + 1) - 1 = k /\ k + 1 \in 0..MaxNodes /\ k \in 0..MaxNodes
    BY <1>1
  <2>2. TreesUpTo[k + 1] = TreesUpTo[k] \cup NodesOver(TreesUpTo[k])
    BY <2>1, LevelsAre
  <2>3. NullNodes \subseteq TreesUpTo[k]
    BY <2>1, LevelsGrow DEF Lowest
  <2>4. Closed(k)
    BY <1>3
  <2>5. ASSUME NEW n \in TreesUpTo[k + 1], NEW i \in DOMAIN n.args PROVE n.args[i] \in TreesUpTo[k + 1]
    <3>1. CASE n \in TreesUpTo[k]
      BY <2>2, <2>4, <3>1
    <3>2. CASE n \in NodesOver(TreesUpTo[k])
      <4>1. n.args[i] \in TreesUpTo[k] \cup NullNodes
        BY <3>2, ArgsOver
      <4> QED
        BY <2>2, <2>3, <4>1
    <3> QED
      BY <2>2, <3>1, <3>2
  <2> QED
    BY <2>1, <2>5
<1>4. 0 \in L
  BY <1>1, <1>2
<1> HIDE DEF L
<1>5. 0..MaxNodes \subseteq L
  BY <1>1, <1>3, <1>4, UpLevels
<1> QED
  BY <1>5 DEF L

(* One step of a definition along the trees. *)
LEMMA ArgsBelow ==
  ASSUME NEW k \in 0 .. MaxNodes - 1, NEW n \in TreesUpTo[k + 1], NEW i \in DOMAIN n.args
  PROVE  n.args[i] \in TreesUpTo[k]
<1>1. MaxNodes \in Nat /\ k + 1 \in 1..MaxNodes /\ (k + 1) - 1 = k /\ k \in 0..MaxNodes
  BY LevelsAre
<1>2. TreesUpTo[k + 1] = TreesUpTo[k] \cup NodesOver(TreesUpTo[k])
  BY <1>1, LevelsAre
<1>3. NullNodes \subseteq TreesUpTo[k]
  BY <1>1, LevelsGrow DEF Lowest
<1>4. CASE n \in TreesUpTo[k]
  BY <1>1, <1>4, LevelsClosed
<1>5. CASE n \in NodesOver(TreesUpTo[k])
  BY <1>3, <1>5, ArgsOver
<1> QED
  BY <1>2, <1>4, <1>5

LEMMA ArgsAreTrees ==
  ASSUME NEW n \in Trees, NEW i \in DOMAIN n.args
  PROVE  n.args[i] \in Trees
<1>1. MaxNodes \in 0..MaxNodes
  BY LevelsAre
<1> QED
  BY <1>1, LevelsClosed DEF Trees

LiteralsStep(n, f) == NodeLiterals(n, [i \in DOMAIN n.args |-> f[n.args[i]]])
LiteralsUpTo(f, d) == f = [n \in TreesUpTo[d] |-> LiteralsStep(n, f)]

LEMMA LiteralsStepOf ==
  ASSUME NEW n, NEW f, NEW g, \A i \in DOMAIN n.args : f[n.args[i]] = g[n.args[i]]
  PROVE  LiteralsStep(n, f) = LiteralsStep(n, g)
<1>1. [i \in DOMAIN n.args |-> f[n.args[i]]] = [i \in DOMAIN n.args |-> g[n.args[i]]]
  OBVIOUS
<1> QED
  BY <1>1 DEF LiteralsStep

LEMMA LiteralsAre == \A n \in Trees : Literals[n] = LiteralsStep(n, Literals)
<1> DEFINE L == {d \in 0..MaxNodes : \E f : LiteralsUpTo(f, d)}
           R(f) == f = [n \in Trees |-> NodeLiterals(n, [i \in DOMAIN n.args |-> f[n.args[i]]])]
<1>1. MaxNodes \in Nat /\ 0 \in 0..MaxNodes /\ MaxNodes \in 0..MaxNodes
  BY LevelsAre
<1>2. 0 \in L
  <2> DEFINE f == [n \in TreesUpTo[0] |-> LiteralsStep(n, <<>>)]
  <2>1. \A n \in TreesUpTo[0] : LiteralsStep(n, <<>>) = LiteralsStep(n, f)
    <3> SUFFICES ASSUME NEW n \in TreesUpTo[0] PROVE LiteralsStep(n, <<>>) = LiteralsStep(n, f)
      OBVIOUS
    <3>1. n \in Lowest
      BY LevelsAre
    <3>2. DOMAIN n.args = {}
      BY <3>1, LowestHaveNone
    <3> HIDE DEF f
    <3> QED
      BY <3>2, LiteralsStepOf
  <2>2. f = [n \in TreesUpTo[0] |-> LiteralsStep(n, f)]
    <3> DEFINE x(n) == LiteralsStep(n, <<>>)
               y(n) == LiteralsStep(n, f)
    <3>1. \A n \in TreesUpTo[0] : x(n) = y(n)
      BY <2>1
    <3>2. f = [n \in TreesUpTo[0] |-> x(n)] /\ [n \in TreesUpTo[0] |-> LiteralsStep(n, f)] = [n \in TreesUpTo[0] |-> y(n)]
      OBVIOUS
    <3> HIDE DEF f, x, y
    <3> QED
      BY <3>1, <3>2
  <2> QED
    BY <1>1, <2>2 DEF LiteralsUpTo
<1>3. ASSUME NEW k \in 0 .. MaxNodes - 1, k \in L
      PROVE  k + 1 \in L
  <2>1. k + 1 \in 1..MaxNodes /\ (k + 1) - 1 = k /\ k + 1 \in 0..MaxNodes /\ k \in 0..MaxNodes
    BY <1>1
  <2>2. PICK f : LiteralsUpTo(f, k)
    BY <1>3
  <2> DEFINE g == [n \in TreesUpTo[k + 1] |-> LiteralsStep(n, f)]
  <2>3. TreesUpTo[k] \subseteq TreesUpTo[k + 1]
    BY <2>1, LevelsAre
  <2>4. \A n \in TreesUpTo[k] : g[n] = f[n]
    <3> TAKE n \in TreesUpTo[k]
    <3>1. g[n] = LiteralsStep(n, f)
      BY <2>3
    <3>2. f[n] = LiteralsStep(n, f)
      <4> DEFINE x(m) == LiteralsStep(m, f)
      <4>1. f = [m \in TreesUpTo[k] |-> x(m)]
        BY <2>2 DEF LiteralsUpTo
      <4>2. f[n] = x(n)
        <5> HIDE DEF x
        <5> QED
          BY <4>1
      <4> QED
        BY <4>2
    <3> QED
      BY <3>1, <3>2
  <2>5. \A n \in TreesUpTo[k + 1] : LiteralsStep(n, f) = LiteralsStep(n, g)
    <3> TAKE n \in TreesUpTo[k + 1]
    <3> HIDE DEF g
    <3>1. \A i \in DOMAIN n.args : f[n.args[i]] = g[n.args[i]]
      BY <2>4, ArgsBelow
    <3> QED
      BY <3>1, LiteralsStepOf
  <2>6. g = [n \in TreesUpTo[k + 1] |-> LiteralsStep(n, g)]
    <3> DEFINE x(n) == LiteralsStep(n, f)
               y(n) == LiteralsStep(n, g)
    <3>1. \A n \in TreesUpTo[k + 1] : x(n) = y(n)
      BY <2>5
    <3>2. g = [n \in TreesUpTo[k + 1] |-> x(n)] /\ [n \in TreesUpTo[k + 1] |-> LiteralsStep(n, g)] = [n \in TreesUpTo[k + 1] |-> y(n)]
      OBVIOUS
    <3> HIDE DEF g, x, y
    <3> QED
      BY <3>1, <3>2
  <2> QED
    BY <2>1, <2>6 DEF LiteralsUpTo
<1> HIDE DEF L
<1>4. 0..MaxNodes \subseteq L
  BY <1>1, <1>2, <1>3, UpLevels
<1>5. PICK f : LiteralsUpTo(f, MaxNodes)
  BY <1>1, <1>4 DEF L
<1>6. R(f)
  BY <1>5 DEF LiteralsUpTo, Trees, LiteralsStep
<1>7. Literals = CHOOSE f_1 : R(f_1)
  BY DEF Literals
<1>8. R(Literals)
  <2> HIDE DEF R
  <2> QED
    BY <1>6, <1>7
<1>9. Literals = [n \in Trees |-> LiteralsStep(n, Literals)]
  BY <1>8 DEF LiteralsStep
<1> DEFINE x(m) == LiteralsStep(m, Literals)
<1>10. Literals = [m \in Trees |-> x(m)]
  BY <1>9
<1>11. \A n \in Trees : Literals[n] = x(n)
  <2> HIDE DEF x
  <2> QED
    BY <1>10
<1> QED
  BY <1>11

TextStep(n, f) == [k \in Nat |-> NodeText(n, k, [i \in DOMAIN n.args |-> f[n.args[i]][IF i = 1 THEN k ELSE k + Len(Literals[n.args[1]])]])]
TextUpTo(f, d) == f = [n \in TreesUpTo[d] |-> TextStep(n, f)]

LEMMA TextStepOf ==
  ASSUME NEW n, NEW f, NEW g, \A i \in DOMAIN n.args : f[n.args[i]] = g[n.args[i]]
  PROVE  TextStep(n, f) = TextStep(n, g)
<1> DEFINE at(k, i) == IF i = 1 THEN k ELSE k + Len(Literals[n.args[1]])
           x(k, i) == f[n.args[i]][at(k, i)]
           y(k, i) == g[n.args[i]][at(k, i)]
           u(k) == [i \in DOMAIN n.args |-> x(k, i)]
           v(k) == [i \in DOMAIN n.args |-> y(k, i)]
<1>1. \A k \in Nat : u(k) = v(k)
  <2> TAKE k \in Nat
  <2>1. \A i \in DOMAIN n.args : x(k, i) = y(k, i)
    OBVIOUS
  <2> HIDE DEF x, y
  <2> QED
    BY <2>1
<1> HIDE DEF u, v
<1>2. [k \in Nat |-> NodeText(n, k, u(k))] = [k \in Nat |-> NodeText(n, k, v(k))]
  BY <1>1
<1> QED
  BY <1>2 DEF TextStep, u, v

LEMMA TextAre == \A n \in Trees : Text[n] = TextStep(n, Text)
<1> DEFINE L == {d \in 0..MaxNodes : \E f : TextUpTo(f, d)}
           R(f) == f = [n \in Trees |-> [k \in Nat |-> NodeText(n, k, [i \in DOMAIN n.args |-> f[n.args[i]][IF i = 1 THEN k ELSE k + Len(Literals[n.args[1]])]])]]
<1>1. MaxNodes \in Nat /\ 0 \in 0..MaxNodes /\ MaxNodes \in 0..MaxNodes
  BY LevelsAre
<1>2. 0 \in L
  <2> DEFINE f == [n \in TreesUpTo[0] |-> TextStep(n, <<>>)]
  <2>1. \A n \in TreesUpTo[0] : TextStep(n, <<>>) = TextStep(n, f)
    <3> SUFFICES ASSUME NEW n \in TreesUpTo[0] PROVE TextStep(n, <<>>) = TextStep(n, f)
      OBVIOUS
    <3>1. n \in Lowest
      BY LevelsAre
    <3>2. DOMAIN n.args = {}
      BY <3>1, LowestHaveNone
    <3> HIDE DEF f
    <3> QED
      BY <3>2, TextStepOf
  <2>2. f = [n \in TreesUpTo[0] |-> TextStep(n, f)]
    <3> DEFINE x(n) == TextStep(n, <<>>)
               y(n) == TextStep(n, f)
    <3>1. \A n \in TreesUpTo[0] : x(n) = y(n)
      BY <2>1
    <3>2. f = [n \in TreesUpTo[0] |-> x(n)] /\ [n \in TreesUpTo[0] |-> TextStep(n, f)] = [n \in TreesUpTo[0] |-> y(n)]
      OBVIOUS
    <3> HIDE DEF f, x, y
    <3> QED
      BY <3>1, <3>2
  <2> QED
    BY <1>1, <2>2 DEF TextUpTo
<1>3. ASSUME NEW k \in 0 .. MaxNodes - 1, k \in L
      PROVE  k + 1 \in L
  <2>1. k + 1 \in 1..MaxNodes /\ (k + 1) - 1 = k /\ k + 1 \in 0..MaxNodes /\ k \in 0..MaxNodes
    BY <1>1
  <2>2. PICK f : TextUpTo(f, k)
    BY <1>3
  <2> DEFINE g == [n \in TreesUpTo[k + 1] |-> TextStep(n, f)]
  <2>3. TreesUpTo[k] \subseteq TreesUpTo[k + 1]
    BY <2>1, LevelsAre
  <2>4. \A n \in TreesUpTo[k] : g[n] = f[n]
    <3> TAKE n \in TreesUpTo[k]
    <3>1. g[n] = TextStep(n, f)
      BY <2>3
    <3>2. f[n] = TextStep(n, f)
      <4> DEFINE x(m) == TextStep(m, f)
      <4>1. f = [m \in TreesUpTo[k] |-> x(m)]
        BY <2>2 DEF TextUpTo
      <4>2. f[n] = x(n)
        <5> HIDE DEF x
        <5> QED
          BY <4>1
      <4> QED
        BY <4>2
    <3> QED
      BY <3>1, <3>2
  <2>5. \A n \in TreesUpTo[k + 1] : TextStep(n, f) = TextStep(n, g)
    <3> TAKE n \in TreesUpTo[k + 1]
    <3> HIDE DEF g
    <3>1. \A i \in DOMAIN n.args : f[n.args[i]] = g[n.args[i]]
      BY <2>4, ArgsBelow
    <3> QED
      BY <3>1, TextStepOf
  <2>6. g = [n \in TreesUpTo[k + 1] |-> TextStep(n, g)]
    <3> DEFINE x(n) == TextStep(n, f)
               y(n) == TextStep(n, g)
    <3>1. \A n \in TreesUpTo[k + 1] : x(n) = y(n)
      BY <2>5
    <3>2. g = [n \in TreesUpTo[k + 1] |-> x(n)] /\ [n \in TreesUpTo[k + 1] |-> TextStep(n, g)] = [n \in TreesUpTo[k + 1] |-> y(n)]
      OBVIOUS
    <3> HIDE DEF g, x, y
    <3> QED
      BY <3>1, <3>2
  <2> QED
    BY <2>1, <2>6 DEF TextUpTo
<1> HIDE DEF L
<1>4. 0..MaxNodes \subseteq L
  BY <1>1, <1>2, <1>3, UpLevels
<1>5. PICK f : TextUpTo(f, MaxNodes)
  BY <1>1, <1>4 DEF L
<1>6. R(f)
  BY <1>5 DEF TextUpTo, Trees, TextStep
<1>7. Text = CHOOSE f_1 : R(f_1)
  BY DEF Text
<1>8. R(Text)
  <2> HIDE DEF R
  <2> QED
    BY <1>6, <1>7
<1>9. Text = [n \in Trees |-> TextStep(n, Text)]
  BY <1>8 DEF TextStep
<1> DEFINE x(m) == TextStep(m, Text)
<1>10. Text = [m \in Trees |-> x(m)]
  BY <1>9
<1>11. \A n \in Trees : Text[n] = x(n)
  <2> HIDE DEF x
  <2> QED
    BY <1>10
<1> QED
  BY <1>11

NodesStep(n, f) == {n} \cup UNION {f[n.args[i]] : i \in DOMAIN n.args}
NodesUpTo(f, d) == f = [n \in TreesUpTo[d] |-> NodesStep(n, f)]

LEMMA NodesStepOf ==
  ASSUME NEW n, NEW f, NEW g, \A i \in DOMAIN n.args : f[n.args[i]] = g[n.args[i]]
  PROVE  NodesStep(n, f) = NodesStep(n, g)
<1> DEFINE x(i) == f[n.args[i]]
           y(i) == g[n.args[i]]
<1>1. \A i \in DOMAIN n.args : x(i) = y(i)
  OBVIOUS
<1> HIDE DEF x, y
<1>2. {x(i) : i \in DOMAIN n.args} = {y(i) : i \in DOMAIN n.args}
  BY <1>1
<1> QED
  BY <1>2 DEF NodesStep, x, y

LEMMA NodesAre == \A n \in Trees : Nodes[n] = NodesStep(n, Nodes)
<1> DEFINE L == {d \in 0..MaxNodes : \E f : NodesUpTo(f, d)}
           R(f) == f = [n \in Trees |-> {n} \cup UNION {f[n.args[i]] : i \in DOMAIN n.args}]
<1>1. MaxNodes \in Nat /\ 0 \in 0..MaxNodes /\ MaxNodes \in 0..MaxNodes
  BY LevelsAre
<1>2. 0 \in L
  <2> DEFINE f == [n \in TreesUpTo[0] |-> NodesStep(n, <<>>)]
  <2>1. \A n \in TreesUpTo[0] : NodesStep(n, <<>>) = NodesStep(n, f)
    <3> SUFFICES ASSUME NEW n \in TreesUpTo[0] PROVE NodesStep(n, <<>>) = NodesStep(n, f)
      OBVIOUS
    <3>1. n \in Lowest
      BY LevelsAre
    <3>2. DOMAIN n.args = {}
      BY <3>1, LowestHaveNone
    <3> HIDE DEF f
    <3> QED
      BY <3>2, NodesStepOf
  <2>2. f = [n \in TreesUpTo[0] |-> NodesStep(n, f)]
    <3> DEFINE x(n) == NodesStep(n, <<>>)
               y(n) == NodesStep(n, f)
    <3>1. \A n \in TreesUpTo[0] : x(n) = y(n)
      BY <2>1
    <3>2. f = [n \in TreesUpTo[0] |-> x(n)] /\ [n \in TreesUpTo[0] |-> NodesStep(n, f)] = [n \in TreesUpTo[0] |-> y(n)]
      OBVIOUS
    <3> HIDE DEF f, x, y
    <3> QED
      BY <3>1, <3>2
  <2> QED
    BY <1>1, <2>2 DEF NodesUpTo
<1>3. ASSUME NEW k \in 0 .. MaxNodes - 1, k \in L
      PROVE  k + 1 \in L
  <2>1. k + 1 \in 1..MaxNodes /\ (k + 1) - 1 = k /\ k + 1 \in 0..MaxNodes /\ k \in 0..MaxNodes
    BY <1>1
  <2>2. PICK f : NodesUpTo(f, k)
    BY <1>3
  <2> DEFINE g == [n \in TreesUpTo[k + 1] |-> NodesStep(n, f)]
  <2>3. TreesUpTo[k] \subseteq TreesUpTo[k + 1]
    BY <2>1, LevelsAre
  <2>4. \A n \in TreesUpTo[k] : g[n] = f[n]
    <3> TAKE n \in TreesUpTo[k]
    <3>1. g[n] = NodesStep(n, f)
      BY <2>3
    <3>2. f[n] = NodesStep(n, f)
      <4> DEFINE x(m) == NodesStep(m, f)
      <4>1. f = [m \in TreesUpTo[k] |-> x(m)]
        BY <2>2 DEF NodesUpTo
      <4>2. f[n] = x(n)
        <5> HIDE DEF x
        <5> QED
          BY <4>1
      <4> QED
        BY <4>2
    <3> QED
      BY <3>1, <3>2
  <2>5. \A n \in TreesUpTo[k + 1] : NodesStep(n, f) = NodesStep(n, g)
    <3> TAKE n \in TreesUpTo[k + 1]
    <3> HIDE DEF g
    <3>1. \A i \in DOMAIN n.args : f[n.args[i]] = g[n.args[i]]
      BY <2>4, ArgsBelow
    <3> QED
      BY <3>1, NodesStepOf
  <2>6. g = [n \in TreesUpTo[k + 1] |-> NodesStep(n, g)]
    <3> DEFINE x(n) == NodesStep(n, f)
               y(n) == NodesStep(n, g)
    <3>1. \A n \in TreesUpTo[k + 1] : x(n) = y(n)
      BY <2>5
    <3>2. g = [n \in TreesUpTo[k + 1] |-> x(n)] /\ [n \in TreesUpTo[k + 1] |-> NodesStep(n, g)] = [n \in TreesUpTo[k + 1] |-> y(n)]
      OBVIOUS
    <3> HIDE DEF g, x, y
    <3> QED
      BY <3>1, <3>2
  <2> QED
    BY <2>1, <2>6 DEF NodesUpTo
<1> HIDE DEF L
<1>4. 0..MaxNodes \subseteq L
  BY <1>1, <1>2, <1>3, UpLevels
<1>5. PICK f : NodesUpTo(f, MaxNodes)
  BY <1>1, <1>4 DEF L
<1>6. R(f)
  BY <1>5 DEF NodesUpTo, Trees, NodesStep
<1>7. Nodes = CHOOSE f_1 : R(f_1)
  BY DEF Nodes
<1>8. R(Nodes)
  <2> HIDE DEF R
  <2> QED
    BY <1>6, <1>7
<1>9. Nodes = [n \in Trees |-> NodesStep(n, Nodes)]
  BY <1>8 DEF NodesStep
<1> DEFINE x(m) == NodesStep(m, Nodes)
<1>10. Nodes = [m \in Trees |-> x(m)]
  BY <1>9
<1>11. \A n \in Trees : Nodes[n] = x(n)
  <2> HIDE DEF x
  <2> QED
    BY <1>10
<1> QED
  BY <1>11

-----------------------------------------------------------------------------
(* Texts: what is in the two parts of one, and how much of it. *)

IsText(ts) == \E C : ts \in Seq(C)

Joins(a, b) ==
  /\ IsText(a \o b) /\ Len(a \o b) = Len(a) + Len(b)
  /\ \A i \in 1..Len(a) : (a \o b)[i] = a[i]
  /\ \A j \in 1..Len(b) : (a \o b)[Len(a) + j] = b[j]

LEMMA TextLength ==
  ASSUME NEW ts, IsText(ts)
  PROVE  Len(ts) \in Nat /\ DOMAIN ts = 1..Len(ts)
BY DEF IsText

LEMMA TextsJoin ==
  ASSUME NEW a, NEW b, IsText(a), IsText(b)
  PROVE  Joins(a, b)
<1>1. PICK C : a \in Seq(C)
  BY DEF IsText
<1>2. PICK D : b \in Seq(D)
  BY DEF IsText
<1> DEFINE E == C \cup D
<1>3. a \in Seq(E) /\ b \in Seq(E)
  BY <1>1, <1>2
<1> HIDE DEF E
<1>4. \A u, v \in Seq(E) : u \o v \in Seq(E) /\ Len(u \o v) = Len(u) + Len(v)
  OBVIOUS
<1>5. \A u, v \in Seq(E) : \A i \in 1..Len(u) : (u \o v)[i] = u[i]
  OBVIOUS
<1>6. \A u, v \in Seq(E) : \A j \in 1..Len(v) : (u \o v)[Len(u) + j] = v[j]
  OBVIOUS
<1> QED
  BY <1>3, <1>4, <1>5, <1>6, Zenon DEF Joins, IsText

LEMMA TextsAssociate ==
  ASSUME NEW a, NEW b, NEW c, IsText(a), IsText(b), IsText(c)
  PROVE  (a \o b) \o c = a \o (b \o c)
<1>1. PICK A : a \in Seq(A)
  BY DEF IsText
<1>2. PICK B : b \in Seq(B)
  BY DEF IsText
<1>3. PICK C : c \in Seq(C)
  BY DEF IsText
<1> DEFINE E == A \cup B \cup C
<1>4. a \in Seq(E) /\ b \in Seq(E) /\ c \in Seq(E)
  BY <1>1, <1>2, <1>3
<1> HIDE DEF E
<1> QED
  BY <1>4

LEMMA EmptyText ==
  /\ IsText(<<>>) /\ Len(<<>>) = 0
  /\ \A a : IsText(a) => a \o <<>> = a /\ <<>> \o a = a
<1>1. <<>> \in Seq({}) /\ Len(<<>>) = 0
  OBVIOUS
<1>2. ASSUME NEW a, IsText(a) PROVE a \o <<>> = a /\ <<>> \o a = a
  <2>1. PICK C : a \in Seq(C)
    BY <1>2 DEF IsText
  <2> QED
    BY <2>1
<1> QED
  BY <1>1, <1>2 DEF IsText

LEMMA TokenText == \A t : IsText(<<t>>) /\ Len(<<t>>) = 1 /\ <<t>>[1] = t
<1> SUFFICES ASSUME NEW t PROVE IsText(<<t>>) /\ Len(<<t>>) = 1 /\ <<t>>[1] = t
  OBVIOUS
<1>1. <<t>> \in Seq({t})
  OBVIOUS
<1> QED
  BY <1>1 DEF IsText

Shift(m, Q) == {m + j : j \in Q}

(* Places in the second part are places further on. *)
CountAdds(m, P, Q) ==
  /\ Cardinality(P) \in Nat /\ Cardinality(Q) \in Nat
  /\ Cardinality(P \cup Shift(m, Q)) = Cardinality(P) + Cardinality(Q)

LEMMA CountsAdd ==
  ASSUME NEW m \in Nat, NEW n \in Nat, NEW P, P \subseteq 1..m, NEW Q, Q \subseteq 1..n
  PROVE  CountAdds(m, P, Q)
<1>1. IsFiniteSet(1..m) /\ IsFiniteSet(1..n)
  BY FS_Interval
<1>2. IsFiniteSet(P) /\ IsFiniteSet(Q)
  BY <1>1, FS_Subset
<1> DEFINE f == [j \in Q |-> m + j]
           T == Shift(m, Q)
<1>3. f \in Bijection(Q, T)
  <2>1. \A j \in Q : j \in Nat
    OBVIOUS
  <2>2. f \in [Q -> T] /\ \A t \in T : \E j \in Q : f[j] = t
    BY DEF Shift
  <2>3. \A i, j \in Q : f[i] = f[j] => i = j
    BY <2>1
  <2> HIDE DEF f, T
  <2> QED
    BY <2>2, <2>3 DEF Bijection, Injection, Surjection, IsInjective
<1>4. ExistsBijection(Q, T)
  BY <1>3 DEF ExistsBijection
<1>5. IsFiniteSet(T) /\ Cardinality(T) = Cardinality(Q)
  BY <1>2, <1>4, FS_Bijection
<1>6. P \cap T = {}
  BY DEF Shift
<1>7. Cardinality(P \cap T) = 0
  BY <1>6, FS_EmptySet
<1>8. Cardinality(P) \in Nat /\ Cardinality(Q) \in Nat
  BY <1>2, FS_CardinalityType
<1>9. Cardinality(P \cup T) = Cardinality(P) + Cardinality(T) - Cardinality(P \cap T)
  BY <1>2, <1>5, FS_Union
<1> QED
  BY <1>5, <1>7, <1>8, <1>9 DEF CountAdds

(* The slots of a text up to a place. *)
SlotsTo(ts, i) == {j \in Slots(ts) : j <= i}

LEMMA SlotsJoin ==
  ASSUME NEW a, NEW b, IsText(a), IsText(b)
  PROVE  /\ Slots(a) \subseteq 1..Len(a) /\ Slots(b) \subseteq 1..Len(b)
         /\ Slots(a \o b) = Slots(a) \cup Shift(Len(a), Slots(b))
<1>1. Joins(a, b) /\ Len(a) \in Nat /\ Len(b) \in Nat
  BY TextsJoin, TextLength
<1>2. DOMAIN a = 1..Len(a) /\ DOMAIN b = 1..Len(b) /\ DOMAIN (a \o b) = 1 .. Len(a \o b)
  BY <1>1, TextLength DEF Joins
<1>3. \A i \in 1..Len(a) : (a \o b)[i] = a[i]
  BY <1>1 DEF Joins
<1>4. \A j \in 1..Len(b) : (a \o b)[Len(a) + j] = b[j]
  BY <1>1 DEF Joins
<1>5. Len(a \o b) = Len(a) + Len(b)
  BY <1>1 DEF Joins
<1> DEFINE m == Len(a)
           n == Len(b)
           c == a \o b
<1>6. \A i \in 1..(m + n) : i \in 1..m \/ (i - m \in 1..n /\ i = m + (i - m))
  BY <1>1
<1>7. \A i \in 1..m : i \in 1..(m + n)
  BY <1>1
<1>8. \A j \in 1..n : m + j \in 1..(m + n)
  BY <1>1
<1>9. Slots(c) = {i \in 1..(m + n) : c[i][1] = "slot"} /\ Slots(a) = {i \in 1..m : a[i][1] = "slot"}
      /\ Slots(b) = {i \in 1..n : b[i][1] = "slot"}
  BY <1>2, <1>5 DEF Slots
<1>10. (\A i \in 1..m : c[i] = a[i]) /\ (\A j \in 1..n : c[m + j] = b[j])
  BY <1>3, <1>4
<1> HIDE DEF m, n, c
<1>11. \A i \in Slots(c) : i \in Slots(a) \cup Shift(m, Slots(b))
  BY <1>6, <1>9, <1>10 DEF Shift
<1>12. \A i \in Slots(a) : i \in Slots(c)
  BY <1>7, <1>9, <1>10
<1>13. \A j \in Slots(b) : m + j \in Slots(c)
  BY <1>8, <1>9, <1>10
<1>14. Slots(c) = Slots(a) \cup Shift(m, Slots(b)) /\ Slots(a) \subseteq 1..m /\ Slots(b) \subseteq 1..n
  BY <1>9, <1>11, <1>12, <1>13 DEF Shift
<1> QED
  BY <1>14 DEF m, n, c

LEMMA RanksJoin ==
  ASSUME NEW a, NEW b, IsText(a), IsText(b)
  PROVE  /\ Cardinality(Slots(a \o b)) = Cardinality(Slots(a)) + Cardinality(Slots(b))
         /\ \A i \in 1..Len(a) : SlotsTo(a \o b, i) = SlotsTo(a, i)
         /\ \A j \in 1..Len(b) : Cardinality(SlotsTo(a \o b, Len(a) + j)) = Cardinality(Slots(a)) + Cardinality(SlotsTo(b, j))
<1> DEFINE m == Len(a)
           n == Len(b)
           c == a \o b
<1>1. m \in Nat /\ n \in Nat
  BY TextLength
<1>2. Slots(a) \subseteq 1..m /\ Slots(b) \subseteq 1..n /\ Slots(c) = Slots(a) \cup Shift(m, Slots(b))
  BY SlotsJoin
<1> HIDE DEF m, n, c
<1>3. Cardinality(Slots(c)) = Cardinality(Slots(a)) + Cardinality(Slots(b))
  BY <1>1, <1>2, CountsAdd DEF CountAdds
<1>4. \A i \in 1..m : SlotsTo(c, i) = SlotsTo(a, i)
  <2> TAKE i \in 1..m
  <2>1. \A j \in Shift(m, Slots(b)) : ~(j <= i)
    BY <1>1, <1>2 DEF Shift
  <2> QED
    BY <1>2, <2>1 DEF SlotsTo
<1>5. ASSUME NEW j \in 1..n
      PROVE  Cardinality(SlotsTo(c, m + j)) = Cardinality(Slots(a)) + Cardinality(SlotsTo(b, j))
  <2>1. \A i \in Slots(a) : i <= m + j
    BY <1>1, <1>2
  <2>2. \A i \in Slots(b) : m + i <= m + j <=> i <= j
    BY <1>1, <1>2
  <2>3. SlotsTo(c, m + j) = Slots(a) \cup Shift(m, SlotsTo(b, j))
    BY <1>2, <2>1, <2>2 DEF SlotsTo, Shift
  <2>4. SlotsTo(b, j) \subseteq 1..n
    BY <1>2 DEF SlotsTo
  <2> QED
    BY <1>1, <1>2, <2>3, <2>4, CountsAdd DEF CountAdds
<1> QED
  BY <1>3, <1>4, <1>5 DEF m, n, c

(* Where a token is; brackets opened and not closed. *)
PlacesOf(ts, t) == {i \in DOMAIN ts : ts[i] = t}
Excess(ts) == Cardinality(PlacesOf(ts, OpenBracket)) - Cardinality(PlacesOf(ts, CloseBracket))

LEMMA PlacesJoin ==
  ASSUME NEW a, NEW b, IsText(a), IsText(b), NEW t
  PROVE  /\ Cardinality(PlacesOf(a, t)) \in Nat /\ Cardinality(PlacesOf(b, t)) \in Nat
         /\ Cardinality(PlacesOf(a \o b, t)) = Cardinality(PlacesOf(a, t)) + Cardinality(PlacesOf(b, t))
<1> DEFINE m == Len(a)
           n == Len(b)
           c == a \o b
           A == PlacesOf(a, t)
           B == PlacesOf(b, t)
           D == PlacesOf(c, t)
<1>1. m \in Nat /\ n \in Nat /\ DOMAIN a = 1..m /\ DOMAIN b = 1..n
  BY TextLength
<1>2. Joins(a, b)
  BY TextsJoin
<1>3. DOMAIN c = 1..(m + n)
  BY <1>2, TextLength DEF Joins
<1>4. (\A i \in 1..m : c[i] = a[i]) /\ (\A j \in 1..n : c[m + j] = b[j])
  BY <1>2 DEF Joins
<1> HIDE DEF m, n, c
<1>5. \A i \in 1..(m + n) : i \in 1..m \/ (i - m \in 1..n /\ i = m + (i - m))
  BY <1>1
<1>6. \A i \in 1..m : i \in 1..(m + n)
  BY <1>1
<1>7. \A j \in 1..n : m + j \in 1..(m + n)
  BY <1>1
<1>8. A = {i \in 1..m : a[i] = t} /\ B = {i \in 1..n : b[i] = t} /\ D = {i \in 1..(m + n) : c[i] = t}
  BY <1>1, <1>3 DEF PlacesOf
<1> HIDE DEF A, B, D
<1>9. \A i \in D : i \in A \cup Shift(m, B)
  BY <1>8, <1>4, <1>5 DEF Shift
<1>10. \A i \in A : i \in D
  BY <1>8, <1>4, <1>6
<1>11. \A j \in B : m + j \in D
  BY <1>8, <1>4, <1>7
<1>12. A \subseteq 1..m /\ B \subseteq 1..n
  BY <1>8
<1> HIDE <1>8
<1>13. D = A \cup Shift(m, B)
  BY <1>9, <1>10, <1>11 DEF Shift
<1>14. /\ Cardinality(A) \in Nat /\ Cardinality(B) \in Nat
       /\ Cardinality(A \cup Shift(m, B)) = Cardinality(A) + Cardinality(B)
  <2>1. m \in Nat /\ n \in Nat
    BY <1>1
  <2>2. CountAdds(m, A, B)
    BY <2>1, <1>12, CountsAdd, Zenon
  <2> QED
    BY <2>2, Zenon DEF CountAdds
<1> QED
  BY <1>13, <1>14 DEF A, B, D, c

LEMMA ExcessJoins ==
  ASSUME NEW a, NEW b, IsText(a), IsText(b)
  PROVE  Excess(a) \in Int /\ Excess(b) \in Int /\ Excess(a \o b) = Excess(a) + Excess(b)
BY PlacesJoin DEF Excess

LEMMA ExcessBalances ==
  ASSUME NEW ts, IsText(ts)
  PROVE  Balanced(ts) <=> Excess(ts) = 0
<1>1. DOMAIN ts = 1..Len(ts)
  BY TextLength
<1> QED
  BY <1>1 DEF Balanced, Depth, Excess, PlacesOf

Neutral(t) == t[1] # "slot" /\ t # OpenBracket /\ t # CloseBracket

LEMMA TokenExcess ==
  /\ \A t : Neutral(t) => Excess(<<t>>) = 0
  /\ Excess(<<OpenBracket>>) = 1 /\ Excess(<<CloseBracket>>) = -1
  /\ Excess(<<>>) = 0
<1>1. \A t : DOMAIN <<t>> = {1} /\ <<t>>[1] = t
  OBVIOUS
<1>2. Cardinality({}) = 0 /\ Cardinality({1}) = 1
  BY FS_EmptySet, FS_Singleton
<1>3. OpenBracket # CloseBracket
  BY DEF OpenBracket, CloseBracket
<1>4. ASSUME NEW t, NEW u
      PROVE  PlacesOf(<<t>>, u) = IF t = u THEN {1} ELSE {}
  BY <1>1 DEF PlacesOf
<1>5. \A u : PlacesOf(<<>>, u) = {}
  BY DEF PlacesOf
<1>6. \A t : Neutral(t) => Excess(<<t>>) = 0
  BY <1>2, <1>4 DEF Excess, Neutral
<1>7. Excess(<<OpenBracket>>) = 1
  BY <1>2, <1>3, <1>4 DEF Excess
<1>8. Excess(<<CloseBracket>>) = -1
  BY <1>2, <1>3, <1>4 DEF Excess
<1>9. Excess(<<>>) = 0
  <2>1. PlacesOf(<<>>, OpenBracket) = {} /\ PlacesOf(<<>>, CloseBracket) = {}
    BY <1>5
  <2>2. Cardinality({}) - Cardinality({}) = 0
    BY <1>2
  <2> QED
    BY <2>1, <2>2, Zenon DEF Excess
<1> QED
  BY <1>6, <1>7, <1>8, <1>9

-----------------------------------------------------------------------------
(* A text binds literals, of which k come before: its slots stand for them *)
(* and for no others.                                                      *)

Place(ts, k, i) == IF syntax = "postgres" THEN ts[i][2] - k ELSE Cardinality(SlotsTo(ts, i))

Slotted(ts) == \A i \in Slots(ts) : IF syntax = "postgres" THEN ts[i][2] \in Int ELSE ts[i][2] = 0
PlainKept(ts, out) == \A i \in 1..Len(ts) : ts[i][1] # "slot" => out[i] = ts[i]
SlotsFilled(ts, k, ls, out) ==
  \A i \in Slots(ts) : Place(ts, k, i) \in 1..Len(ls) /\ out[i] = Value(ls[Place(ts, k, i)])
LiteralsUsed(ts, k, ls) == \A m \in 1..Len(ls) : \E i \in Slots(ts) : Place(ts, k, i) = m
SlotsCounted(ts, ls) == syntax # "postgres" => Cardinality(Slots(ts)) = Len(ls)

BindsText(ts, k, ls, out) ==
  /\ IsText(ts) /\ IsText(ls) /\ IsText(out) /\ Len(out) = Len(ts)
  /\ Slotted(ts) /\ PlainKept(ts, out) /\ SlotsFilled(ts, k, ls, out)
  /\ LiteralsUsed(ts, k, ls) /\ SlotsCounted(ts, ls)

LEMMA SlotPlaces ==
  ASSUME NEW ts, IsText(ts), NEW i \in Slots(ts)
  PROVE  i \in 1..Len(ts) /\ i \in Nat /\ ts[i][1] = "slot" /\ Len(ts) \in Nat
<1>1. DOMAIN ts = 1..Len(ts) /\ Len(ts) \in Nat
  BY TextLength
<1>2. i \in 1..Len(ts) /\ ts[i][1] = "slot"
  BY <1>1 DEF Slots
<1> QED
  BY <1>1, <1>2

SlotsKept(a, b, c) ==
  /\ \A i \in Slots(a) : c[i] = a[i]
  /\ \A j \in Slots(b) : c[Len(a) + j] = b[j]

SlotsSplit(a, b) ==
  /\ \A i \in Slots(a \o b) : i \in Slots(a) \/ \E j \in Slots(b) : i = Len(a) + j
  /\ \A i \in Slots(a) : i \in Slots(a \o b)
  /\ \A j \in Slots(b) : Len(a) + j \in Slots(a \o b)

(* A place in two texts is one in the first or the second. *)
LEMMA PlacesIn ==
  ASSUME NEW a, NEW b, IsText(a), IsText(b)
  PROVE  /\ \A i \in 1..Len(a \o b) : i \in 1..Len(a) \/ \E j \in 1..Len(b) : i = Len(a) + j
         /\ SlotsSplit(a, b)
<1>1. Joins(a, b)
  BY TextsJoin
<1>2. Len(a) \in Nat /\ Len(b) \in Nat /\ Len(a \o b) = Len(a) + Len(b)
  BY <1>1, TextLength DEF Joins
<1>3. \A m, n \in Nat : \A i \in 1..(m + n) : i \in 1..m \/ (i - m \in 1..n /\ i = m + (i - m))
  OBVIOUS
<1>4. \A i \in 1..Len(a \o b) : i \in 1..Len(a) \/ \E j \in 1..Len(b) : i = Len(a) + j
  BY <1>2, <1>3
<1>5. Slots(a \o b) = Slots(a) \cup Shift(Len(a), Slots(b))
  BY SlotsJoin
<1>6. SlotsSplit(a, b)
  BY <1>5, Zenon DEF Shift, SlotsSplit
<1> QED
  BY <1>4, <1>6

LEMMA ValuesIn ==
  ASSUME NEW a, NEW b, IsText(a), IsText(b)
  PROVE  SlotsKept(a, b, a \o b)
<1>0. Joins(a, b)
  BY TextsJoin
<1>1. \A i \in 1..Len(a) : (a \o b)[i] = a[i]
  BY <1>0 DEF Joins
<1>2. \A j \in 1..Len(b) : (a \o b)[Len(a) + j] = b[j]
  BY <1>0 DEF Joins
<1>3. (\A i \in Slots(a) : i \in 1..Len(a)) /\ (\A j \in Slots(b) : j \in 1..Len(b))
  BY SlotPlaces, Zenon
<1> QED
  BY <1>1, <1>2, <1>3, Zenon DEF SlotsKept

(* The slots of the second text come after the literals of the first. *)
LEMMA PlaceJoins ==
  ASSUME NEW a, NEW b, IsText(a), IsText(b), NEW k \in Nat, NEW n \in Nat,
         Slotted(a), Slotted(b), syntax # "postgres" => Cardinality(Slots(a)) = n
  PROVE  /\ \A i \in Slots(a) : Place(a \o b, k, i) = Place(a, k, i)
         /\ \A j \in Slots(b) : Place(a \o b, k, Len(a) + j) = n + Place(b, k + n, j)
<1>1. CASE syntax = "postgres"
  <2>1. \A i \in Slots(a) : Place(a \o b, k, i) = Place(a, k, i)
    BY <1>1, ValuesIn DEF Place, SlotsKept
  <2>2. ASSUME NEW j \in Slots(b) PROVE Place(a \o b, k, Len(a) + j) = n + Place(b, k + n, j)
    <3>0. (a \o b)[Len(a) + j] = b[j]
      <4>1. SlotsKept(a, b, a \o b)
        BY ValuesIn
      <4> QED
        BY <2>2, <4>1, Zenon DEF SlotsKept
    <3>1. (a \o b)[Len(a) + j] = b[j] /\ b[j][2] \in Int
      BY <1>1, <3>0 DEF Slotted
    <3>2. Place(a \o b, k, Len(a) + j) = b[j][2] - k /\ Place(b, k + n, j) = b[j][2] - (k + n)
      BY <1>1, <3>1 DEF Place
    <3> QED
      BY <3>1, <3>2
  <2> QED
    BY <2>1, <2>2
<1>2. CASE syntax # "postgres"
  <2>1. ASSUME NEW i \in Slots(a) PROVE Place(a \o b, k, i) = Place(a, k, i)
    <3>1. i \in 1..Len(a)
      BY SlotPlaces
    <3>2. SlotsTo(a \o b, i) = SlotsTo(a, i)
      BY <3>1, RanksJoin
    <3> QED
      BY <1>2, <3>2 DEF Place
  <2>2. ASSUME NEW j \in Slots(b) PROVE Place(a \o b, k, Len(a) + j) = n + Place(b, k + n, j)
    <3>1. j \in 1..Len(b)
      BY SlotPlaces
    <3>2. Cardinality(SlotsTo(a \o b, Len(a) + j)) = Cardinality(Slots(a)) + Cardinality(SlotsTo(b, j))
      BY <3>1, RanksJoin
    <3> QED
      BY <1>2, <3>2 DEF Place
  <2> QED
    BY <2>1, <2>2
<1> QED
  BY <1>1, <1>2

LEMMA PlainJoins ==
  ASSUME NEW a, NEW b, NEW oa, NEW ob, IsText(a), IsText(b), IsText(oa), IsText(ob),
         Len(oa) = Len(a), Len(ob) = Len(b), Slotted(a), Slotted(b), PlainKept(a, oa), PlainKept(b, ob)
  PROVE  Slotted(a \o b) /\ PlainKept(a \o b, oa \o ob) /\ Len(oa \o ob) = Len(a \o b)
<1>1. Joins(a, b) /\ Joins(oa, ob)
  BY TextsJoin
<1>0. IsText(a) /\ IsText(b) /\ Slotted(a) /\ Slotted(b)
  OBVIOUS
<1>2. Slotted(a \o b)
  <2>1. SlotsSplit(a, b)
    BY <1>0, PlacesIn
  <2>2. SlotsKept(a, b, a \o b)
    BY <1>0, ValuesIn
  <2> DEFINE Fits(t) == IF syntax = "postgres" THEN t[2] \in Int ELSE t[2] = 0
  <2>4. (\A i \in Slots(a) : Fits(a[i])) /\ (\A i \in Slots(b) : Fits(b[i]))
    BY <1>0 DEF Slotted
  <2> HIDE DEF Fits
  <2>5. \A i \in Slots(a \o b) : Fits((a \o b)[i])
    BY <2>1, <2>2, <2>4, Zenon DEF SlotsKept, SlotsSplit
  <2> QED
    BY <2>5, Zenon DEF Slotted, Fits
<1>3. Len(oa \o ob) = Len(a \o b)
  BY <1>1 DEF Joins
<1>4. ASSUME NEW i \in 1..Len(a \o b), (a \o b)[i][1] # "slot"
      PROVE  (oa \o ob)[i] = (a \o b)[i]
  <2>1. CASE i \in 1..Len(a)
    <3>1. (a \o b)[i] = a[i] /\ (oa \o ob)[i] = oa[i]
      BY <1>1, <2>1 DEF Joins
    <3> QED
      BY <1>4, <2>1, <3>1 DEF PlainKept
  <2>2. ASSUME NEW j \in 1..Len(b), i = Len(a) + j
        PROVE  (oa \o ob)[i] = (a \o b)[i]
    <3>1. (a \o b)[Len(a) + j] = b[j]
      BY <1>1, <2>2 DEF Joins
    <3>2. (oa \o ob)[Len(oa) + j] = ob[j]
      BY <1>1, <2>2 DEF Joins
    <3> QED
      BY <1>4, <2>2, <3>1, <3>2 DEF PlainKept
  <2>3. i \in 1..Len(a) \/ \E j \in 1..Len(b) : i = Len(a) + j
    BY PlacesIn
  <2> QED
    BY <2>1, <2>2, <2>3
<1> QED
  BY <1>2, <1>3, <1>4 DEF PlainKept

LEMMA BindsJoins ==
  ASSUME NEW k \in Nat, NEW a, NEW la, NEW oa, NEW b, NEW lb, NEW ob,
         BindsText(a, k, la, oa), BindsText(b, k + Len(la), lb, ob)
  PROVE  BindsText(a \o b, k, la \o lb, oa \o ob)
<1>1. /\ IsText(a) /\ IsText(la) /\ IsText(oa) /\ IsText(b) /\ IsText(lb) /\ IsText(ob)
      /\ Len(oa) = Len(a) /\ Len(ob) = Len(b) /\ Slotted(a) /\ Slotted(b) /\ PlainKept(a, oa) /\ PlainKept(b, ob)
      /\ SlotsCounted(a, la) /\ SlotsCounted(b, lb)
  BY DEF BindsText
<1>2. Joins(a, b) /\ Joins(la, lb) /\ Joins(oa, ob) /\ Len(la) \in Nat /\ Len(lb) \in Nat /\ Len(a) \in Nat
  BY <1>1, TextsJoin, TextLength
<1>3. /\ SlotsFilled(a, k, la, oa) /\ SlotsFilled(b, k + Len(la), lb, ob)
      /\ LiteralsUsed(a, k, la) /\ LiteralsUsed(b, k + Len(la), lb)
  BY DEF BindsText
<1>4. Slotted(a \o b) /\ PlainKept(a \o b, oa \o ob) /\ Len(oa \o ob) = Len(a \o b)
  BY <1>1, PlainJoins
<1>5. Len(la \o lb) = Len(la) + Len(lb)
  BY <1>2 DEF Joins
<1>6. syntax # "postgres" => Cardinality(Slots(a)) = Len(la)
  BY <1>1 DEF SlotsCounted
<1> DEFINE n == Len(la)
           p == Len(lb)
<1>7. \A i \in Slots(a) : Place(a \o b, k, i) = Place(a, k, i)
  BY <1>1, <1>2, <1>6, PlaceJoins
<1>8. \A j \in Slots(b) : Place(a \o b, k, Len(a) + j) = n + Place(b, k + n, j)
  BY <1>1, <1>2, <1>6, PlaceJoins
<1>9. n \in Nat /\ p \in Nat /\ Len(la \o lb) = n + p
  BY <1>2, <1>5
<1>10. (\A m \in 1..n : (la \o lb)[m] = la[m]) /\ (\A m \in 1..p : (la \o lb)[n + m] = lb[m])
  BY <1>2 DEF Joins
<1>11. (\A i \in Slots(a) : (oa \o ob)[i] = oa[i]) /\ (\A j \in Slots(b) : (oa \o ob)[Len(a) + j] = ob[j])
  <2>1. \A i \in Slots(a) : i \in 1..Len(oa)
    BY <1>1, SlotPlaces
  <2>2. \A i \in Slots(b) : i \in 1..Len(ob)
    BY <1>1, SlotPlaces
  <2>3. \A i \in 1..Len(oa) : (oa \o ob)[i] = oa[i]
    BY <1>2 DEF Joins
  <2>4. \A j \in 1..Len(ob) : (oa \o ob)[Len(oa) + j] = ob[j]
    BY <1>2 DEF Joins
  <2> QED
    BY <1>1, <2>1, <2>2, <2>3, <2>4
<1>12. /\ \A i \in Slots(a \o b) : i \in Slots(a) \/ \E j \in Slots(b) : i = Len(a) + j
       /\ \A i \in Slots(a) : i \in Slots(a \o b)
       /\ \A j \in Slots(b) : Len(a) + j \in Slots(a \o b)
  BY <1>1, PlacesIn DEF SlotsSplit
<1>13. /\ \A i \in Slots(a) : Place(a, k, i) \in 1..n /\ oa[i] = Value(la[Place(a, k, i)])
       /\ \A j \in Slots(b) : Place(b, k + n, j) \in 1..p /\ ob[j] = Value(lb[Place(b, k + n, j)])
       /\ \A m \in 1..n : \E i \in Slots(a) : Place(a, k, i) = m
       /\ \A m \in 1..p : \E j \in Slots(b) : Place(b, k + n, j) = m
  BY <1>3 DEF SlotsFilled, LiteralsUsed
<1> HIDE DEF n, p
<1>14. ASSUME NEW i \in Slots(a \o b)
       PROVE  Place(a \o b, k, i) \in 1..(n + p) /\ (oa \o ob)[i] = Value((la \o lb)[Place(a \o b, k, i)])
  <2>1. CASE i \in Slots(a)
    <3>1. \A m \in 1..n : m \in 1..(n + p)
      BY <1>9
    <3>2. Place(a \o b, k, i) = Place(a, k, i) /\ Place(a, k, i) \in 1..n /\ oa[i] = Value(la[Place(a, k, i)]) /\ (oa \o ob)[i] = oa[i]
      BY <1>7, <1>11, <1>13, <2>1
    <3> QED
      BY <1>10, <3>1, <3>2, Zenon
  <2>2. ASSUME NEW j \in Slots(b), i = Len(a) + j
        PROVE  Place(a \o b, k, i) \in 1..(n + p) /\ (oa \o ob)[i] = Value((la \o lb)[Place(a \o b, k, i)])
    <3>1. \A m \in 1..p : n + m \in 1..(n + p)
      BY <1>9
    <3>2. Place(a \o b, k, i) = n + Place(b, k + n, j)
      BY <1>8, <2>2
    <3>3. Place(b, k + n, j) \in 1..p /\ ob[j] = Value(lb[Place(b, k + n, j)])
      BY <1>13, <2>2
    <3>4. (oa \o ob)[i] = ob[j]
      BY <1>11, <2>2
    <3> QED
      BY <1>10, <3>1, <3>2, <3>3, <3>4, Zenon
  <2> QED
    BY <1>12, <2>1, <2>2
<1>15. ASSUME NEW m \in 1..(n + p)
       PROVE  \E i \in Slots(a \o b) : Place(a \o b, k, i) = m
  <2>1. m \in 1..n \/ (m - n \in 1..p /\ n + (m - n) = m)
    BY <1>9
  <2>2. CASE m \in 1..n
    BY <1>7, <1>12, <1>13, <2>2, Zenon
  <2>3. CASE m - n \in 1..p /\ n + (m - n) = m
    <3>1. PICK j \in Slots(b) : Place(b, k + n, j) = m - n
      BY <1>13, <2>3
    <3>2. Place(a \o b, k, Len(a) + j) = m /\ Len(a) + j \in Slots(a \o b)
      BY <1>8, <1>12, <2>3, <3>1
    <3> QED
      BY <3>2
  <2> QED
    BY <2>1, <2>2, <2>3
<1>16. SlotsFilled(a \o b, k, la \o lb, oa \o ob) /\ LiteralsUsed(a \o b, k, la \o lb)
  BY <1>9, <1>14, <1>15 DEF SlotsFilled, LiteralsUsed
<1>17. SlotsCounted(a \o b, la \o lb)
  <2>1. Cardinality(Slots(a \o b)) = Cardinality(Slots(a)) + Cardinality(Slots(b))
    BY <1>1, RanksJoin
  <2> QED
    BY <1>1, <1>5, <2>1 DEF SlotsCounted
<1> QED
  BY <1>1, <1>2, <1>4, <1>16, <1>17, Zenon DEF BindsText, Joins

LEMMA BindsAgain ==
  ASSUME NEW k \in Nat, NEW ls, NEW a, NEW oa, NEW b, NEW ob,
         syntax = "postgres", BindsText(a, k, ls, oa), BindsText(b, k, ls, ob)
  PROVE  BindsText(a \o b, k, ls, oa \o ob)
<1>1. /\ IsText(a) /\ IsText(ls) /\ IsText(oa) /\ IsText(b) /\ IsText(ob)
      /\ Len(oa) = Len(a) /\ Len(ob) = Len(b) /\ Slotted(a) /\ Slotted(b) /\ PlainKept(a, oa) /\ PlainKept(b, ob)
  BY DEF BindsText
<1>2. Joins(a, b) /\ Joins(oa, ob) /\ IsText(a \o b) /\ IsText(oa \o ob)
  BY <1>1, TextsJoin DEF Joins
<1>3. Slotted(a \o b) /\ PlainKept(a \o b, oa \o ob) /\ Len(oa \o ob) = Len(a \o b)
  BY <1>1, PlainJoins
<1>4. SlotsKept(a, b, a \o b) /\ SlotsSplit(a, b)
  BY <1>1, ValuesIn, PlacesIn
<1>6. (\A i \in Slots(a) : (oa \o ob)[i] = oa[i]) /\ (\A j \in Slots(b) : (oa \o ob)[Len(a) + j] = ob[j])
  <2>1. \A i \in Slots(a) : i \in 1..Len(oa)
    BY <1>1, SlotPlaces
  <2>2. \A i \in Slots(b) : i \in 1..Len(ob)
    BY <1>1, SlotPlaces
  <2>3. \A i \in 1..Len(oa) : (oa \o ob)[i] = oa[i]
    BY <1>2 DEF Joins
  <2>4. \A j \in 1..Len(ob) : (oa \o ob)[Len(oa) + j] = ob[j]
    BY <1>2 DEF Joins
  <2> QED
    BY <1>1, <2>1, <2>2, <2>3, <2>4
<1>7. /\ \A i \in Slots(a) : Place(a \o b, k, i) = Place(a, k, i)
      /\ \A j \in Slots(b) : Place(a \o b, k, Len(a) + j) = Place(b, k, j)
  BY <1>4, Zenon DEF Place, SlotsKept
<1>8. /\ \A i \in Slots(a) : Place(a, k, i) \in 1..Len(ls) /\ oa[i] = Value(ls[Place(a, k, i)])
      /\ \A j \in Slots(b) : Place(b, k, j) \in 1..Len(ls) /\ ob[j] = Value(ls[Place(b, k, j)])
      /\ \A m \in 1..Len(ls) : \E i \in Slots(a) : Place(a, k, i) = m
  BY DEF BindsText, SlotsFilled, LiteralsUsed
<1>9. SlotsFilled(a \o b, k, ls, oa \o ob)
  <2>1. \A i \in Slots(a) : Place(a \o b, k, i) \in 1..Len(ls) /\ (oa \o ob)[i] = Value(ls[Place(a \o b, k, i)])
    BY <1>6, <1>7, <1>8, Zenon
  <2>2. \A j \in Slots(b) : /\ Place(a \o b, k, Len(a) + j) \in 1..Len(ls)
                            /\ (oa \o ob)[Len(a) + j] = Value(ls[Place(a \o b, k, Len(a) + j)])
    BY <1>6, <1>7, <1>8, Zenon
  <2> QED
    BY <1>4, <2>1, <2>2, Zenon DEF SlotsSplit, SlotsFilled
<1>10. LiteralsUsed(a \o b, k, ls)
  BY <1>4, <1>7, <1>8, Zenon DEF SlotsSplit, LiteralsUsed
<1>11. SlotsCounted(a \o b, ls)
  BY DEF SlotsCounted
<1> QED
  BY <1>1, <1>2, <1>3, <1>9, <1>10, <1>11 DEF BindsText

LEMMA BindsNothing ==
  ASSUME NEW ts, IsText(ts), Slots(ts) = {}, NEW k \in Nat
  PROVE  BindsText(ts, k, <<>>, ts)
<1>1. IsText(<<>>) /\ Len(<<>>) = 0
  BY EmptyText
<1>2. Slotted(ts) /\ PlainKept(ts, ts) /\ SlotsFilled(ts, k, <<>>, ts)
  BY DEF Slotted, PlainKept, SlotsFilled
<1>3. LiteralsUsed(ts, k, <<>>)
  BY <1>1 DEF LiteralsUsed
<1>4. SlotsCounted(ts, <<>>)
  BY <1>1, FS_EmptySet DEF SlotsCounted
<1> QED
  BY <1>1, <1>2, <1>3, <1>4 DEF BindsText

Slot(k) == <<"slot", IF syntax = "postgres" THEN k + 1 ELSE 0>>

LEMMA BindsSlot ==
  ASSUME NEW v, NEW k \in Nat
  PROVE  BindsText(<<Slot(k)>>, k, <<v>>, <<Value(v)>>)
<1> DEFINE ts == <<Slot(k)>>
           ls == <<v>>
           out == <<Value(v)>>
<1>1. /\ IsText(ts) /\ Len(ts) = 1 /\ ts[1] = Slot(k) /\ IsText(ls) /\ Len(ls) = 1 /\ ls[1] = v
      /\ IsText(out) /\ Len(out) = 1 /\ out[1] = Value(v)
  BY TokenText
<1>2. DOMAIN ts = {1}
  OBVIOUS
<1>3. Slot(k)[1] = "slot" /\ Slot(k)[2] = IF syntax = "postgres" THEN k + 1 ELSE 0
  BY DEF Slot
<1> HIDE DEF ts, ls, out
<1>4. Slots(ts) = {1}
  BY <1>1, <1>2, <1>3 DEF Slots
<1>5. SlotsTo(ts, 1) = {1}
  BY <1>4 DEF SlotsTo
<1>6. Place(ts, k, 1) = 1
  <2>1. Cardinality({1}) = 1
    BY FS_Singleton
  <2> QED
    BY <1>1, <1>3, <1>5, <2>1 DEF Place
<1>7. Slotted(ts)
  BY <1>1, <1>3, <1>4 DEF Slotted
<1>8. PlainKept(ts, out)
  BY <1>1, <1>3 DEF PlainKept
<1>9. SlotsFilled(ts, k, ls, out) /\ LiteralsUsed(ts, k, ls)
  BY <1>1, <1>4, <1>6 DEF SlotsFilled, LiteralsUsed
<1>10. SlotsCounted(ts, ls)
  BY <1>1, <1>4, FS_Singleton DEF SlotsCounted
<1>11. BindsText(ts, k, ls, out)
  BY <1>1, <1>7, <1>8, <1>9, <1>10 DEF BindsText
<1> QED
  BY <1>11 DEF ts, ls, out

LEMMA BindsBound ==
  ASSUME NEW ts, NEW ls, NEW out, BindsText(ts, 0, ls, out)
  PROVE  Bound(ts, ls) = out
<1>1. /\ IsText(ts) /\ IsText(ls) /\ IsText(out) /\ Len(out) = Len(ts)
      /\ Slotted(ts) /\ PlainKept(ts, out) /\ SlotsFilled(ts, 0, ls, out)
      /\ LiteralsUsed(ts, 0, ls)
  BY DEF BindsText
<1>2. DOMAIN ts = 1..Len(ts) /\ DOMAIN ls = 1..Len(ls) /\ DOMAIN out = 1..Len(ts) /\ Len(ls) \in Nat
  BY <1>1, TextLength
<1>3. ASSUME NEW i \in Slots(ts) PROVE Index(ts, i) = Place(ts, 0, i)
  <2>1. Place(ts, 0, i) \in 1..Len(ls)
    BY <1>1 DEF SlotsFilled
  <2>2. CASE syntax = "postgres"
    <3>1. ts[i][2] \in Int /\ Place(ts, 0, i) = ts[i][2] - 0
      BY <1>1, <2>2 DEF Slotted, Place
    <3>2. ts[i][2] # 0 /\ Place(ts, 0, i) = ts[i][2]
      BY <1>2, <2>1, <3>1
    <3> QED
      BY <3>2 DEF Index
  <2>3. CASE syntax # "postgres"
    <3>1. ts[i][2] = 0 /\ Place(ts, 0, i) = Cardinality(SlotsTo(ts, i))
      BY <1>1, <2>3 DEF Slotted, Place
    <3> QED
      BY <3>1 DEF Index, SlotsTo
  <2> QED
    BY <2>2, <2>3
<1>4. \A i \in Slots(ts) : Index(ts, i) \in DOMAIN ls
  BY <1>1, <1>2, <1>3 DEF SlotsFilled
<1>5. \A m \in DOMAIN ls : \E i \in Slots(ts) : Index(ts, i) = m
  BY <1>1, <1>2, <1>3 DEF LiteralsUsed
<1>6. Bound(ts, ls) = [i \in DOMAIN ts |-> IF i \in Slots(ts) THEN Value(ls[Index(ts, i)]) ELSE ts[i]]
  BY <1>4, <1>5 DEF Bound
<1>7. \A i \in DOMAIN ts : (IF i \in Slots(ts) THEN Value(ls[Index(ts, i)]) ELSE ts[i]) = out[i]
  <2> TAKE i \in DOMAIN ts
  <2>1. CASE i \in Slots(ts)
    BY <1>1, <1>3, <2>1 DEF SlotsFilled
  <2>2. CASE i \notin Slots(ts)
    BY <1>1, <1>2, <2>2 DEF Slots, PlainKept
  <2> QED
    BY <2>1, <2>2
<1>8. out = [i \in DOMAIN ts |-> out[i]]
  <2>1. PICK C : out \in Seq(C)
    BY <1>1 DEF IsText
  <2>2. out = [i \in DOMAIN out |-> out[i]]
    BY <2>1
  <2> QED
    BY <1>2, <2>2
<1> DEFINE x(i) == IF i \in Slots(ts) THEN Value(ls[Index(ts, i)]) ELSE ts[i]
<1>9. \A i \in DOMAIN ts : x(i) = out[i]
  BY <1>7
<1>10. Bound(ts, ls) = [i \in DOMAIN ts |-> x(i)]
  BY <1>6
<1> HIDE DEF x
<1> QED
  BY <1>8, <1>9, <1>10

(* A text that binds its literals to a text with as many brackets open. *)
Good(ts, k, ls, out, e) == BindsText(ts, k, ls, out) /\ Excess(ts) = e /\ Excess(out) = e

LEMMA GoodTexts ==
  ASSUME NEW ts, NEW k, NEW ls, NEW out, NEW e, Good(ts, k, ls, out, e)
  PROVE  IsText(ts) /\ IsText(ls) /\ IsText(out)
BY DEF Good, BindsText

LEMMA GoodJoins ==
  ASSUME NEW k \in Nat, NEW a, NEW la, NEW oa, NEW e, NEW b, NEW lb, NEW ob, NEW f,
         Good(a, k, la, oa, e), Good(b, k + Len(la), lb, ob, f)
  PROVE  Good(a \o b, k, la \o lb, oa \o ob, e + f)
<1>1. BindsText(a \o b, k, la \o lb, oa \o ob)
  BY BindsJoins DEF Good
<1>2. IsText(a) /\ IsText(b) /\ IsText(oa) /\ IsText(ob)
  BY DEF Good, BindsText
<1>3. Excess(a \o b) = Excess(a) + Excess(b)
  BY <1>2, ExcessJoins
<1>4. Excess(oa \o ob) = Excess(oa) + Excess(ob)
  BY <1>2, ExcessJoins
<1> QED
  BY <1>1, <1>3, <1>4 DEF Good

LEMMA GoodAgain ==
  ASSUME NEW k \in Nat, NEW ls, NEW a, NEW oa, NEW e, NEW b, NEW ob, NEW f,
         syntax = "postgres" \/ ls = <<>>, Good(a, k, ls, oa, e), Good(b, k, ls, ob, f)
  PROVE  Good(a \o b, k, ls, oa \o ob, e + f)
<1>1. CASE syntax = "postgres"
  <2>1. BindsText(a \o b, k, ls, oa \o ob)
    BY <1>1, BindsAgain DEF Good
  <2>2. IsText(a) /\ IsText(b) /\ IsText(oa) /\ IsText(ob)
    BY DEF Good, BindsText
  <2>3. Excess(a \o b) = Excess(a) + Excess(b)
    BY <2>2, ExcessJoins
  <2>4. Excess(oa \o ob) = Excess(oa) + Excess(ob)
    BY <2>2, ExcessJoins
  <2> QED
    BY <2>1, <2>3, <2>4 DEF Good
<1>2. CASE ls = <<>>
  <2>1. k + Len(ls) = k /\ ls \o ls = ls
    BY <1>2, EmptyText
  <2>2. Good(b, k + Len(ls), ls, ob, f)
    BY <2>1
  <2>3. Good(a \o b, k, ls \o ls, oa \o ob, e + f)
    BY <2>2, GoodJoins
  <2> QED
    BY <2>1, <2>3
<1> QED
  BY <1>1, <1>2

(* Tokens before and after. *)
Plain(w, e) == \A k \in Nat : Good(w, k, <<>>, w, e)

LEMMA PlainTokens ==
  /\ \A t : Neutral(t) => Plain(<<t>>, 0)
  /\ Plain(<<OpenBracket>>, 1) /\ Plain(<<CloseBracket>>, -1) /\ Plain(<<>>, 0)
<1>1. ASSUME NEW t, t[1] # "slot" PROVE Plain(<<t>>, Excess(<<t>>))
  <2>1. IsText(<<t>>) /\ DOMAIN <<t>> = {1} /\ <<t>>[1] = t
    BY TokenText
  <2>2. Slots(<<t>>) = {}
    BY <1>1, <2>1 DEF Slots
  <2> QED
    BY <2>1, <2>2, BindsNothing DEF Plain, Good
<1>2. OpenBracket[1] # "slot" /\ CloseBracket[1] # "slot"
  BY DEF OpenBracket, CloseBracket
<1>3. Plain(<<>>, 0)
  <2>1. Slots(<<>>) = {}
    BY DEF Slots
  <2> QED
    BY <2>1, EmptyText, BindsNothing, TokenExcess DEF Plain, Good
<1>4. \A t : Neutral(t) => Plain(<<t>>, 0)
  BY <1>1, TokenExcess DEF Neutral
<1> QED
  BY <1>1, <1>2, <1>3, <1>4, TokenExcess

LEMMA GoodAfter ==
  ASSUME NEW k \in Nat, NEW w, NEW x, Plain(w, x), NEW b, NEW ls, NEW ob, NEW e, Good(b, k, ls, ob, e)
  PROVE  Good(w \o b, k, ls, w \o ob, x + e)
<1>1. Good(w, k, <<>>, w, x)
  BY DEF Plain
<1>2. k + Len(<<>>) = k /\ <<>> \o ls = ls
  BY EmptyText, GoodTexts
<1>3. Good(b, k + Len(<<>>), ls, ob, e)
  BY <1>2
<1>4. Good(w \o b, k, <<>> \o ls, w \o ob, x + e)
  BY <1>1, <1>3, GoodJoins
<1> QED
  BY <1>2, <1>4

LEMMA GoodBefore ==
  ASSUME NEW k \in Nat, NEW w, NEW x, Plain(w, x), NEW a, NEW ls, NEW oa, NEW e, Good(a, k, ls, oa, e)
  PROVE  Good(a \o w, k, ls, oa \o w, e + x)
<1>1. IsText(ls) /\ ls \o <<>> = ls /\ Len(ls) \in Nat
  BY EmptyText, GoodTexts, TextLength
<1>2. Good(w, k + Len(ls), <<>>, w, x)
  BY <1>1 DEF Plain
<1>3. Good(a \o w, k, ls \o <<>>, oa \o w, e + x)
  BY <1>2, GoodJoins
<1> QED
  BY <1>1, <1>3

LEMMA PlainJoin ==
  ASSUME NEW v, NEW x, Plain(v, x), NEW w, NEW y, Plain(w, y)
  PROVE  Plain(v \o w, x + y)
<1> SUFFICES ASSUME NEW k \in Nat PROVE Good(v \o w, k, <<>>, v \o w, x + y)
  BY DEF Plain
<1>1. Good(w, k, <<>>, w, y)
  BY DEF Plain
<1> QED
  BY <1>1, GoodAfter

-----------------------------------------------------------------------------
(* The text of each kind of node binds as the texts below it do. *)

LEMMA PairText == \A x, y : <<x, y>> = <<x>> \o <<y>>
<1> SUFFICES ASSUME NEW x, NEW y PROVE <<x, y>> = <<x>> \o <<y>>
  OBVIOUS
<1> DEFINE S == {x, y}
           c == <<x>> \o <<y>>
<1> DEFINE d == <<x, y>>
<1>1. d \in Seq(S) /\ Len(d) = 2 /\ d[1] = x /\ d[2] = y
  OBVIOUS
<1>2. <<x>> \in Seq(S) /\ <<y>> \in Seq(S) /\ Len(<<x>>) = 1 /\ Len(<<y>>) = 1 /\ <<x>>[1] = x /\ <<y>>[1] = y
  OBVIOUS
<1>3. c \in Seq(S) /\ Len(c) = 2 /\ c[1] = x /\ c[2] = y
  <2>1. \A u, v \in Seq(S) : /\ u \o v \in Seq(S) /\ Len(u \o v) = Len(u) + Len(v)
                             /\ \A i \in 1..Len(u) : (u \o v)[i] = u[i]
                             /\ \A j \in 1..Len(v) : (u \o v)[Len(u) + j] = v[j]
    OBVIOUS
  <2>2. c \in Seq(S) /\ Len(c) = 1 + 1 /\ c[1] = x /\ c[1 + 1] = y
    BY <1>2, <2>1
  <2> QED
    BY <2>2
<1> HIDE DEF c, d, S
<1>4. \A u, v \in Seq(S) : Len(u) = 2 /\ Len(v) = 2 /\ u[1] = v[1] /\ u[2] = v[2] => u = v
  <2> TAKE u, v \in Seq(S)
  <2> HAVE Len(u) = 2 /\ Len(v) = 2 /\ u[1] = v[1] /\ u[2] = v[2]
  <2>1. \A i \in 1..2 : i = 1 \/ i = 2
    OBVIOUS
  <2>2. u = [i \in 1..2 |-> u[i]] /\ v = [i \in 1..2 |-> v[i]]
    OBVIOUS
  <2>3. \A i \in 1..2 : u[i] = v[i]
    BY <2>1
  <2> QED
    BY <2>2, <2>3
<1>5. d = c
  BY <1>1, <1>3, <1>4
<1> QED
  BY <1>5, Zenon DEF c, d

LEMMA TripleText == \A x, y, z : <<x, y, z>> = <<x, y>> \o <<z>>
<1> SUFFICES ASSUME NEW x, NEW y, NEW z PROVE <<x, y, z>> = <<x, y>> \o <<z>>
  OBVIOUS
<1> DEFINE S == {x, y, z}
           c == <<x, y>> \o <<z>>
<1> DEFINE d == <<x, y, z>>
<1>1. d \in Seq(S) /\ Len(d) = 3 /\ d[1] = x /\ d[2] = y /\ d[3] = z
  OBVIOUS
<1>2. <<x, y>> \in Seq(S) /\ <<z>> \in Seq(S) /\ Len(<<x, y>>) = 2 /\ Len(<<z>>) = 1 /\ <<x, y>>[1] = x /\ <<x, y>>[2] = y /\ <<z>>[1] = z
  OBVIOUS
<1>3. c \in Seq(S) /\ Len(c) = 3 /\ c[1] = x /\ c[2] = y /\ c[3] = z
  <2>1. \A u, v \in Seq(S) : /\ u \o v \in Seq(S) /\ Len(u \o v) = Len(u) + Len(v)
                             /\ \A i \in 1..Len(u) : (u \o v)[i] = u[i]
                             /\ \A j \in 1..Len(v) : (u \o v)[Len(u) + j] = v[j]
    OBVIOUS
  <2>2. c \in Seq(S) /\ Len(c) = 2 + 1 /\ c[1] = x /\ c[2] = y /\ c[2 + 1] = z
    BY <1>2, <2>1
  <2> QED
    BY <2>2
<1> HIDE DEF c, d, S
<1>4. \A u, v \in Seq(S) : Len(u) = 3 /\ Len(v) = 3 /\ u[1] = v[1] /\ u[2] = v[2] /\ u[3] = v[3] => u = v
  <2> TAKE u, v \in Seq(S)
  <2> HAVE Len(u) = 3 /\ Len(v) = 3 /\ u[1] = v[1] /\ u[2] = v[2] /\ u[3] = v[3]
  <2>1. \A i \in 1..3 : i = 1 \/ i = 2 \/ i = 3
    OBVIOUS
  <2>2. u = [i \in 1..3 |-> u[i]] /\ v = [i \in 1..3 |-> v[i]]
    OBVIOUS
  <2>3. \A i \in 1..3 : u[i] = v[i]
    BY <2>1
  <2> QED
    BY <2>2, <2>3
<1>5. d = c
  BY <1>1, <1>3, <1>4
<1> QED
  BY <1>5, Zenon DEF c, d

LEMMA NeutralTokens ==
  /\ \A x : Neutral(Op(x)) /\ Neutral(Sign(x)) /\ Neutral(Word(x)) /\ Neutral(Value(x))
  /\ \A x : Neutral(<<"column", x>>) /\ Neutral(<<"cast", x>>) /\ Neutral(<<"postfix", x>>)
  /\ Neutral(Comma)
BY DEF Neutral, Op, Sign, Word, Value, Comma, OpenBracket, CloseBracket

GoodText(ts, k, ls, out) == Good(ts, k, ls, out, 0)

LEMMA GoodPrefixed ==
  ASSUME NEW k \in Nat, NEW t, Neutral(t), NEW b, NEW ls, NEW ob, GoodText(b, k, ls, ob)
  PROVE  GoodText(<<t>> \o b, k, ls, <<t>> \o ob)
<1>1. Plain(<<t>>, 0)
  BY PlainTokens
<1>2. Good(<<t>> \o b, k, ls, <<t>> \o ob, 0 + 0)
  BY <1>1, GoodAfter DEF GoodText
<1>3. 0 + 0 = 0
  OBVIOUS
<1> QED
  BY <1>2, <1>3, Zenon DEF GoodText

LEMMA GoodSuffixed ==
  ASSUME NEW k \in Nat, NEW t, Neutral(t), NEW a, NEW ls, NEW oa, GoodText(a, k, ls, oa)
  PROVE  GoodText(a \o <<t>>, k, ls, oa \o <<t>>)
<1>1. Plain(<<t>>, 0)
  BY PlainTokens
<1>2. Good(a \o <<t>>, k, ls, oa \o <<t>>, 0 + 0)
  BY <1>1, GoodBefore DEF GoodText
<1>3. 0 + 0 = 0
  OBVIOUS
<1> QED
  BY <1>2, <1>3, Zenon DEF GoodText

LEMMA GoodBracketed ==
  ASSUME NEW k \in Nat, NEW w, Plain(w, 1), NEW b, NEW ls, NEW ob, GoodText(b, k, ls, ob)
  PROVE  GoodText(w \o b \o <<CloseBracket>>, k, ls, w \o ob \o <<CloseBracket>>)
<1>1. Good(w \o b, k, ls, w \o ob, 1 + 0)
  BY GoodAfter DEF GoodText
<1>2. Plain(<<CloseBracket>>, -1)
  BY PlainTokens
<1>3. Good(w \o b \o <<CloseBracket>>, k, ls, w \o ob \o <<CloseBracket>>, (1 + 0) + (-1))
  BY <1>1, <1>2, GoodBefore
<1>4. (1 + 0) + (-1) = 0
  OBVIOUS
<1> QED
  BY <1>3, <1>4, Zenon DEF GoodText

LEMMA GoodBraces ==
  ASSUME NEW k \in Nat, NEW b, NEW ls, NEW ob, GoodText(b, k, ls, ob)
  PROVE  GoodText(Braces(b), k, ls, Braces(ob))
BY PlainTokens, GoodBracketed DEF Braces

LEMMA GoodBraced ==
  ASSUME NEW k \in Nat, NEW b, NEW ls, NEW ob, GoodText(b, k, ls, ob), NEW required
  PROVE  GoodText(Braced(b, required), k, ls, Braced(ob, required))
<1>1. CASE required
  <2>1. Braced(b, required) = Braces(b) /\ Braced(ob, required) = Braces(ob)
    BY <1>1 DEF Braced
  <2> QED
    BY <2>1, GoodBraces
<1>2. CASE ~required
  <2>1. Braced(b, required) = b /\ Braced(ob, required) = ob
    BY <1>2 DEF Braced
  <2> QED
    BY <2>1
<1> QED
  BY <1>1, <1>2

LEMMA GoodBoth ==
  ASSUME NEW k \in Nat, NEW a, NEW la, NEW oa, GoodText(a, k, la, oa),
         NEW b, NEW lb, NEW ob, GoodText(b, k + Len(la), lb, ob)
  PROVE  GoodText(a \o b, k, la \o lb, oa \o ob)
<1>1. Good(a \o b, k, la \o lb, oa \o ob, 0 + 0)
  BY GoodJoins DEF GoodText
<1>2. 0 + 0 = 0
  OBVIOUS
<1> QED
  BY <1>1, <1>2, Zenon DEF GoodText

LEMMA GoodBetween ==
  ASSUME NEW k \in Nat, NEW t, Neutral(t), NEW a, NEW la, NEW oa, GoodText(a, k, la, oa),
         NEW b, NEW lb, NEW ob, GoodText(b, k + Len(la), lb, ob)
  PROVE  GoodText(a \o <<t>> \o b, k, la \o lb, oa \o <<t>> \o ob)
<1>1. GoodText(a \o <<t>>, k, la, oa \o <<t>>)
  BY GoodSuffixed
<1> QED
  BY <1>1, GoodBoth

LEMMA GoodTwice ==
  ASSUME NEW k \in Nat, NEW t, Neutral(t), NEW ls, syntax = "postgres" \/ ls = <<>>,
         NEW a, NEW oa, GoodText(a, k, ls, oa), NEW b, NEW ob, GoodText(b, k, ls, ob)
  PROVE  GoodText(a \o <<t>> \o b, k, ls, oa \o <<t>> \o ob)
<1>1. GoodText(a \o <<t>>, k, ls, oa \o <<t>>)
  BY GoodSuffixed
<1>2. Good(a \o <<t>> \o b, k, ls, oa \o <<t>> \o ob, 0 + 0)
  BY <1>1, GoodAgain DEF GoodText
<1>3. 0 + 0 = 0
  OBVIOUS
<1> QED
  BY <1>2, <1>3, Zenon DEF GoodText

LEMMA GoodExclusiveOr ==
  ASSUME NEW k \in Nat, NEW l, NEW ll, NEW ol, GoodText(l, k, ll, ol),
         NEW r, NEW lr, NEW or, GoodText(r, k + Len(ll), lr, or), syntax = "postgres" \/ ll \o lr = <<>>
  PROVE  GoodText(Braces(l \o <<Op("&"), Sign("~")>> \o r) \o <<Op("|")>>
                    \o Braces(<<Sign("~")>> \o l \o <<Op("&")>> \o r), k, ll \o lr,
                  Braces(ol \o <<Op("&"), Sign("~")>> \o or) \o <<Op("|")>>
                    \o Braces(<<Sign("~")>> \o ol \o <<Op("&")>> \o or))
<1>1. Neutral(Op("&")) /\ Neutral(Sign("~")) /\ Neutral(Op("|"))
  BY NeutralTokens
<1>2. Plain(<<Op("&"), Sign("~")>>, 0)
  <2>1. <<Op("&"), Sign("~")>> = <<Op("&")>> \o <<Sign("~")>>
    BY PairText
  <2>2. Plain(<<Op("&")>> \o <<Sign("~")>>, 0 + 0)
    BY <1>1, PlainTokens, PlainJoin
  <2>3. 0 + 0 = 0
    OBVIOUS
  <2> QED
    BY <2>1, <2>2, <2>3, Zenon
<1>3. GoodText(l \o <<Op("&"), Sign("~")>>, k, ll, ol \o <<Op("&"), Sign("~")>>)
  <2>1. Good(l \o <<Op("&"), Sign("~")>>, k, ll, ol \o <<Op("&"), Sign("~")>>, 0 + 0)
    BY <1>2, GoodBefore DEF GoodText
  <2>2. 0 + 0 = 0
    OBVIOUS
  <2> QED
    BY <2>1, <2>2, Zenon DEF GoodText
<1>4. GoodText(l \o <<Op("&"), Sign("~")>> \o r, k, ll \o lr, ol \o <<Op("&"), Sign("~")>> \o or)
  BY <1>3, GoodBoth
<1>5. GoodText(<<Sign("~")>> \o l \o <<Op("&")>> \o r, k, ll \o lr, <<Sign("~")>> \o ol \o <<Op("&")>> \o or)
  <2>1. GoodText(<<Sign("~")>> \o l, k, ll, <<Sign("~")>> \o ol)
    BY <1>1, GoodPrefixed
  <2> QED
    BY <1>1, <2>1, GoodBetween
<1> QED
  BY <1>1, <1>4, <1>5, GoodBraces, GoodTwice

LEMMA GoodBinary ==
  ASSUME NEW k \in Nat, NEW n, NEW l, NEW ll, NEW ol, GoodText(l, k, ll, ol),
         NEW r, NEW lr, NEW or, GoodText(r, k + Len(ll), lr, or),
         n.op # "^" \/ syntax = "postgres" \/ ll \o lr = <<>>
  PROVE  GoodText(BinaryText(n, l, r), k, ll \o lr, BinaryText(n, ol, or))
<1>1. \A x : GoodText(l \o <<Op(x)>> \o r, k, ll \o lr, ol \o <<Op(x)>> \o or)
  BY NeutralTokens, GoodBetween
<1>2. CASE n.op = "||" /\ syntax = "mysql"
  <2> DEFINE call == <<Word("CONCAT"), OpenBracket>>
  <2>1. Plain(call, 1)
    <3>1. <<Word("CONCAT"), OpenBracket>> = <<Word("CONCAT")>> \o <<OpenBracket>>
      BY PairText
    <3>2. Plain(<<Word("CONCAT")>> \o <<OpenBracket>>, 0 + 1)
      BY NeutralTokens, PlainTokens, PlainJoin
    <3>3. 0 + 1 = 1
      OBVIOUS
    <3> QED
      BY <3>1, <3>2, <3>3, Zenon
  <2> HIDE DEF call
  <2>2. Neutral(Comma)
    BY NeutralTokens
  <2>3. Good(call \o l, k, ll, call \o ol, 1 + 0)
    BY <2>1, GoodAfter DEF GoodText
  <2>4. Good(call \o l \o <<Comma>>, k, ll, call \o ol \o <<Comma>>, (1 + 0) + 0)
    BY <2>2, <2>3, PlainTokens, GoodBefore
  <2>5. Good(call \o l \o <<Comma>> \o r, k, ll \o lr, call \o ol \o <<Comma>> \o or, ((1 + 0) + 0) + 0)
    BY <2>4, GoodJoins DEF GoodText
  <2>6. Plain(<<CloseBracket>>, -1)
    BY PlainTokens
  <2>7. Good(call \o l \o <<Comma>> \o r \o <<CloseBracket>>, k, ll \o lr, call \o ol \o <<Comma>> \o or \o <<CloseBracket>>,
             (((1 + 0) + 0) + 0) + (-1))
    BY <2>5, <2>6, GoodBefore
  <2>8. (((1 + 0) + 0) + 0) + (-1) = 0
    OBVIOUS
  <2>9. GoodText(call \o l \o <<Comma>> \o r \o <<CloseBracket>>, k, ll \o lr, call \o ol \o <<Comma>> \o or \o <<CloseBracket>>)
    BY <2>7, <2>8, Zenon DEF GoodText
  <2>10. /\ BinaryText(n, l, r) = <<Word("CONCAT"), OpenBracket>> \o l \o <<Comma>> \o r \o <<CloseBracket>>
         /\ BinaryText(n, ol, or) = <<Word("CONCAT"), OpenBracket>> \o ol \o <<Comma>> \o or \o <<CloseBracket>>
    BY <1>2 DEF BinaryText
  <2> QED
    BY <2>9, <2>10 DEF call
<1>3. CASE n.op = "/" /\ syntax = "mysql"
  <2>1. \E x : /\ BinaryText(n, l, r) = l \o <<Op(x)>> \o r
               /\ BinaryText(n, ol, or) = ol \o <<Op(x)>> \o or
    <3>1. CASE n.args[1].type \in IntegralTypes /\ n.args[2].type \in IntegralTypes
      BY <1>3, <3>1 DEF BinaryText
    <3>2. CASE ~(n.args[1].type \in IntegralTypes /\ n.args[2].type \in IntegralTypes)
      BY <1>3, <3>2 DEF BinaryText
    <3> QED
      BY <3>1, <3>2
  <2> QED
    BY <1>1, <2>1
<1>4. CASE n.op = "^"
  <2>1. /\ BinaryText(n, l, r) = Braces(l \o <<Op("&"), Sign("~")>> \o r) \o <<Op("|")>>
                                   \o Braces(<<Sign("~")>> \o l \o <<Op("&")>> \o r)
        /\ BinaryText(n, ol, or) = Braces(ol \o <<Op("&"), Sign("~")>> \o or) \o <<Op("|")>>
                                   \o Braces(<<Sign("~")>> \o ol \o <<Op("&")>> \o or)
    BY <1>4 DEF BinaryText
  <2>2. syntax = "postgres" \/ ll \o lr = <<>>
    BY <1>4
  <2> QED
    BY <2>1, <2>2, GoodExclusiveOr
<1>5. CASE /\ ~(n.op = "||" /\ syntax = "mysql") /\ ~(n.op = "/" /\ syntax = "mysql") /\ n.op # "^"
  <2>1. /\ BinaryText(n, l, r) = l \o <<Op(n.op)>> \o r
        /\ BinaryText(n, ol, or) = ol \o <<Op(n.op)>> \o or
    BY <1>5 DEF BinaryText
  <2> QED
    BY <1>1, <2>1
<1> QED
  BY <1>2, <1>3, <1>4, <1>5

OverOne(n) ==
  \/ n.kind = "unary" /\ n.op \in {"plus", "-", "~"}
  \/ n.kind \in {"cast", "call", "not"}
OverTwo(n) == n.kind \in {"call", "binary", "relational", "conditional"}

LEMMA NodeKinds ==
  ASSUME NEW S, NEW n \in NodesOver(S)
  PROVE  \/ DOMAIN n.args = 1..1 /\ OverOne(n)
         \/ DOMAIN n.args = 1..2 /\ OverTwo(n)
<1> DEFINE one == [1..1 -> S]
           two == [1..2 -> S]
           both == S \X NullNodes
<1>1. (\A a \in one : DOMAIN a = 1..1) /\ (\A a \in two : DOMAIN a = 1..2)
  OBVIOUS
<1>2. \A a \in both : DOMAIN a = 1..2
  <2> SUFFICES ASSUME NEW a \in both PROVE DOMAIN a = 1..2
    OBVIOUS
  <2>1. PICK x \in S, y \in NullNodes : a = <<x, y>>
    OBVIOUS
  <2> HIDE DEF both
  <2>2. DOMAIN <<x, y>> = 1..2
    OBVIOUS
  <2> QED
    BY <2>1, <2>2
<1>3. n \in     [kind : {"unary"}, op : {"plus", "-", "~"}, type : Types, args : one]
     \cup [kind : {"cast"}, op : {""}, type : Types, args : one]
     \cup [kind : {"call"}, op : {"upper", "length", "abs", "coalesce"}, type : Types, args : one \cup two]
     \cup [kind : {"binary"}, op : Operators \cup {"||"}, type : Types, args : two]
     \cup [kind : {"relational"}, op : Relations \cup {"=", "LIKE"}, type : {"void"}, args : two]
     \cup [kind : {"relational"}, op : {"IS NULL", "IS NOT NULL"}, type : {"void"}, args : both]
     \cup [kind : {"not"}, op : {""}, type : {"void"}, args : one]
     \cup [kind : {"conditional"}, op : {"AND", "OR"}, type : {"void"}, args : two]
  BY DEF NodesOver
<1> HIDE DEF one, two, both
<1>4. \/ n.kind = "unary" /\ n.op \in {"plus", "-", "~"} /\ n.args \in one
      \/ n.kind \in {"cast", "call", "not"} /\ n.args \in one
      \/ n.kind \in {"call", "binary", "relational", "conditional"} /\ n.args \in two \cup both
  BY <1>3
<1> QED
  BY <1>1, <1>2, <1>4 DEF OverOne, OverTwo

LEMMA GoodCast ==
  ASSUME NEW k \in Nat, NEW b, NEW ls, NEW ob, GoodText(b, k, ls, ob), NEW name
  PROVE  GoodText(CastText(name, b), k, ls, CastText(name, ob))
<1>1. GoodText(Braces(b), k, ls, Braces(ob))
  BY GoodBraces
<1>2. Neutral(<<"cast", name>>)
  BY NeutralTokens
<1>3. GoodText(<<<<"cast", name>>>> \o Braces(b), k, ls, <<<<"cast", name>>>> \o Braces(ob))
  BY <1>1, <1>2, GoodPrefixed
<1> QED
  BY <1>3 DEF CastText

LEMMA GoodNegation ==
  ASSUME NEW k \in Nat, NEW n, NEW b, NEW ls, NEW ob, GoodText(b, k, ls, ob)
  PROVE  GoodText(NegationText(n, b), k, ls, NegationText(n, ob))
<1>1. GoodText(<<Sign("~")>> \o b, k, ls, <<Sign("~")>> \o ob)
  BY NeutralTokens, GoodPrefixed
<1>2. CASE syntax = "mysql" /\ n.args[1].type \in {"int", "uint"}
  <2>1. /\ NegationText(n, b) = CastText("INTEGER", <<Sign("~")>> \o b)
        /\ NegationText(n, ob) = CastText("INTEGER", <<Sign("~")>> \o ob)
    BY <1>2 DEF NegationText
  <2> QED
    BY <1>1, <2>1, GoodCast
<1>3. CASE ~(syntax = "mysql" /\ n.args[1].type \in {"int", "uint"})
  <2>1. NegationText(n, b) = <<Sign("~")>> \o b /\ NegationText(n, ob) = <<Sign("~")>> \o ob
    BY <1>3 DEF NegationText
  <2> QED
    BY <1>1, <2>1
<1> QED
  BY <1>2, <1>3

LEMMA GoodOne ==
  ASSUME NEW n, OverOne(n), NEW k \in Nat, NEW subs, NEW outs, NEW ls,
         Len(subs) = 1, Len(outs) = 1, GoodText(subs[1], k, ls, outs[1])
  PROVE  GoodText(NodeText(n, k, subs), k, ls, NodeText(n, 0, outs))
<1> DEFINE s == subs[1]
           o == outs[1]
           leaf == ~IsLeaf(n.args[1])
           complex == Complex(n.args[1])
<1>1. GoodText(Braced(s, leaf), k, ls, Braced(o, leaf)) /\ GoodText(Braced(s, complex), k, ls, Braced(o, complex))
  BY GoodBraced
<1>2. CASE n.kind = "unary" /\ n.op = "plus"
  <2>1. NodeText(n, k, subs) = s /\ NodeText(n, 0, outs) = o
    BY <1>2 DEF NodeText
  <2> QED
    BY <2>1
<1>3. CASE n.kind = "unary" /\ n.op = "-"
  <2>1. /\ NodeText(n, k, subs) = <<Sign("-")>> \o Braced(s, leaf)
        /\ NodeText(n, 0, outs) = <<Sign("-")>> \o Braced(o, leaf)
    BY <1>3 DEF NodeText
  <2> QED
    BY <1>1, <2>1, NeutralTokens, GoodPrefixed
<1>4. CASE n.kind = "unary" /\ n.op = "~"
  <2>1. /\ NodeText(n, k, subs) = NegationText(n, Braced(s, leaf))
        /\ NodeText(n, 0, outs) = NegationText(n, Braced(o, leaf))
    BY <1>4 DEF NodeText
  <2> QED
    BY <1>1, <2>1, GoodNegation
<1>5. CASE n.kind = "cast"
  <2>1. NodeText(n, k, subs) = CastText(CastName(n.type), s) /\ NodeText(n, 0, outs) = CastText(CastName(n.type), o)
    BY <1>5 DEF NodeText
  <2> QED
    BY <2>1, GoodCast
<1>6. CASE n.kind = "call"
  <2>1. /\ NodeText(n, k, subs) = <<Word(n.op)>> \o Braces(s)
        /\ NodeText(n, 0, outs) = <<Word(n.op)>> \o Braces(o)
    BY <1>6 DEF NodeText
  <2>2. GoodText(Braces(s), k, ls, Braces(o))
    BY GoodBraces
  <2> QED
    BY <2>1, <2>2, NeutralTokens, GoodPrefixed
<1>7. CASE n.kind = "not"
  <2>1. /\ NodeText(n, k, subs) = <<Sign("NOT")>> \o Braced(s, complex)
        /\ NodeText(n, 0, outs) = <<Sign("NOT")>> \o Braced(o, complex)
    BY <1>7 DEF NodeText
  <2> QED
    BY <1>1, <2>1, NeutralTokens, GoodPrefixed
<1> QED
  BY <1>2, <1>3, <1>4, <1>5, <1>6, <1>7 DEF OverOne

LEMMA GoodRelational ==
  ASSUME NEW k \in Nat, NEW n, NEW l, NEW ll, NEW ol, GoodText(l, k, ll, ol),
         NEW r, NEW lr, NEW or, GoodText(r, k + Len(ll), lr, or),
         n.op \in {"IS NULL", "IS NOT NULL"} => lr = <<>>
  PROVE  GoodText(RelationalText(n, l, r), k, ll \o lr, RelationalText(n, ol, or))
<1>1. CASE n.op \in {"IS NULL", "IS NOT NULL"}
  <2>1. /\ RelationalText(n, l, r) = l \o <<<<"postfix", n.op>>>>
        /\ RelationalText(n, ol, or) = ol \o <<<<"postfix", n.op>>>>
    BY <1>1 DEF RelationalText
  <2>2. ll \o lr = ll
    <3>1. lr = <<>> /\ IsText(ll)
      BY <1>1, GoodTexts DEF GoodText
    <3> QED
      BY <3>1, EmptyText
  <2>3. GoodText(l \o <<<<"postfix", n.op>>>>, k, ll, ol \o <<<<"postfix", n.op>>>>)
    BY NeutralTokens, GoodSuffixed
  <2> QED
    BY <2>1, <2>2, <2>3
<1>2. CASE n.op \notin {"IS NULL", "IS NOT NULL"}
  <2>1. RelationalText(n, l, r) = l \o <<Op(n.op)>> \o r /\ RelationalText(n, ol, or) = ol \o <<Op(n.op)>> \o or
    BY <1>2 DEF RelationalText
  <2> QED
    BY <2>1, NeutralTokens, GoodBetween
<1> QED
  BY <1>1, <1>2

LEMMA SumsAreNat == \A x, y \in Nat : x + y \in Nat
OBVIOUS

LEMMA GoodTwo ==
  ASSUME NEW n, OverTwo(n), NEW k \in Nat, NEW subs, NEW outs, NEW ll, NEW lr,
         Len(subs) = 2, Len(outs) = 2, GoodText(subs[1], k, ll, outs[1]),
         GoodText(subs[2], k + Len(ll), lr, outs[2]),
         n.kind = "binary" => n.op # "^" \/ syntax = "postgres" \/ ll \o lr = <<>>,
         n.kind = "relational" /\ n.op \in {"IS NULL", "IS NOT NULL"} => lr = <<>>
  PROVE  GoodText(NodeText(n, k, subs), k, ll \o lr, NodeText(n, 0, outs))
<1> DEFINE leaf(i) == ~IsLeaf(n.args[i])
           complex(i) == Complex(n.args[i])
           m == k + Len(ll)
<1>1. IsText(ll)
  BY GoodTexts DEF GoodText
<1>2. m \in Nat
  <2>1. Len(ll) \in Nat
    BY <1>1, TextLength
  <2> QED
    BY <2>1, SumsAreNat, Zenon
<1> HIDE DEF m
<1>3. GoodText(subs[2], m, lr, outs[2])
  BY DEF m
<1>4. /\ GoodText(Braced(subs[1], leaf(1)), k, ll, Braced(outs[1], leaf(1)))
      /\ GoodText(Braced(subs[1], complex(1)), k, ll, Braced(outs[1], complex(1)))
  BY GoodBraced
<1>5. /\ GoodText(Braced(subs[2], leaf(2)), k + Len(ll), lr, Braced(outs[2], leaf(2)))
      /\ GoodText(Braced(subs[2], complex(2)), k + Len(ll), lr, Braced(outs[2], complex(2)))
  <2>1. /\ GoodText(Braced(subs[2], leaf(2)), m, lr, Braced(outs[2], leaf(2)))
        /\ GoodText(Braced(subs[2], complex(2)), m, lr, Braced(outs[2], complex(2)))
    BY <1>2, <1>3, GoodBraced
  <2> QED
    BY <2>1 DEF m
<1>6. CASE n.kind = "binary"
  <2>1. /\ NodeText(n, k, subs) = BinaryText(n, Braced(subs[1], leaf(1)), Braced(subs[2], leaf(2)))
        /\ NodeText(n, 0, outs) = BinaryText(n, Braced(outs[1], leaf(1)), Braced(outs[2], leaf(2)))
    BY <1>6 DEF NodeText
  <2>2. n.op # "^" \/ syntax = "postgres" \/ ll \o lr = <<>>
    BY <1>6
  <2> HIDE DEF leaf
  <2> QED
    BY <1>4, <1>5, <2>1, <2>2, GoodBinary
<1>7. CASE n.kind = "call"
  <2>1. /\ NodeText(n, k, subs) = <<Word(n.op)>> \o Braces(subs[1] \o <<Comma>> \o subs[2])
        /\ NodeText(n, 0, outs) = <<Word(n.op)>> \o Braces(outs[1] \o <<Comma>> \o outs[2])
    BY <1>7 DEF NodeText
  <2>2. GoodText(subs[1] \o <<Comma>> \o subs[2], k, ll \o lr, outs[1] \o <<Comma>> \o outs[2])
    BY NeutralTokens, GoodBetween
  <2>3. GoodText(Braces(subs[1] \o <<Comma>> \o subs[2]), k, ll \o lr, Braces(outs[1] \o <<Comma>> \o outs[2]))
    BY <2>2, GoodBraces
  <2> QED
    BY <2>1, <2>3, NeutralTokens, GoodPrefixed
<1>8. CASE n.kind = "relational"
  <2>1. /\ NodeText(n, k, subs) = RelationalText(n, Braced(subs[1], leaf(1)), Braced(subs[2], leaf(2)))
        /\ NodeText(n, 0, outs) = RelationalText(n, Braced(outs[1], leaf(1)), Braced(outs[2], leaf(2)))
    BY <1>8 DEF NodeText
  <2>2. n.op \in {"IS NULL", "IS NOT NULL"} => lr = <<>>
    BY <1>8
  <2> HIDE DEF leaf
  <2> QED
    BY <1>4, <1>5, <2>1, <2>2, GoodRelational
<1>9. CASE n.kind = "conditional"
  <2>1. /\ NodeText(n, k, subs) = Braced(subs[1], complex(1)) \o <<Op(n.op)>> \o Braced(subs[2], complex(2))
        /\ NodeText(n, 0, outs) = Braced(outs[1], complex(1)) \o <<Op(n.op)>> \o Braced(outs[2], complex(2))
    BY <1>9 DEF NodeText
  <2> HIDE DEF complex
  <2> QED
    BY <1>4, <1>5, <2>1, NeutralTokens, GoodBetween
<1> QED
  BY <1>6, <1>7, <1>8, <1>9 DEF OverTwo

-----------------------------------------------------------------------------
(* Every tree without a repeated literal binds its literals, however many  *)
(* come before them. *)

Bindable(n) == \E out : \A k \in Nat : GoodText(Text[n][k], k, Literals[n], out)
Once(n) == \A m \in Nodes[n] : ~Repeats(m)

LEMMA LengthOf ==
  ASSUME NEW m \in Nat, NEW f, f = [i \in 1..m |-> f[i]]
  PROVE  Len(f) = m
OBVIOUS

(* The arguments of NodeText for a node. *)
Below(n, k) ==
  [i \in DOMAIN n.args |-> Text[n.args[i]][IF i = 1 THEN k ELSE k + Len(Literals[n.args[1]])]]
LiteralsBelow(n) == [i \in DOMAIN n.args |-> Literals[n.args[i]]]

LEMMA TextOf ==
  ASSUME NEW n \in Trees
  PROVE  /\ \A k \in Nat : Text[n][k] = NodeText(n, k, Below(n, k))
         /\ Literals[n] = NodeLiterals(n, LiteralsBelow(n))
<1>1. Text[n] = [k \in Nat |-> NodeText(n, k, Below(n, k))]
  BY TextAre DEF TextStep, Below
<1>2. \A k \in Nat : Text[n][k] = NodeText(n, k, Below(n, k))
  <2> DEFINE x(k) == NodeText(n, k, Below(n, k))
  <2>1. Text[n] = [k \in Nat |-> x(k)]
    BY <1>1
  <2>2. \A k \in Nat : Text[n][k] = x(k)
    <3> HIDE DEF x
    <3> QED
      BY <2>1
  <2> QED
    BY <2>2
<1>3. Literals[n] = NodeLiterals(n, LiteralsBelow(n))
  BY LiteralsAre DEF LiteralsStep, LiteralsBelow
<1> QED
  BY <1>2, <1>3

LEMMA BelowOne ==
  ASSUME NEW n, DOMAIN n.args = 1..1, NEW k
  PROVE  /\ Len(Below(n, k)) = 1 /\ Below(n, k)[1] = Text[n.args[1]][k]
         /\ Len(LiteralsBelow(n)) = 1 /\ LiteralsBelow(n)[1] = Literals[n.args[1]]
<1> DEFINE x(i) == Text[n.args[i]][IF i = 1 THEN k ELSE k + Len(Literals[n.args[1]])]
           y(i) == Literals[n.args[i]]
<1>1. Below(n, k) = [i \in 1..1 |-> x(i)] /\ LiteralsBelow(n) = [i \in 1..1 |-> y(i)]
  BY DEF Below, LiteralsBelow
<1>2. x(1) = Text[n.args[1]][k] /\ y(1) = Literals[n.args[1]]
  OBVIOUS
<1> HIDE DEF x, y
<1>3. /\ Below(n, k)[1] = x(1) /\ Below(n, k) = [i \in 1..1 |-> Below(n, k)[i]]
      /\ LiteralsBelow(n)[1] = y(1) /\ LiteralsBelow(n) = [i \in 1..1 |-> LiteralsBelow(n)[i]]
  BY <1>1
<1> QED
  BY <1>2, <1>3, LengthOf

LEMMA BelowTwo ==
  ASSUME NEW n, DOMAIN n.args = 1..2, NEW k
  PROVE  /\ Len(Below(n, k)) = 2 /\ Below(n, k)[1] = Text[n.args[1]][k]
         /\ Below(n, k)[2] = Text[n.args[2]][k + Len(Literals[n.args[1]])]
         /\ Len(LiteralsBelow(n)) = 2 /\ LiteralsBelow(n)[1] = Literals[n.args[1]]
         /\ LiteralsBelow(n)[2] = Literals[n.args[2]]
<1> DEFINE x(i) == Text[n.args[i]][IF i = 1 THEN k ELSE k + Len(Literals[n.args[1]])]
           y(i) == Literals[n.args[i]]
<1>1. Below(n, k) = [i \in 1..2 |-> x(i)] /\ LiteralsBelow(n) = [i \in 1..2 |-> y(i)]
  BY DEF Below, LiteralsBelow
<1>2. /\ x(1) = Text[n.args[1]][k] /\ y(1) = Literals[n.args[1]]
      /\ x(2) = Text[n.args[2]][k + Len(Literals[n.args[1]])] /\ y(2) = Literals[n.args[2]]
  OBVIOUS
<1> HIDE DEF x, y
<1>3. /\ Below(n, k)[1] = x(1) /\ Below(n, k)[2] = x(2) /\ Below(n, k) = [i \in 1..2 |-> Below(n, k)[i]]
      /\ LiteralsBelow(n)[1] = y(1) /\ LiteralsBelow(n)[2] = y(2) /\ LiteralsBelow(n) = [i \in 1..2 |-> LiteralsBelow(n)[i]]
  BY <1>1
<1> QED
  BY <1>2, <1>3, LengthOf

LEMMA LowestBindable ==
  ASSUME qualified, NEW n \in Lowest, n \in Trees
  PROVE  Bindable(n) /\ (n \in NullNodes => Literals[n] = <<>>)
<1>1. \/ n.kind = "column" /\ n \notin NullNodes
      \/ n.kind = "literal" /\ n \notin NullNodes
      \/ n.kind = "null"
  <2>1. \/ \E c \in DOMAIN ColumnType : n = ColumnNode(c)
        \/ \E v \in DOMAIN LiteralType : n = LiteralNode(v)
        \/ \E t \in Types : n = NullNode(t)
    BY DEF Lowest, Leaves, Columns, LiteralNodes, NullNodes
  <2>2. \A kind, op, type, args : Node(kind, op, type, args).kind = kind
    BY DEF Node
  <2>a. \A c : ColumnNode(c).kind = "column"
    BY <2>2, Zenon DEF ColumnNode
  <2>b. \A v : LiteralNode(v).kind = "literal"
    BY <2>2, Zenon DEF LiteralNode
  <2>c. \A t : NullNode(t).kind = "null"
    BY <2>2, Zenon DEF NullNode
  <2>3. n.kind \in {"column", "literal", "null"}
    BY <2>1, <2>a, <2>b, <2>c
  <2>4. \A x \in NullNodes : x.kind = "null"
    BY <2>c DEF NullNodes
  <2> QED
    BY <2>3, <2>4
<1>2. /\ \A k \in Nat : Text[n][k] = NodeText(n, k, Below(n, k))
      /\ Literals[n] = NodeLiterals(n, LiteralsBelow(n))
  BY TextOf
<1>3. ASSUME NEW t, Neutral(t), \A k \in Nat : Text[n][k] = <<t>>, Literals[n] = <<>>
      PROVE  Bindable(n)
  <2>1. \A k \in Nat : GoodText(<<t>>, k, <<>>, <<t>>)
    BY <1>3, PlainTokens DEF Plain, GoodText
  <2> QED
    BY <1>3, <2>1 DEF Bindable
<1>4. CASE n.kind = "column" /\ n \notin NullNodes
  <2>1. (\A k \in Nat : Text[n][k] = <<<<"column", n.op>>>>) /\ Literals[n] = <<>>
    BY <1>2, <1>4 DEF NodeText, NodeLiterals
  <2> QED
    BY <1>3, <1>4, <2>1, NeutralTokens
<1>5. CASE n.kind = "null"
  <2>1. (\A k \in Nat : Text[n][k] = <<Value("NULL")>>) /\ Literals[n] = <<>>
    BY <1>2, <1>5 DEF NodeText, NodeLiterals
  <2> QED
    BY <1>3, <1>5, <2>1, NeutralTokens
<1>6. CASE n.kind = "literal" /\ n \notin NullNodes
  <2>1. Literals[n] = <<n.op>>
    BY <1>2, <1>6 DEF NodeLiterals
  <2>2. \A k \in Nat : Text[n][k] = <<Slot(k)>>
    <3> TAKE k \in Nat
    <3>1. Text[n][k] = LiteralText(n, k + 1)
      BY <1>2, <1>6 DEF NodeText
    <3>2. LiteralText(n, k + 1) = <<Slot(k)>>
      BY DEF LiteralText, Slot
    <3> QED
      BY <3>1, <3>2
  <2>3. ASSUME NEW k \in Nat PROVE GoodText(<<Slot(k)>>, k, <<n.op>>, <<Value(n.op)>>)
    <3>1. BindsText(<<Slot(k)>>, k, <<n.op>>, <<Value(n.op)>>)
      BY BindsSlot
    <3>2. Neutral(Value(n.op))
      BY NeutralTokens
    <3>3. Excess(<<Slot(k)>>) = 0
      <4>1. Slot(k) # OpenBracket /\ Slot(k) # CloseBracket
        BY DEF Slot, OpenBracket, CloseBracket
      <4>2. \A u : DOMAIN <<u>> = {1} /\ <<u>>[1] = u
        OBVIOUS
      <4>3. PlacesOf(<<Slot(k)>>, OpenBracket) = {} /\ PlacesOf(<<Slot(k)>>, CloseBracket) = {}
        BY <4>1, <4>2 DEF PlacesOf
      <4>4. Cardinality({}) - Cardinality({}) = 0
        BY FS_EmptySet
      <4> QED
        BY <4>3, <4>4, Zenon DEF Excess
    <3>4. Excess(<<Value(n.op)>>) = 0
      BY <3>2, TokenExcess
    <3> QED
      BY <3>1, <3>3, <3>4 DEF GoodText, Good
  <2>4. \A k \in Nat : GoodText(Text[n][k], k, Literals[n], <<Value(n.op)>>)
    BY <2>1, <2>2, <2>3
  <2> QED
    BY <1>6, <2>4 DEF Bindable
<1>7. n \in NullNodes => Literals[n] = <<>>
  BY <1>1, <1>2 DEF NodeLiterals
<1> QED
  BY <1>1, <1>4, <1>5, <1>6, <1>7

(* A null comes second to IS NULL and IS NOT NULL. *)
LEMMA NullSecond ==
  ASSUME NEW S, NEW n \in NodesOver(S), n.kind = "relational", n.op \in {"IS NULL", "IS NOT NULL"}
  PROVE  n.args[2] \in NullNodes
<1> DEFINE one == [1..1 -> S]
           two == [1..2 -> S]
           both == S \X NullNodes
<1>1. \A a \in both : a[2] \in NullNodes
  OBVIOUS
<1>2. n \in     [kind : {"unary"}, op : {"plus", "-", "~"}, type : Types, args : one]
     \cup [kind : {"cast"}, op : {""}, type : Types, args : one]
     \cup [kind : {"call"}, op : {"upper", "length", "abs", "coalesce"}, type : Types, args : one \cup two]
     \cup [kind : {"binary"}, op : Operators \cup {"||"}, type : Types, args : two]
     \cup [kind : {"relational"}, op : Relations \cup {"=", "LIKE"}, type : {"void"}, args : two]
     \cup [kind : {"relational"}, op : {"IS NULL", "IS NOT NULL"}, type : {"void"}, args : both]
     \cup [kind : {"not"}, op : {""}, type : {"void"}, args : one]
     \cup [kind : {"conditional"}, op : {"AND", "OR"}, type : {"void"}, args : two]
  BY DEF NodesOver
<1> HIDE DEF one, two, both
<1>3. n.op \notin Relations \cup {"=", "LIKE"}
  BY ExpressionAssumption
<1>4. n.args \in both
  BY <1>2, <1>3
<1> QED
  BY <1>1, <1>4

LEMMA NodesBelow ==
  ASSUME NEW n \in Trees, NEW i \in DOMAIN n.args, Once(n)
  PROVE  Once(n.args[i]) /\ ~Repeats(n)
<1>1. Nodes[n] = {n} \cup UNION {Nodes[n.args[j]] : j \in DOMAIN n.args}
  BY NodesAre DEF NodesStep
<1>2. n \in Nodes[n] /\ Nodes[n.args[i]] \subseteq Nodes[n]
  BY <1>1
<1> QED
  BY <1>2 DEF Once

LEMMA LiteralsOfTwo ==
  ASSUME NEW n, n.kind \notin {"literal", "column", "null"}, NEW subs, Len(subs) = 2
  PROVE  NodeLiterals(n, subs) = subs[1] \o subs[2]
<1>1. n.kind # "literal" /\ n.kind # "column" /\ n.kind # "null" /\ ~(Len(subs) = 1)
  OBVIOUS
<1> QED
  BY <1>1 DEF NodeLiterals

LEMMA OverBindable ==
  ASSUME qualified, NEW d \in 0 .. MaxNodes - 1, NEW n \in NodesOver(TreesUpTo[d]),
         \A m \in TreesUpTo[d] : Once(m) => Bindable(m), Once(n)
  PROVE  Bindable(n)
<1>1. MaxNodes \in Nat /\ d + 1 \in 1..MaxNodes /\ d + 1 \in 0..MaxNodes /\ (d + 1) - 1 = d /\ d \in 0..MaxNodes
  BY LevelsAre
<1>2. TreesUpTo[d + 1] = TreesUpTo[d] \cup NodesOver(TreesUpTo[d])
  BY <1>1, LevelsAre
<1>3. n \in Trees
  BY <1>1, <1>2, LevelsGrow
<1>4. NullNodes \subseteq TreesUpTo[d] /\ TreesUpTo[d] \subseteq Trees
  BY <1>1, LevelsGrow DEF Lowest
<1>5. \A i \in DOMAIN n.args : n.args[i] \in TreesUpTo[d]
  BY <1>4, ArgsOver
<1>6. \A i \in DOMAIN n.args : Bindable(n.args[i])
  BY <1>3, <1>5, NodesBelow
<1>7. /\ \A k \in Nat : Text[n][k] = NodeText(n, k, Below(n, k))
      /\ Literals[n] = NodeLiterals(n, LiteralsBelow(n))
  BY <1>3, TextOf
<1>8. CASE DOMAIN n.args = 1..1 /\ OverOne(n)
  <2>1. 1 \in DOMAIN n.args
    BY <1>8
  <2>2. PICK o : \A k \in Nat : GoodText(Text[n.args[1]][k], k, Literals[n.args[1]], o)
    BY <1>6, <2>1 DEF Bindable
  <2>3. Literals[n] = Literals[n.args[1]]
    BY <1>7, <1>8, BelowOne DEF NodeLiterals, OverOne
  <2> DEFINE outs == <<o>>
  <2>4. Len(outs) = 1 /\ outs[1] = o
    OBVIOUS
  <2> HIDE DEF outs
  <2>5. ASSUME NEW k \in Nat PROVE GoodText(Text[n][k], k, Literals[n], NodeText(n, 0, outs))
    <3>1. Len(Below(n, k)) = 1 /\ Below(n, k)[1] = Text[n.args[1]][k]
      BY <1>8, BelowOne
    <3>2. GoodText(Below(n, k)[1], k, Literals[n], outs[1])
      BY <2>2, <2>3, <2>4, <3>1
    <3>3. GoodText(NodeText(n, k, Below(n, k)), k, Literals[n], NodeText(n, 0, outs))
      BY <1>8, <2>4, <3>1, <3>2, GoodOne
    <3> QED
      BY <1>7, <3>3
  <2> QED
    BY <2>5 DEF Bindable
<1>9. CASE DOMAIN n.args = 1..2 /\ OverTwo(n)
  <2>1. 1 \in DOMAIN n.args /\ 2 \in DOMAIN n.args
    BY <1>9
  <2>2. PICK o : \A k \in Nat : GoodText(Text[n.args[1]][k], k, Literals[n.args[1]], o)
    BY <1>6, <2>1 DEF Bindable
  <2>3. PICK p : \A k \in Nat : GoodText(Text[n.args[2]][k], k, Literals[n.args[2]], p)
    BY <1>6, <2>1 DEF Bindable
  <2> DEFINE ll == Literals[n.args[1]]
             lr == Literals[n.args[2]]
             outs == <<o, p>>
  <2>a. \A k : /\ Len(Below(n, k)) = 2 /\ Below(n, k)[1] = Text[n.args[1]][k]
               /\ Below(n, k)[2] = Text[n.args[2]][k + Len(Literals[n.args[1]])]
    <3> TAKE k
    <3>0. DOMAIN n.args = 1..2
      BY <1>9
    <3>1. Len(Below(n, k)) = 2
      BY <3>0, BelowTwo
    <3>2. Below(n, k)[1] = Text[n.args[1]][k]
      BY <3>0, BelowTwo
    <3>3. Below(n, k)[2] = Text[n.args[2]][k + Len(Literals[n.args[1]])]
      BY <3>0, BelowTwo
    <3> QED
      BY <3>1, <3>2, <3>3
  <2>4. Literals[n] = ll \o lr
    <3>1. Len(LiteralsBelow(n)) = 2 /\ LiteralsBelow(n)[1] = ll /\ LiteralsBelow(n)[2] = lr
      BY <1>9, BelowTwo, Zenon
    <3>2. n.kind \notin {"literal", "column", "null"}
      BY <1>9 DEF OverTwo
    <3>3. NodeLiterals(n, LiteralsBelow(n)) = LiteralsBelow(n)[1] \o LiteralsBelow(n)[2]
      BY <3>1, <3>2, LiteralsOfTwo
    <3> QED
      BY <1>7, <3>1, <3>3, Zenon
  <2>5. Len(outs) = 2 /\ outs[1] = o /\ outs[2] = p
    OBVIOUS
  <2>6. Len(ll) \in Nat
    <3>1. 0 \in Nat
      OBVIOUS
    <3>2. IsText(ll)
      BY <2>2, <3>1, GoodTexts DEF GoodText
    <3> QED
      BY <3>2, TextLength
  <2>7. n.kind = "binary" => n.op # "^" \/ syntax = "postgres" \/ ll \o lr = <<>>
    <3>1. ~Repeats(n)
      BY <1>3, <2>1, NodesBelow
    <3> QED
      BY <2>4, <3>1 DEF Repeats
  <2>8. n.kind = "relational" /\ n.op \in {"IS NULL", "IS NOT NULL"} => lr = <<>>
    <3> SUFFICES ASSUME n.kind = "relational", n.op \in {"IS NULL", "IS NOT NULL"} PROVE lr = <<>>
      OBVIOUS
    <3>1. n.args[2] \in NullNodes
      BY NullSecond
    <3>2. n.args[2] \in Lowest /\ n.args[2] \in Trees
      BY <1>4, <3>1 DEF Lowest
    <3> QED
      BY <3>1, <3>2, LowestBindable
  <2> HIDE DEF outs, ll, lr
  <2>9. ASSUME NEW k \in Nat PROVE GoodText(Text[n][k], k, Literals[n], NodeText(n, 0, outs))
    <3>1. Len(Below(n, k)) = 2 /\ Below(n, k)[1] = Text[n.args[1]][k] /\ Below(n, k)[2] = Text[n.args[2]][k + Len(ll)]
      BY <2>a, Zenon DEF ll
    <3>2. GoodText(Below(n, k)[1], k, ll, outs[1])
      BY <2>2, <2>5, <3>1 DEF ll
    <3>3. k + Len(ll) \in Nat
      BY <2>6, SumsAreNat, Zenon
    <3>4. GoodText(Below(n, k)[2], k + Len(ll), lr, outs[2])
      BY <2>3, <2>5, <3>1, <3>3 DEF lr
    <3>5. GoodText(NodeText(n, k, Below(n, k)), k, ll \o lr, NodeText(n, 0, outs))
      BY <1>9, <2>5, <2>7, <2>8, <3>1, <3>2, <3>4, GoodTwo
    <3> QED
      BY <1>7, <2>4, <3>5
  <2> QED
    BY <2>9 DEF Bindable
<1> QED
  BY <1>8, <1>9, NodeKinds

LEMMA TreesBindable ==
  ASSUME qualified, NEW n \in Trees, Once(n)
  PROVE  Bindable(n)
<1> DEFINE S == {m \in Trees : Once(m) => Bindable(m)}
<1>1. Lowest \subseteq S
  <2>1. 0 \in 0..MaxNodes
    BY LevelsAre
  <2>2. Lowest \subseteq Trees
    BY <2>1, LevelsGrow
  <2> QED
    BY <2>2, LowestBindable
<1>2. ASSUME NEW d \in 0 .. MaxNodes - 1, TreesUpTo[d] \subseteq S
      PROVE  NodesOver(TreesUpTo[d]) \subseteq S
  <2>1. MaxNodes \in Nat /\ d + 1 \in 1..MaxNodes /\ d + 1 \in 0..MaxNodes /\ (d + 1) - 1 = d
    BY LevelsAre
  <2>2. NodesOver(TreesUpTo[d]) \subseteq Trees
    <3>1. TreesUpTo[d + 1] = TreesUpTo[d] \cup NodesOver(TreesUpTo[d])
      BY <2>1, LevelsAre
    <3> QED
      BY <2>1, <3>1, LevelsGrow
  <2>3. \A m \in TreesUpTo[d] : Once(m) => Bindable(m)
    BY <1>2
  <2>4. \A m \in NodesOver(TreesUpTo[d]) : Once(m) => Bindable(m)
    BY <2>3, OverBindable
  <2> QED
    BY <2>2, <2>4
<1> HIDE DEF S
<1>3. Trees \subseteq S
  BY <1>1, <1>2, TreeInduction
<1> QED
  BY <1>3 DEF S

-----------------------------------------------------------------------------
(* Statements of at most one assignment. *)

LEMMA NoSets ==
  /\ SetLiterals(<<>>)[Len(<<>>)] = <<>> /\ SetText(<<>>) = <<>>
<1>1. Len(<<>>) = 0 /\ 0..0 = {0}
  OBVIOUS
<1> DEFINE R(f) == f = [i \in 0..Len(<<>>) |-> IF i = 0 THEN <<>> ELSE f[i - 1] \o Literals[<<>>[i][2]]]
           f0 == [i \in 0..Len(<<>>) |-> <<>>]
<1>2. R(f0)
  BY <1>1
<1>3. SetLiterals(<<>>) = CHOOSE f : R(f)
  BY DEF SetLiterals
<1>4. R(SetLiterals(<<>>))
  <2> HIDE DEF R
  <2> QED
    BY <1>2, <1>3
<1>5. SetLiterals(<<>>)[0] = <<>>
  BY <1>1, <1>4
<1> DEFINE Q(f) == f = [i \in 0..Len(<<>>) |->
                          IF i = 0 THEN <<>>
                          ELSE f[i - 1] \o Assignment(<<>>[i][1], Text[<<>>[i][2]][Len(SetLiterals(<<>>)[i - 1])])]
<1>6. Q(f0)
  BY <1>1
<1>7. SetText(<<>>) = (CHOOSE f : Q(f))[Len(<<>>)]
  BY DEF SetText
<1>8. Q(CHOOSE f : Q(f))
  <2> HIDE DEF Q
  <2> QED
    BY <1>6
<1>9. SetText(<<>>) = <<>>
  BY <1>1, <1>7, <1>8
<1> QED
  BY <1>1, <1>5, <1>9

LEMMA OneSet ==
  ASSUME NEW c, NEW n, IsText(Literals[n]), IsText(Assignment(c, Text[n][0])),
         NEW s, Len(s) = 1, s[1] = <<c, n>>
  PROVE  /\ SetLiterals(s)[Len(s)] = Literals[n]
         /\ SetText(s) = Assignment(c, Text[n][0])
<1>1. Len(s) = 1 /\ s[1] = <<c, n>> /\ s[1][1] = c /\ s[1][2] = n /\ 0..1 = {0, 1}
  OBVIOUS
<1> DEFINE R(f) == f = [i \in 0..Len(s) |-> IF i = 0 THEN <<>> ELSE f[i - 1] \o Literals[s[i][2]]]
           f1 == [i \in {0, 1} |-> IF i = 0 THEN <<>> ELSE <<>> \o Literals[s[1][2]]]
<1>2. R(f1)
  BY <1>1
<1>3. SetLiterals(s) = CHOOSE f : R(f)
  BY DEF SetLiterals
<1>4. R(SetLiterals(s))
  <2> HIDE DEF R
  <2> QED
    BY <1>2, <1>3
<1> DEFINE L == SetLiterals(s)
<1>5. L[0] = <<>> /\ L[1] = <<>> \o Literals[n]
  <2> DEFINE y(i) == IF i = 0 THEN <<>> ELSE L[i - 1] \o Literals[s[i][2]]
  <2>1. L = [i \in 0..1 |-> y(i)]
    BY <1>1, <1>4
  <2>2. 0 \in 0..1 /\ 1 \in 0..1 /\ 1 - 1 = 0
    OBVIOUS
  <2>3. y(0) = <<>> /\ y(1) = L[0] \o Literals[n]
    <3> HIDE DEF L
    <3>1. y(0) = <<>> /\ y(1) = L[1 - 1] \o Literals[s[1][2]]
      OBVIOUS
    <3> QED
      BY <1>1, <2>2, <3>1, Zenon
  <2> HIDE DEF y, L
  <2>4. L[0] = y(0) /\ L[1] = y(1)
    BY <2>1, <2>2
  <2> QED
    BY <2>3, <2>4
<1>6. SetLiterals(s)[Len(s)] = Literals[n]
  BY <1>1, <1>5, EmptyText
<1>7. Len(SetLiterals(s)[0]) = 0
  BY <1>5
<1> DEFINE Q(f) == f = [i \in 0..Len(s) |->
                          IF i = 0 THEN <<>>
                          ELSE f[i - 1] \o Assignment(s[i][1], Text[s[i][2]][Len(SetLiterals(s)[i - 1])])]
           g1 == [i \in {0, 1} |-> IF i = 0 THEN <<>> ELSE <<>> \o Assignment(s[1][1], Text[s[1][2]][Len(SetLiterals(s)[0])])]
<1>8. Q(g1)
  BY <1>1
<1>9. SetText(s) = (CHOOSE f : Q(f))[Len(s)]
  BY DEF SetText
<1> DEFINE h == CHOOSE f : Q(f)
<1>10. Q(h)
  <2> HIDE DEF Q
  <2> QED
    BY <1>8
<1> HIDE DEF h
<1>11. h[0] = <<>> /\ h[1] = <<>> \o Assignment(c, Text[n][0])
  <2> DEFINE y(i) == IF i = 0 THEN <<>>
                     ELSE h[i - 1] \o Assignment(s[i][1], Text[s[i][2]][Len(SetLiterals(s)[i - 1])])
  <2>1. h = [i \in 0..1 |-> y(i)]
    BY <1>1, <1>10
  <2>2. 0 \in 0..1 /\ 1 \in 0..1 /\ 1 - 1 = 0
    OBVIOUS
  <2>3. y(0) = <<>> /\ y(1) = h[0] \o Assignment(c, Text[n][0])
    <3>1. y(0) = <<>> /\ y(1) = h[1 - 1] \o Assignment(s[1][1], Text[s[1][2]][Len(SetLiterals(s)[1 - 1])])
      OBVIOUS
    <3> QED
      BY <1>1, <1>7, <2>2, <3>1, Zenon
  <2> HIDE DEF y
  <2>4. h[0] = y(0) /\ h[1] = y(1)
    BY <2>1, <2>2
  <2> QED
    BY <2>3, <2>4
<1>12. SetText(s) = Assignment(c, Text[n][0])
  BY <1>1, <1>9, <1>11, EmptyText DEF h
<1> QED
  BY <1>6, <1>12

LEMMA GoodAssignment ==
  ASSUME NEW k \in Nat, NEW c, NEW b, NEW ls, NEW ob, GoodText(b, k, ls, ob)
  PROVE  GoodText(Assignment(c, b), k, ls, Assignment(c, ob))
<1> DEFINE w == <<<<"column", c>>, Op(":=")>>
<1>1. Plain(w, 0)
  <2>1. w = <<<<"column", c>>>> \o <<Op(":=")>>
    BY PairText
  <2>2. Plain(<<<<"column", c>>>> \o <<Op(":=")>>, 0 + 0)
    BY NeutralTokens, PlainTokens, PlainJoin
  <2>3. 0 + 0 = 0
    OBVIOUS
  <2> QED
    BY <2>1, <2>2, <2>3, Zenon
<1> HIDE DEF w
<1>2. GoodText(w \o b, k, ls, w \o ob)
  <2>1. Good(w \o b, k, ls, w \o ob, 0 + 0)
    BY <1>1, GoodAfter DEF GoodText
  <2>2. 0 + 0 = 0
    OBVIOUS
  <2> QED
    BY <2>1, <2>2, Zenon DEF GoodText
<1>3. GoodText(w \o b \o <<Comma>>, k, ls, w \o ob \o <<Comma>>)
  BY <1>2, NeutralTokens, GoodSuffixed
<1> QED
  BY <1>3 DEF Assignment, w

LEMMA GoodNothing == \A k \in Nat : GoodText(<<>>, k, <<>>, <<>>)
BY PlainTokens DEF Plain, GoodText

LEMMA GoodIsBound ==
  ASSUME NEW ts, NEW ls, NEW out, GoodText(ts, 0, ls, out)
  PROVE  Bound(ts, ls) = out /\ Balanced(ts) /\ Balanced(out)
<1>1. BindsText(ts, 0, ls, out) /\ Excess(ts) = 0 /\ Excess(out) = 0
  BY DEF GoodText, Good
<1>2. IsText(ts) /\ IsText(out)
  BY <1>1 DEF BindsText
<1> QED
  BY <1>1, <1>2, BindsBound, ExcessBalances

(* The assignment of an update binds its literals. *)
LEMMA GoodSet ==
  ASSUME qualified, ExpressionIInv, \A n \in Expressions : Once(n)
  PROVE  GoodText(SetText(sets), 0, SetLiterals(sets)[Len(sets)], BoundSet)
<1>1. CASE sets = <<>>
  <2>1. SetText(sets) = <<>> /\ SetLiterals(sets)[Len(sets)] = <<>> /\ BoundSet = <<>>
    BY <1>1, NoSets DEF BoundSet
  <2> QED
    BY <2>1, GoodNothing
<1>2. ASSUME NEW c, NEW n \in Trees, sets = <<<<c, n>>>>
      PROVE  GoodText(SetText(sets), 0, SetLiterals(sets)[Len(sets)], BoundSet)
  <2>1. DOMAIN sets = {1} /\ sets[1][1] = c /\ sets[1][2] = n /\ sets # <<>>
    BY <1>2
  <2>2. n \in Expressions
    BY <2>1 DEF Expressions
  <2>3. Bindable(n)
    BY <2>2, TreesBindable
  <2>4. PICK o : \A k \in Nat : GoodText(Text[n][k], k, Literals[n], o)
    BY <2>3 DEF Bindable
  <2>5. GoodText(Text[n][0], 0, Literals[n], o)
    BY <2>4
  <2>6. Bound(Text[n][0], Literals[n]) = o
    BY <2>5, GoodIsBound
  <2>7. GoodText(Assignment(c, Text[n][0]), 0, Literals[n], Assignment(c, o))
    BY <2>5, GoodAssignment
  <2>8. IsText(Literals[n]) /\ IsText(Assignment(c, Text[n][0]))
    BY <2>7, GoodTexts DEF GoodText
  <2>9. SetText(sets) = Assignment(c, Text[n][0]) /\ SetLiterals(sets)[Len(sets)] = Literals[n]
    <3>1. Len(sets) = 1 /\ sets[1] = <<c, n>>
      BY <1>2
    <3> QED
      BY <2>8, <3>1, OneSet
  <2>10. BoundSet = Assignment(c, o)
    BY <2>1, <2>6 DEF BoundSet
  <2> QED
    BY <2>7, <2>9, <2>10
<1>3. sets = <<>> \/ \E c, n : n \in Trees /\ sets = <<<<c, n>>>>
  <2>1. size - 1 \in 0..MaxNodes
    BY LevelsAre DEF ExpressionIInv
  <2>2. TreesUpTo[size - 1] \subseteq Trees
    BY <2>1, LevelsGrow
  <2> QED
    BY <2>2 DEF ExpressionIInv
<1> QED
  BY <1>1, <1>2, <1>3

(* And its clause, after any number of literals. *)
LEMMA GoodWhere ==
  ASSUME qualified, ExpressionIInv, \A n \in Expressions : Once(n)
  PROVE  \A k \in Nat : GoodText(Where(ClauseText(k)), k, ClauseLiterals, BoundWhere)
<1>1. CASE clause = NoNode
  <2>1. \A k : Where(ClauseText(k)) = <<>> /\ ClauseLiterals = <<>> /\ BoundWhere = <<>>
    BY <1>1 DEF Where, ClauseText, ClauseLiterals, BoundWhere
  <2> QED
    BY <2>1, GoodNothing
<1>2. CASE clause # NoNode
  <2>1. size - 1 \in 0..MaxNodes
    BY LevelsAre DEF ExpressionIInv
  <2>2. clause \in Trees /\ clause \in Expressions
    BY <1>2, <2>1, LevelsGrow DEF ExpressionIInv, Expressions
  <2>3. Bindable(clause)
    BY <2>2, TreesBindable
  <2>4. PICK o : \A k \in Nat : GoodText(Text[clause][k], k, Literals[clause], o)
    BY <2>3 DEF Bindable
  <2>5. Bound(Text[clause][0], Literals[clause]) = o
    BY <2>4, GoodIsBound
  <2>6. /\ \A k : Where(ClauseText(k)) = <<Word("WHERE")>> \o Text[clause][k]
        /\ ClauseLiterals = Literals[clause] /\ BoundWhere = <<Word("WHERE")>> \o o
    BY <1>2, <2>5 DEF Where, ClauseText, ClauseLiterals, BoundWhere
  <2>7. \A k \in Nat : GoodText(<<Word("WHERE")>> \o Text[clause][k], k, Literals[clause], <<Word("WHERE")>> \o o)
    BY <2>4, NeutralTokens, GoodPrefixed
  <2> QED
    BY <2>6, <2>7
<1> QED
  BY <1>1, <1>2

LEMMA PlainExists == Plain(Exists, 1)
<1> DEFINE w == <<Word("EXISTS"), OpenBracket>>
<1>1. Plain(w, 1)
  <2>1. w = <<Word("EXISTS")>> \o <<OpenBracket>>
    BY PairText
  <2>2. Plain(<<Word("EXISTS")>> \o <<OpenBracket>>, 0 + 1)
    BY NeutralTokens, PlainTokens, PlainJoin
  <2>3. 0 + 1 = 1
    OBVIOUS
  <2> QED
    BY <2>1, <2>2, <2>3, Zenon
<1>2. Plain(<<Word("JOINS")>>, 0)
  BY NeutralTokens, PlainTokens
<1>3. Exists = w \o <<Word("JOINS")>>
  BY TripleText DEF Exists
<1> HIDE DEF w
<1>4. Plain(w \o <<Word("JOINS")>>, 1 + 0)
  BY <1>1, <1>2, PlainJoin
<1>5. 1 + 0 = 1
  OBVIOUS
<1> QED
  BY <1>3, <1>4, <1>5, Zenon

LEMMA StatementsGood ==
  ASSUME ExpressionIInv
  PROVE  StatementBinds
<1> SUFFICES ASSUME qualified, \A n \in Expressions : Once(n)
             PROVE  LET update == Bound(UpdateText(sets), UpdateLiteralsOf(sets)) IN
                    /\ update = UpdateOf(BoundSet, BoundWhere)
                    /\ Balanced(update) \/ (joined /\ clause = NoNode /\ syntax # "postgres")
                    /\ Balanced(DeleteText)
  BY DEF StatementBinds, Once
<1> DEFINE ls == SetLiterals(sets)[Len(sets)]
           text == SetText(sets)
           where == Where(ClauseText(Len(ls)))
<1>1. GoodText(text, 0, ls, BoundSet)
  BY GoodSet
<1>2. Len(ls) \in Nat
  <2>1. IsText(ls)
    BY <1>1, GoodTexts DEF GoodText
  <2> QED
    BY <2>1, TextLength
<1>3. GoodText(where, Len(ls), ClauseLiterals, BoundWhere)
  BY <1>2, GoodWhere
<1>4. /\ UpdateText(sets) = UpdateOf(text, where)
      /\ UpdateLiteralsOf(sets) = ls \o ClauseLiterals
  BY DEF UpdateText, UpdateLiteralsOf
<1> HIDE DEF text, where, ls
<1>5. 0 + Len(ls) = Len(ls)
  BY <1>2
<1>6. ASSUME NEW rest, NEW out, NEW e, Good(rest, Len(ls), ClauseLiterals, out, e)
      PROVE  Good(text \o rest, 0, ls \o ClauseLiterals, BoundSet \o out, 0 + e)
  <2>1. Good(rest, 0 + Len(ls), ClauseLiterals, out, e)
    BY <1>5, <1>6
  <2>2. Good(text, 0, ls, BoundSet, 0) /\ 0 \in Nat
    BY <1>1 DEF GoodText
  <2> QED
    BY <2>1, <2>2, GoodJoins
<1>7. \A e : Good(UpdateOf(text, where), 0, ls \o ClauseLiterals, UpdateOf(BoundSet, BoundWhere), e) =>
               /\ Bound(UpdateText(sets), UpdateLiteralsOf(sets)) = UpdateOf(BoundSet, BoundWhere)
               /\ e = 0 => Balanced(UpdateOf(BoundSet, BoundWhere))
  BY <1>4, BindsBound, GoodIsBound DEF GoodText, Good
<1>8. \E e : /\ Good(UpdateOf(text, where), 0, ls \o ClauseLiterals, UpdateOf(BoundSet, BoundWhere), e)
             /\ e = 0 \/ (joined /\ clause = NoNode /\ syntax # "postgres")
  <2>1. CASE ~(joined /\ syntax # "postgres")
    <3>1. UpdateOf(text, where) = text \o where /\ UpdateOf(BoundSet, BoundWhere) = BoundSet \o BoundWhere
      BY <2>1 DEF UpdateOf
    <3>2. Good(text \o where, 0, ls \o ClauseLiterals, BoundSet \o BoundWhere, 0 + 0)
      BY <1>3, <1>6 DEF GoodText
    <3>3. 0 + 0 = 0
      OBVIOUS
    <3> QED
      BY <3>1, <3>2, <3>3
  <2>2. CASE joined /\ syntax # "postgres" /\ clause = NoNode
    <3>1. /\ UpdateOf(text, where) = text \o (Exists \o <<>>)
          /\ UpdateOf(BoundSet, BoundWhere) = BoundSet \o (Exists \o <<>>)
      BY <2>2 DEF UpdateOf
    <3>2. ClauseLiterals = <<>>
      BY <2>2 DEF ClauseLiterals
    <3>3. Good(Exists \o <<>>, Len(ls), <<>>, Exists \o <<>>, 1 + 0)
      BY <1>2, PlainExists, GoodNothing, GoodAfter DEF GoodText
    <3>4. Good(text \o (Exists \o <<>>), 0, ls \o ClauseLiterals, BoundSet \o (Exists \o <<>>), 0 + (1 + 0))
      BY <1>6, <3>2, <3>3
    <3> QED
      BY <2>2, <3>1, <3>4
  <2>3. CASE joined /\ syntax # "postgres" /\ clause # NoNode
    <3>1. /\ UpdateOf(text, where) = text \o (Exists \o (where \o <<CloseBracket>>))
          /\ UpdateOf(BoundSet, BoundWhere) = BoundSet \o (Exists \o (BoundWhere \o <<CloseBracket>>))
      BY <2>3 DEF UpdateOf
    <3>2. Good(where \o <<CloseBracket>>, Len(ls), ClauseLiterals, BoundWhere \o <<CloseBracket>>, 0 + (-1))
      BY <1>2, <1>3, PlainTokens, GoodBefore DEF GoodText
    <3>3. Good(Exists \o (where \o <<CloseBracket>>), Len(ls), ClauseLiterals,
               Exists \o (BoundWhere \o <<CloseBracket>>), 1 + (0 + (-1)))
      BY <1>2, <3>2, PlainExists, GoodAfter
    <3>4. Good(text \o (Exists \o (where \o <<CloseBracket>>)), 0, ls \o ClauseLiterals,
               BoundSet \o (Exists \o (BoundWhere \o <<CloseBracket>>)), 0 + (1 + (0 + (-1))))
      BY <1>6, <3>3
    <3>5. 0 + (1 + (0 + (-1))) = 0
      OBVIOUS
    <3> QED
      BY <3>1, <3>4, <3>5
  <2> QED
    BY <2>1, <2>2, <2>3
<1>9. Balanced(DeleteText)
  <2> DEFINE del == Where(ClauseText(0))
  <2>1. GoodText(del, 0, ClauseLiterals, BoundWhere)
    BY GoodWhere
  <2>2. CASE joined /\ syntax = "sqlite"
    <3>1. DeleteText = Exists \o del \o <<CloseBracket>>
      BY <2>2 DEF DeleteText
    <3>2. GoodText(Exists \o del \o <<CloseBracket>>, 0, ClauseLiterals, Exists \o BoundWhere \o <<CloseBracket>>)
      BY <2>1, PlainExists, GoodBracketed
    <3> QED
      BY <3>1, <3>2, GoodIsBound
  <2>3. CASE ~(joined /\ syntax = "sqlite")
    <3>1. DeleteText = del
      BY <2>3 DEF DeleteText
    <3> QED
      BY <2>1, <3>1, GoodIsBound
  <2> QED
    BY <2>2, <2>3
<1> QED
  BY <1>7, <1>8, <1>9

-----------------------------------------------------------------------------
(* What the overloaded operators make is a tree a level higher. *)

LEMMA ArgumentsOf ==
  ASSUME NEW S, NEW a \in S
  PROVE  <<a>> \in [1..1 -> S] /\ \A b \in S : <<a, b>> \in [1..2 -> S]
<1>1. <<a>> \in [1..1 -> S]
  OBVIOUS
<1>2. ASSUME NEW b \in S PROVE <<a, b>> \in [1..2 -> S]
  <2>1. \A i \in 1..2 : i = 1 \/ i = 2
    OBVIOUS
  <2> QED
    BY <2>1
<1> QED
  BY <1>1, <1>2

LEMMA OneOver ==
  ASSUME NEW S, NEW a \in S, NEW type \in Types
  PROVE  /\ \A op \in {"plus", "-", "~"} : Node("unary", op, type, <<a>>) \in NodesOver(S)
         /\ Node("cast", "", type, <<a>>) \in NodesOver(S)
         /\ \A op \in {"upper", "length", "abs", "coalesce"} : Node("call", op, type, <<a>>) \in NodesOver(S)
         /\ Node("not", "", "void", <<a>>) \in NodesOver(S)
<1> DEFINE one == [1..1 -> S]
           two == [1..2 -> S]
           args == <<a>>
<1>1. args \in one
  BY ArgumentsOf
<1> HIDE DEF one, two, args
<1>2. \A op \in {"plus", "-", "~"} : Node("unary", op, type, args) \in [kind : {"unary"}, op : {"plus", "-", "~"}, type : Types, args : one]
  BY <1>1 DEF Node
<1>3. Node("cast", "", type, args) \in [kind : {"cast"}, op : {""}, type : Types, args : one]
  BY <1>1 DEF Node
<1>4. \A op \in {"upper", "length", "abs", "coalesce"} :
        Node("call", op, type, args) \in [kind : {"call"}, op : {"upper", "length", "abs", "coalesce"}, type : Types, args : one \cup two]
  BY <1>1 DEF Node
<1>5. Node("not", "", "void", args) \in [kind : {"not"}, op : {""}, type : {"void"}, args : one]
  BY <1>1 DEF Node
<1>6. /\ [kind : {"unary"}, op : {"plus", "-", "~"}, type : Types, args : one] \subseteq NodesOver(S)
      /\ [kind : {"cast"}, op : {""}, type : Types, args : one] \subseteq NodesOver(S)
      /\ [kind : {"call"}, op : {"upper", "length", "abs", "coalesce"}, type : Types, args : one \cup two] \subseteq NodesOver(S)
      /\ [kind : {"not"}, op : {""}, type : {"void"}, args : one] \subseteq NodesOver(S)
  BY Zenon DEF NodesOver, one, two
<1>7. /\ \A op \in {"plus", "-", "~"} : Node("unary", op, type, args) \in NodesOver(S)
      /\ Node("cast", "", type, args) \in NodesOver(S)
      /\ \A op \in {"upper", "length", "abs", "coalesce"} : Node("call", op, type, args) \in NodesOver(S)
      /\ Node("not", "", "void", args) \in NodesOver(S)
  BY <1>2, <1>3, <1>4, <1>5, <1>6, Zenon
<1> QED
  BY <1>7 DEF args

LEMMA TwoOver ==
  ASSUME NEW S, NEW a \in S, NEW b \in S, NEW type \in Types
  PROVE  /\ \A op \in {"upper", "length", "abs", "coalesce"} : Node("call", op, type, <<a, b>>) \in NodesOver(S)
         /\ \A op \in Operators \cup {"||"} : Node("binary", op, type, <<a, b>>) \in NodesOver(S)
         /\ \A op \in Relations \cup {"=", "LIKE"} : Node("relational", op, "void", <<a, b>>) \in NodesOver(S)
         /\ \A op \in {"AND", "OR"} : Node("conditional", op, "void", <<a, b>>) \in NodesOver(S)
<1> DEFINE one == [1..1 -> S]
           two == [1..2 -> S]
           args == <<a, b>>
<1>1. args \in two
  BY ArgumentsOf
<1> HIDE DEF one, two, args
<1>2. \A op \in {"upper", "length", "abs", "coalesce"} :
        Node("call", op, type, args) \in [kind : {"call"}, op : {"upper", "length", "abs", "coalesce"}, type : Types, args : one \cup two]
  BY <1>1 DEF Node
<1>3. \A op \in Operators \cup {"||"} :
        Node("binary", op, type, args) \in [kind : {"binary"}, op : Operators \cup {"||"}, type : Types, args : two]
  BY <1>1 DEF Node
<1>4. \A op \in Relations \cup {"=", "LIKE"} :
        Node("relational", op, "void", args) \in [kind : {"relational"}, op : Relations \cup {"=", "LIKE"}, type : {"void"}, args : two]
  BY <1>1 DEF Node
<1>5. \A op \in {"AND", "OR"} :
        Node("conditional", op, "void", args) \in [kind : {"conditional"}, op : {"AND", "OR"}, type : {"void"}, args : two]
  BY <1>1 DEF Node
<1>6. /\ [kind : {"call"}, op : {"upper", "length", "abs", "coalesce"}, type : Types, args : one \cup two] \subseteq NodesOver(S)
      /\ [kind : {"binary"}, op : Operators \cup {"||"}, type : Types, args : two] \subseteq NodesOver(S)
      /\ [kind : {"relational"}, op : Relations \cup {"=", "LIKE"}, type : {"void"}, args : two] \subseteq NodesOver(S)
      /\ [kind : {"conditional"}, op : {"AND", "OR"}, type : {"void"}, args : two] \subseteq NodesOver(S)
  BY Zenon DEF NodesOver, one, two
<1>7. /\ \A op \in {"upper", "length", "abs", "coalesce"} : Node("call", op, type, args) \in NodesOver(S)
      /\ \A op \in Operators \cup {"||"} : Node("binary", op, type, args) \in NodesOver(S)
      /\ \A op \in Relations \cup {"=", "LIKE"} : Node("relational", op, "void", args) \in NodesOver(S)
      /\ \A op \in {"AND", "OR"} : Node("conditional", op, "void", args) \in NodesOver(S)
  BY <1>2, <1>3, <1>4, <1>5, <1>6, Zenon
<1> QED
  BY <1>7 DEF args

LEMMA NullOver ==
  ASSUME NEW S, NEW a \in S, NEW type \in Types, NEW op \in {"IS NULL", "IS NOT NULL"}
  PROVE  Node("relational", op, "void", <<a, NullNode(type)>>) \in NodesOver(S)
<1> DEFINE both == S \X NullNodes
           args == <<a, NullNode(type)>>
<1>1. args \in both
  BY DEF NullNodes
<1> HIDE DEF both, args
<1>2. Node("relational", op, "void", args) \in [kind : {"relational"}, op : {"IS NULL", "IS NOT NULL"}, type : {"void"}, args : both]
  BY <1>1 DEF Node
<1>3. [kind : {"relational"}, op : {"IS NULL", "IS NOT NULL"}, type : {"void"}, args : both] \subseteq NodesOver(S)
  BY Zenon DEF NodesOver, both
<1>4. Node("relational", op, "void", args) \in NodesOver(S)
  BY <1>2, <1>3, Zenon
<1> QED
  BY <1>4 DEF args

LEMMA PromotedType ==
  ASSUME NEW t1 \in Types, NEW t2 \in Types
  PROVE  Promoted(t1, t2) \in Types
<1>1. "int" \in Types
  BY DEF Types, ArithmeticTypes, IntegralTypes
<1>2. CASE t1 = t2
  BY <1>2 DEF Promoted
<1>3. CASE t1 # t2 /\ {t1, t2} \cap {Priority[i] : i \in DOMAIN Priority} = {}
  BY <1>1, <1>3 DEF Promoted
<1>4. CASE t1 # t2 /\ {t1, t2} \cap {Priority[i] : i \in DOMAIN Priority} # {}
  <2> DEFINE First(k) == Priority[k] \in {t1, t2} /\ \A j \in 1 .. k - 1 : Priority[j] \notin {t1, t2}
             T == {k \in DOMAIN Priority : Priority[k] \in {t1, t2}}
             i == CHOOSE k \in DOMAIN Priority : First(k)
  <2>1. DOMAIN Priority = 1..6
    BY DEF Priority
  <2>2. T # {} /\ T \subseteq Nat
    BY <1>4, <2>1
  <2>3. PICK k \in T : \A m \in T : k <= m
    BY <2>2, LeastLevel
  <2>4. k \in DOMAIN Priority /\ First(k)
    <3>1. k \in 1..6 /\ \A j \in 1 .. k - 1 : j \in 1..6 /\ ~(k <= j)
      BY <2>1, <2>3
    <3> QED
      BY <2>1, <2>3, <3>1
  <2>5. First(i)
    <3> HIDE DEF First
    <3> QED
      BY <2>4
  <2>6. Promoted(t1, t2) = Priority[i]
    BY <1>4 DEF Promoted
  <2> HIDE DEF i
  <2> QED
    BY <2>5, <2>6
<1> QED
  BY <1>2, <1>3, <1>4

LEMMA LevelUp ==
  ASSUME NEW d \in 0 .. MaxNodes - 1
  PROVE  TreesUpTo[d] \subseteq TreesUpTo[d + 1] /\ NodesOver(TreesUpTo[d]) \subseteq TreesUpTo[d + 1]
<1>1. MaxNodes \in Nat /\ d + 1 \in 1..MaxNodes /\ (d + 1) - 1 = d
  BY LevelsAre
<1> QED
  BY <1>1, LevelsAre

LEMMA LevelFrom ==
  ASSUME NEW d \in 1..MaxNodes
  PROVE  TreesUpTo[1] \subseteq TreesUpTo[d]
<1> DEFINE U == {k \in 0..(d - 1) : TreesUpTo[1] \subseteq TreesUpTo[1 + k]}
           m == d - 1
<1>1. MaxNodes \in Nat /\ m \in Nat /\ 1 + m = d /\ 0 \in 0..m /\ m \in 0..m /\ 1 + 0 = 1
  BY LevelsAre
<1>2. 0 \in U
  BY <1>1
<1>3. ASSUME NEW k \in 0 .. m - 1, k \in U PROVE k + 1 \in U
  <2>1. 1 + k \in 0 .. MaxNodes - 1 /\ 1 + (k + 1) = (1 + k) + 1 /\ k + 1 \in 0..m
    BY <1>1
  <2>2. TreesUpTo[1 + k] \subseteq TreesUpTo[(1 + k) + 1]
    BY <2>1, LevelUp
  <2> QED
    BY <1>3, <2>1, <2>2
<1> HIDE DEF U
<1>4. 0..m \subseteq U
  BY <1>1, <1>2, <1>3, UpLevels
<1> QED
  BY <1>1, <1>4 DEF U

(* Leaves, and the comparison of a column with a literal. *)
LEMMA LeavesLow ==
  /\ \A d \in 0..MaxNodes : Leaves \subseteq TreesUpTo[d]
  /\ \A x \in Leaves : x.type \in Types
<1>1. \A d \in 0..MaxNodes : Leaves \subseteq TreesUpTo[d]
  BY LevelsGrow DEF Lowest
<1>2. \A kind, op, type, args : Node(kind, op, type, args).type = type
  BY DEF Node
<1>3. (\A c : ColumnNode(c).type = ColumnType[c]) /\ (\A v : LiteralNode(v).type = LiteralType[v])
  <2>1. \A c : ColumnNode(c).type = ColumnType[c]
    BY DEF ColumnNode, Node
  <2>2. \A v : LiteralNode(v).type = LiteralType[v]
    BY DEF LiteralNode, Node
  <2> QED
    BY <2>1, <2>2
<1>4. (\A c \in DOMAIN ColumnType : ColumnType[c] \in Types) /\ (\A v \in DOMAIN LiteralType : LiteralType[v] \in Types)
  BY ExpressionAssumption
<1>5. (\A x \in Columns : x.type \in Types) /\ (\A x \in LiteralNodes : x.type \in Types)
  BY <1>3, <1>4 DEF Columns, LiteralNodes
<1> QED
  BY <1>1, <1>5 DEF Leaves

-----------------------------------------------------------------------------
(* The inductive invariant. *)

SetsLow(s, d) ==
  s = <<>> \/ \E c \in DOMAIN ColumnType : \E n \in {s[i][2] : i \in DOMAIN s} : n \in TreesUpTo[d] /\ s = <<<<c, n>>>>

LEMMA InvariantIs ==
  ExpressionIInv <=> /\ size \in 1..(MaxNodes + 1) /\ node \in TreesUpTo[size - 1]
                     /\ clause = NoNode \/ (clause \in TreesUpTo[size - 1] /\ size >= 2)
                     /\ SetsLow(sets, size - 1)
BY DEF ExpressionIInv, SetsLow

LEMMA Higher ==
  ASSUME ExpressionIInv, size < MaxNodes
  PROVE  /\ size - 1 \in 0 .. MaxNodes - 1 /\ size + 1 \in 1..(MaxNodes + 1) /\ size + 1 >= 2
         /\ TreesUpTo[size - 1] \subseteq TreesUpTo[(size + 1) - 1]
         /\ NodesOver(TreesUpTo[size - 1]) \subseteq TreesUpTo[(size + 1) - 1]
         /\ SetsLow(sets, (size + 1) - 1)
<1>1. MaxNodes \in Nat /\ size \in 1..(MaxNodes + 1)
  BY LevelsAre DEF ExpressionIInv
<1>2. /\ size - 1 \in 0 .. MaxNodes - 1 /\ size + 1 \in 1..(MaxNodes + 1) /\ size + 1 >= 2
      /\ (size - 1) + 1 = (size + 1) - 1
  BY <1>1
<1>3. /\ TreesUpTo[size - 1] \subseteq TreesUpTo[(size - 1) + 1]
      /\ NodesOver(TreesUpTo[size - 1]) \subseteq TreesUpTo[(size - 1) + 1]
  BY <1>2, LevelUp
<1>4. SetsLow(sets, size - 1)
  BY InvariantIs
<1>5. SetsLow(sets, (size - 1) + 1)
  BY <1>3, <1>4 DEF SetsLow
<1> QED
  BY <1>2, <1>3, <1>5

LEMMA NodeStep ==
  ASSUME ExpressionIInv, size < MaxNodes, NEW n \in NodesOver(TreesUpTo[size - 1]), NodeBecomes(n, 1)
  PROVE  ExpressionIInv'
<1>1. /\ size + 1 \in 1..(MaxNodes + 1) /\ size + 1 >= 2
      /\ TreesUpTo[size - 1] \subseteq TreesUpTo[(size + 1) - 1]
      /\ NodesOver(TreesUpTo[size - 1]) \subseteq TreesUpTo[(size + 1) - 1]
      /\ SetsLow(sets, (size + 1) - 1)
  BY Higher
<1>2. node' = n /\ size' = size + 1 /\ clause' = clause /\ sets' = sets
  BY DEF NodeBecomes
<1>3. size' \in 1..(MaxNodes + 1) /\ node' \in TreesUpTo[size' - 1] /\ SetsLow(sets', size' - 1)
  BY <1>1, <1>2
<1>4. clause' = NoNode \/ (clause' \in TreesUpTo[size' - 1] /\ size' >= 2)
  BY <1>1, <1>2 DEF ExpressionIInv
<1> QED
  BY <1>3, <1>4 DEF ExpressionIInv, SetsLow

LEMMA ClauseStep ==
  ASSUME ExpressionIInv, size < MaxNodes, NEW c \in NodesOver(TreesUpTo[size - 1]), ClauseBecomes(c, 1)
  PROVE  ExpressionIInv'
<1>1. /\ size + 1 \in 1..(MaxNodes + 1) /\ size + 1 >= 2
      /\ TreesUpTo[size - 1] \subseteq TreesUpTo[(size + 1) - 1]
      /\ NodesOver(TreesUpTo[size - 1]) \subseteq TreesUpTo[(size + 1) - 1]
      /\ SetsLow(sets, (size + 1) - 1)
  BY Higher
<1>2. clause' = c /\ size' = size + 1 /\ node' = node /\ sets' = sets
  BY DEF ClauseBecomes
<1>3. size' \in 1..(MaxNodes + 1) /\ SetsLow(sets', size' - 1)
  BY <1>1, <1>2
<1>4. clause' \in TreesUpTo[size' - 1] /\ size' >= 2
  BY <1>1, <1>2
<1>5. node' \in TreesUpTo[size' - 1]
  BY <1>1, <1>2 DEF ExpressionIInv
<1> QED
  BY <1>3, <1>4, <1>5 DEF ExpressionIInv, SetsLow

(* The operands: the expression and a leaf. *)
LEMMA Operands ==
  ASSUME ExpressionIInv, size < MaxNodes
  PROVE  /\ node \in TreesUpTo[size - 1] /\ Leaves \subseteq TreesUpTo[size - 1]
         /\ \A p \in Pairs : \E a, b \in TreesUpTo[size - 1] : p = <<a, b>> /\ p[1] = a /\ p[2] = b
<1>1. size - 1 \in 0..MaxNodes
  BY LevelsAre DEF ExpressionIInv
<1>2. node \in TreesUpTo[size - 1]
  BY DEF ExpressionIInv
<1>3. Leaves \subseteq TreesUpTo[size - 1]
  BY <1>1, LeavesLow
<1>4. ASSUME NEW p \in Pairs
      PROVE  \E a, b \in TreesUpTo[size - 1] : p = <<a, b>> /\ p[1] = a /\ p[2] = b
  <2>1. PICK x \in Leaves : p = <<node, x>> \/ p = <<x, node>>
    BY DEF Pairs
  <2>2. x \in TreesUpTo[size - 1]
    BY <1>3
  <2>3. \E a, b \in TreesUpTo[size - 1] : p = <<a, b>>
    BY <1>2, <2>1, <2>2
  <2> QED
    BY <2>3
<1> QED
  BY <1>2, <1>3, <1>4

ArithmeticIsType == \A n : IsArithmetic(n) => n.type \in Types

LEMMA Arithmetic == ArithmeticIsType
BY DEF ArithmeticIsType, IsArithmetic, Types

LEMMA InitIInv == ExpressionInit => ExpressionIInv
<1> SUFFICES ASSUME ExpressionInit PROVE ExpressionIInv
  OBVIOUS
<1>1. size = 1 /\ node \in Leaves /\ clause = NoNode /\ sets = <<>>
  BY DEF ExpressionInit
<1>2. MaxNodes \in Nat /\ 0 \in 0..MaxNodes /\ 1 \in 1..(MaxNodes + 1) /\ 1 - 1 = 0
  BY LevelsAre
<1>3. node \in TreesUpTo[0]
  BY <1>1, <1>2, LeavesLow
<1> QED
  BY <1>1, <1>2, <1>3 DEF ExpressionIInv

LEMMA ApplyUnaryIInv == ExpressionIInv /\ ApplyUnary => ExpressionIInv'
<1> SUFFICES ASSUME ExpressionIInv, ApplyUnary PROVE ExpressionIInv'
  OBVIOUS
<1>1. size < MaxNodes /\ IsArithmetic(node)
  BY DEF ApplyUnary, Building
<1>2. PICK op \in {"plus", "-", "~"} : NodeBecomes(UnaryNode(op, node), 1)
  BY DEF ApplyUnary
<1>3. node \in TreesUpTo[size - 1] /\ node.type \in Types
  BY <1>1, Operands, Arithmetic DEF ArithmeticIsType
<1>4. UnaryNode(op, node) \in NodesOver(TreesUpTo[size - 1])
  BY <1>3, OneOver DEF UnaryNode
<1> QED
  BY <1>1, <1>2, <1>4, NodeStep

LEMMA CastToIInv == ExpressionIInv /\ CastTo => ExpressionIInv'
<1> SUFFICES ASSUME ExpressionIInv, CastTo PROVE ExpressionIInv'
  OBVIOUS
<1>1. size < MaxNodes
  BY DEF CastTo, Building
<1>2. PICK t \in CastTypes : NodeBecomes(CastNode(t, node), 1)
  BY DEF CastTo
<1>3. node \in TreesUpTo[size - 1] /\ t \in Types
  BY <1>1, Operands, ExpressionAssumption
<1>4. CastNode(t, node) \in NodesOver(TreesUpTo[size - 1])
  BY <1>3, OneOver DEF CastNode
<1> QED
  BY <1>1, <1>2, <1>4, NodeStep

LEMMA ApplyBinaryIInv == ExpressionIInv /\ ApplyBinary => ExpressionIInv'
<1> SUFFICES ASSUME ExpressionIInv, ApplyBinary PROVE ExpressionIInv'
  OBVIOUS
<1>1. size < MaxNodes
  BY DEF ApplyBinary, Building
<1>2. PICK p \in Pairs, op \in Operators :
        /\ IsArithmetic(p[1]) /\ IsArithmetic(p[2])
        /\ NodeBecomes(BinaryNode(op, Promoted(p[1].type, p[2].type), p), 1)
  BY DEF ApplyBinary
<1>3. PICK a \in TreesUpTo[size - 1], b \in TreesUpTo[size - 1] : p = <<a, b>>
  BY <1>1, <1>2, Operands
<1>4. Promoted(p[1].type, p[2].type) \in Types
  BY <1>2, Arithmetic, PromotedType DEF ArithmeticIsType
<1>5. BinaryNode(op, Promoted(p[1].type, p[2].type), p) \in NodesOver(TreesUpTo[size - 1])
  BY <1>2, <1>3, <1>4, TwoOver DEF BinaryNode
<1> QED
  BY <1>1, <1>2, <1>5, NodeStep

LEMMA ConcatenateIInv == ExpressionIInv /\ Concatenate => ExpressionIInv'
<1> SUFFICES ASSUME ExpressionIInv, Concatenate PROVE ExpressionIInv'
  OBVIOUS
<1>1. size < MaxNodes
  BY DEF Concatenate, Building
<1>2. PICK p \in Pairs : NodeBecomes(BinaryNode("||", "string", p), 1)
  BY DEF Concatenate
<1>3. PICK a \in TreesUpTo[size - 1], b \in TreesUpTo[size - 1] : p = <<a, b>>
  BY <1>1, Operands
<1>4. "string" \in Types
  BY DEF Types
<1>5. BinaryNode("||", "string", p) \in NodesOver(TreesUpTo[size - 1])
  BY <1>3, <1>4, TwoOver DEF BinaryNode
<1> QED
  BY <1>1, <1>2, <1>5, NodeStep

LEMMA CallFunctionIInv == ExpressionIInv /\ CallFunction => ExpressionIInv'
<1> SUFFICES ASSUME ExpressionIInv, CallFunction PROVE ExpressionIInv'
  OBVIOUS
<1>1. size < MaxNodes
  BY DEF CallFunction, Building
<1>2. node \in TreesUpTo[size - 1]
  BY <1>1, Operands
<1>3. "string" \in Types /\ "uint64" \in Types
  BY DEF Types, ArithmeticTypes, IntegralTypes
<1>4. ASSUME NEW f \in {"upper", "length", "abs", "coalesce"}, NEW t \in Types, Call1(f, t)
      PROVE  ExpressionIInv'
  <2>1. CallNode(f, t, <<node>>) \in NodesOver(TreesUpTo[size - 1])
    BY <1>2, OneOver DEF CallNode
  <2>2. NodeBecomes(CallNode(f, t, <<node>>), 1)
    BY <1>4 DEF Call1
  <2> QED
    BY <1>1, <2>1, <2>2, NodeStep
<1>5. CASE node.type = "string" /\ (Call1("upper", "string") \/ Call1("length", "uint64"))
  BY <1>3, <1>4, <1>5
<1>6. CASE IsArithmetic(node) /\ Call1("abs", node.type)
  <2>1. node.type \in Types
    BY <1>6, Arithmetic DEF ArithmeticIsType
  <2> QED
    BY <1>4, <1>6, <2>1
<1>7. CASE \E p \in Pairs : /\ IsArithmetic(p[1]) /\ IsArithmetic(p[2])
                            /\ NodeBecomes(CallNode("coalesce", Promoted(p[1].type, p[2].type), p), 1)
  <2>1. PICK p \in Pairs : /\ IsArithmetic(p[1]) /\ IsArithmetic(p[2])
                           /\ NodeBecomes(CallNode("coalesce", Promoted(p[1].type, p[2].type), p), 1)
    BY <1>7
  <2>2. PICK a \in TreesUpTo[size - 1], b \in TreesUpTo[size - 1] : p = <<a, b>>
    BY <1>1, Operands
  <2>3. Promoted(p[1].type, p[2].type) \in Types
    BY <2>1, Arithmetic, PromotedType DEF ArithmeticIsType
  <2>4. CallNode("coalesce", Promoted(p[1].type, p[2].type), p) \in NodesOver(TreesUpTo[size - 1])
    BY <2>2, <2>3, TwoOver DEF CallNode
  <2> QED
    BY <1>1, <2>1, <2>4, NodeStep
<1> QED
  BY <1>5, <1>6, <1>7 DEF CallFunction

LEMMA CompareIInv == ExpressionIInv /\ Compare => ExpressionIInv'
<1> SUFFICES ASSUME ExpressionIInv, Compare PROVE ExpressionIInv'
  OBVIOUS
<1>1. size < MaxNodes
  BY DEF Compare, Building
<1>2. node \in TreesUpTo[size - 1] /\ Leaves \subseteq TreesUpTo[size - 1] /\ "string" \in Types
  BY <1>1, Operands DEF Types
<1>3. ASSUME NEW x \in Leaves, NEW op \in Relations \cup {"LIKE"}, ClauseBecomes(RelationalNode(op, <<node, x>>), 1)
      PROVE  ExpressionIInv'
  <2>1. RelationalNode(op, <<node, x>>) \in NodesOver(TreesUpTo[size - 1])
    BY <1>2, TwoOver DEF RelationalNode
  <2> QED
    BY <1>1, <1>3, <2>1, ClauseStep
<1>4. CASE \E x \in Leaves, op \in Relations : /\ IsArithmetic(node) <=> IsArithmetic(x)
                                               /\ ClauseBecomes(RelationalNode(op, <<node, x>>), 1)
  BY <1>3, <1>4
<1>5. CASE \E v \in DOMAIN LiteralType : /\ node.type = "string" /\ LiteralType[v] = "string"
                                         /\ ClauseBecomes(RelationalNode("LIKE", <<node, LiteralNode(v)>>), 1)
  <2>1. PICK v \in DOMAIN LiteralType : ClauseBecomes(RelationalNode("LIKE", <<node, LiteralNode(v)>>), 1)
    BY <1>5
  <2>2. LiteralNode(v) \in Leaves
    BY DEF Leaves, LiteralNodes
  <2> QED
    BY <1>3, <2>1, <2>2
<1>6. CASE \E op \in {"IS NULL", "IS NOT NULL"} :
             /\ node \in Columns
             /\ ClauseBecomes(RelationalNode(op, <<node, NullNode(node.type)>>), 1)
  <2>1. PICK op \in {"IS NULL", "IS NOT NULL"} :
          /\ node \in Columns
          /\ ClauseBecomes(RelationalNode(op, <<node, NullNode(node.type)>>), 1)
    BY <1>6
  <2>2. node.type \in Types
    BY <2>1, LeavesLow DEF Leaves
  <2>3. RelationalNode(op, <<node, NullNode(node.type)>>) \in NodesOver(TreesUpTo[size - 1])
    BY <1>2, <2>2, NullOver DEF RelationalNode
  <2> QED
    BY <1>1, <2>1, <2>3, ClauseStep
<1> QED
  BY <1>4, <1>5, <1>6 DEF Compare

LEMMA CombineClausesIInv == ExpressionIInv /\ CombineClauses => ExpressionIInv'
<1> SUFFICES ASSUME ExpressionIInv, CombineClauses PROVE ExpressionIInv'
  OBVIOUS
<1>1. size < MaxNodes /\ clause # NoNode
  BY DEF CombineClauses
<1>2. clause \in TreesUpTo[size - 1] /\ size >= 2 /\ "string" \in Types
  BY <1>1 DEF ExpressionIInv, Types
<1>3. CASE ClauseBecomes(NotNode(clause), 1)
  <2>1. NotNode(clause) \in NodesOver(TreesUpTo[size - 1])
    BY <1>2, OneOver DEF NotNode
  <2> QED
    BY <1>1, <1>3, <2>1, ClauseStep
<1>4. ASSUME NEW op \in {"AND", "OR"}, NEW c \in Columns, NEW v \in DOMAIN LiteralType,
             \/ ClauseBecomes(ConditionalNode(op, <<clause, RelationalNode("=", <<c, LiteralNode(v)>>)>>), 1)
             \/ ClauseBecomes(ConditionalNode(op, <<RelationalNode("=", <<c, LiteralNode(v)>>), clause>>), 1)
      PROVE  ExpressionIInv'
  <2> DEFINE other == RelationalNode("=", <<c, LiteralNode(v)>>)
  <2>1. MaxNodes \in Nat /\ 0 \in 0 .. MaxNodes - 1 /\ 0 \in 0..MaxNodes /\ size - 1 \in 1..MaxNodes /\ 0 + 1 = 1
    BY <1>1, <1>2, LevelsAre DEF ExpressionIInv
  <2>2. c \in TreesUpTo[0] /\ LiteralNode(v) \in TreesUpTo[0]
    <3>1. c \in Leaves /\ LiteralNode(v) \in Leaves
      BY DEF Leaves, LiteralNodes
    <3> QED
      BY <2>1, <3>1, LeavesLow
  <2>3. other \in NodesOver(TreesUpTo[0])
    BY <1>2, <2>2, TwoOver DEF RelationalNode
  <2>4. other \in TreesUpTo[1]
    BY <2>1, <2>3, LevelUp
  <2>5. other \in TreesUpTo[size - 1]
    BY <2>1, <2>4, LevelFrom
  <2> HIDE DEF other
  <2>6. /\ ConditionalNode(op, <<clause, other>>) \in NodesOver(TreesUpTo[size - 1])
        /\ ConditionalNode(op, <<other, clause>>) \in NodesOver(TreesUpTo[size - 1])
    BY <1>2, <2>5, TwoOver DEF ConditionalNode
  <2>7. ClauseBecomes(ConditionalNode(op, <<clause, other>>), 1) \/ ClauseBecomes(ConditionalNode(op, <<other, clause>>), 1)
    BY <1>4 DEF other
  <2> QED
    BY <1>1, <2>6, <2>7, ClauseStep
<1> QED
  BY <1>3, <1>4 DEF CombineClauses

LEMMA AssignIInv == ExpressionIInv /\ Assign => ExpressionIInv'
<1> SUFFICES ASSUME ExpressionIInv, Assign PROVE ExpressionIInv'
  OBVIOUS
<1>1. PICK c \in Columns : sets' = <<<<c.op, node>>>> /\ node' = c
  BY DEF Assign
<1>2. clause' = clause /\ size' = size
  BY DEF Assign
<1>3. size - 1 \in 0..MaxNodes /\ node \in TreesUpTo[size - 1]
  BY LevelsAre DEF ExpressionIInv
<1>4. node' \in TreesUpTo[size' - 1]
  <2>1. c \in Leaves
    BY DEF Leaves
  <2> QED
    BY <1>1, <1>2, <1>3, <2>1, LeavesLow
<1>5. c.op \in DOMAIN ColumnType
  <2>1. PICK x \in DOMAIN ColumnType : c = ColumnNode(x)
    BY DEF Columns
  <2>2. \A kind, op, type, args : Node(kind, op, type, args).op = op
    BY DEF Node
  <2>3. ColumnNode(x).op = x
    BY DEF ColumnNode, Node
  <2> QED
    BY <2>1, <2>3
<1>6. SetsLow(sets', size' - 1)
  <2> DEFINE s == <<<<c.op, node>>>>
  <2>1. DOMAIN s = {1} /\ s[1][2] = node
    OBVIOUS
  <2>2. node \in {s[i][2] : i \in DOMAIN s}
    BY <2>1
  <2>3. SetsLow(s, size - 1)
    BY <1>3, <1>5, <2>2 DEF SetsLow
  <2> QED
    BY <1>1, <1>2, <2>3
<1>7. size' \in 1..(MaxNodes + 1) /\ (clause' = NoNode \/ (clause' \in TreesUpTo[size' - 1] /\ size' >= 2))
  BY <1>2 DEF ExpressionIInv
<1> QED
  BY <1>4, <1>6, <1>7 DEF ExpressionIInv, SetsLow

LEMMA OthersIInv == ExpressionIInv /\ (Ref \/ UNCHANGED expressionVars) => ExpressionIInv'
<1> SUFFICES ASSUME ExpressionIInv, Ref \/ UNCHANGED expressionVars PROVE ExpressionIInv'
  OBVIOUS
<1>1. node' = node /\ clause' = clause /\ sets' = sets /\ size' = size
  BY DEF Ref, expressionVars
<1> QED
  BY <1>1 DEF ExpressionIInv

(* No tree is higher than it has nodes, so every expression of a statement *)
(* is one of the trees that literals and text are defined for.             *)
THEOREM ExpressionInvariant == ExpressionSpec => []ExpressionIInv
<1>1. ExpressionIInv /\ [ExpressionNext]_expressionVars => ExpressionIInv'
  BY ApplyUnaryIInv, CastToIInv, ApplyBinaryIInv, ConcatenateIInv, CallFunctionIInv, CompareIInv,
     CombineClausesIInv, AssignIInv, OthersIInv DEF ExpressionNext
<1> QED
  BY InitIInv, <1>1, PTL DEF ExpressionSpec

(* A statement binds every literal where it belongs, as if each of its     *)
(* expressions were bound alone, however deep they are; and its brackets   *)
(* match.                                                                  *)
THEOREM StatementsBind == ExpressionSpec => []StatementBinds
<1>1. ExpressionIInv => StatementBinds
  BY StatementsGood
<1> QED
  BY <1>1, ExpressionInvariant, PTL
=============================================================================
