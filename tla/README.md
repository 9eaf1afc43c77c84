# Formal model of metacpp

metacpp is a C++ library with reflection (MetaObject), implicitly shared value
types (String, Array, Variant, DateTime), an object-relational mapping over
SQLite, MySQL and PostgreSQL, JSON serialisation and JavaScript bindings over
SpiderMonkey. This directory holds TLA+ modules of its stateful parts, TLC
configurations that check them, and TLAPS proofs. `PROJECT.json` relates every
definition to the source lines it models, lists the runs, and lists the hazards
of the code with the properties that cover them.

## 1. Inventory

| Component | State it keeps | Operations | Who it talks to | What is hard |
|---|---|---|---|---|
| Connection pool (`db/sql/connectors/*Connector.cpp`) | `m_freeDbHandles`, `m_usedDbHandles`, `m_transactions`, `m_connected`, `m_poolSize`; two mutexes, one condition variable | `setConnectionPooling`, `connect`, `disconnect`, `createTransaction`, `closeTransaction` | called by SqlTransaction; owns the database handles | each operation has two critical sections under different mutexes; waiting for a free handle; `connect` failing half-way |
| SqlTransaction | `m_impl`, `m_autoCloseMode`, `m_transactionStarted` | constructor, `begin`, `commit`, `rollback`, destructor | the pool and the backend's TransactionImpl | a backend error at every step, also in constructor and destructor; nesting |
| Statements, result sets, iterators | the implementation object, the literals, the row cursor | `exec`, `bind`, `fetchNext`, `begin`/`end`, `++` | SqlTransaction, backend StatementImpl | reuse of a statement, lifetimes, three backends that differ |
| Java Script thread | `m_bRunning`, `m_bTerminating`, `m_exception`, `m_runtime`, `m_registeredClasses`; one mutex, one condition variable | `run`, `abort`, `wait`, `running`, destructor | SpiderMonkey; the threads of the program | flags reset outside the mutex; abort racing start, end and clean-up; exceptions around the script |
| Shared data | an atomic count per data object, `m_d` per pointer | copy, assign, detach, clear, access | every value type | counting between threads, detach then write, references kept |
| Schema creation (SqlStorable) | the database schema | `createSchema` per backend | Statements, SqlTransaction | several requests, one of them failing; three dialects; names shared between tables |
| Expression trees | none | operators build nodes; render to SQL, collect literals | Statements | precedence and brackets, order of literals against placeholders |
| Array, String, string streams | a buffer of cells, counts, a terminator | insert, erase, resize, append, search, replace, read and write | everything | overlapping ranges, arguments inside the buffer, spare cells, growth |
| Codecs (urlencode, string_cast, Uri), DateTime, Variant | values | conversions, calendar arithmetic | everything | inverses, boundaries, shared data normalised by a read |
| Reflection | lazily built tables of fields and methods; an object's fields and dynamic properties | look-up, invocation, construction, properties | JSON, SQL, scripts | initialisation by several threads, choice among overloads |
| JSON | the visitor's place | serialise, deserialise | Reflection | round trip, a text that goes wrong half-way |
| Native objects in scripts | owner of each script object | construct, call, get, set, finalize | Java Script thread, Reflection, Variant | who deletes an object that passes through a call |

What makes each correct:

* Pool: a handle serves one transaction at a time; no handle is lost or made by
  the critical sections; nobody sleeps while a handle is free; `disconnect`
  never closes a handle in use.
* SqlTransaction: a connection never goes back to the pool inside a block; the
  object knows whether it has a block; the destructor throws only because of
  the database; everybody gets a turn.
* Script thread: one script at a time; `abort` and `wait` tell the truth and
  return; an abort stops the script; an exception reported is that of this run.
* Shared data: counts are exact; data is deleted once and never while in use;
  sharing is invisible to the user of a value.
* Statements: each row is delivered once and in order; the literals bound are
  those of the placeholders; nothing outlives its transaction.
* Schema: a table createSchema returns for is complete, before and after a
  commit. Expressions: the database reads the tree the program built, with the
  same literals in the same places.
* Values: a call does what it says to the contents and to nothing else,
  whatever the buffer, its sharing and its history; conversions have inverses.
* Reflection: tables are complete for whoever looks; a call reaches the closest
  method that takes its arguments. JSON restores what was written.
* Scripts: a native object has one owner until it is deleted, once.

The components of `PROJECT.json` list every part with its status and reason.

## 2. Modules and how they correspond to the code

| Module | Models | Composes |
|---|---|---|
| `HandleLease` | what a connector promises: exclusive leases of handles from a set that is opened and closed as a whole | |
| `ConnectionPool` | the algorithm common to the three connectors; one action per critical section | implements `HandleLease` |
| `SqlTransaction` | SqlTransaction objects and the database's answers | extends `ConnectionPool`; its actions *are* pool actions plus what the object does |
| `ScriptThread` | one JSScriptThread with any number of threads in `run`, `abort`, `wait` | |
| `ValueSemantics` | variables that each have a value of their own | |
| `SharedData` | SharedDataPointer over SharedDataBase; one action per access to a count or to the data | implements `ValueSemantics` |
| `Statements` | the statements of one transaction, their implementation objects, result sets and row cursors in each of the three backends | |
| `Schema` | `createSchema` in three dialects, request by request, and the database's tables and indices | |
| `Expressions` | nodes, their operators, their text in three syntaxes, update and delete statements | |
| `SqlReader` | external: what a database makes of such a text, for the property `TextMeansTree` | extends `Expressions` |
| `ArrayData`, `Arrays` | the buffer (operators); one Array over it | |
| `Strings`, `StringStreams` | String over the same buffer; the stream buffer over a String | extend `ArrayData`, `Strings` |
| `Codecs` | urlencode and urldecode, string_cast, Uri | |
| `DateTimes` | two DateTimes that may share data, with a calendar | |
| `Variants` | values with types and their conversions (operators) | |
| `MetaObjects` | threads that prepare, search and call through the tables of a class | extends `Variants` |
| `Objects` | an object's fields through init, setProperty, toJson, fromJson | extends `Variants` |
| `ScriptObjects` | native objects, script objects and who owns which | |
| `SqlTransactionProofs`, `SharedDataProofs`, `StatementsProofs`, `SchemaProofs`, `ReflectionProofs`, `ScriptProofs`, `ValuesProofs`, `StringsProofs` | the theorems | extend the modules they are about; `SqlTransactionProofs` has those of the pool, too, `ReflectionProofs` those of `MetaObjects` and `Objects`, `ScriptProofs` those of `ScriptThread` and `ScriptObjects`, `StatementsProofs` those of `Statements` and `Expressions`, `ValuesProofs` those of `Arrays`, `StringStreams` and `DateTimes`, and the lemmas about buffers that `StringsProofs` uses, `StringsProofs` those of `Strings` and `Codecs` |
| `MC*` | instances for TLC: symmetry sets, owners of objects; `MCReflection`, `MCStatements`, `MCValues` and `MCScriptObjects` also put components that share nothing side by side: a behaviour picks one of them and leaves the others as they began | |

Names of variables and actions follow the source; each VARIABLE has the member
it stands for next to it. Definitions that a comment starts with `Mutant:` are
variants of an action with a plausible bug; no specification uses them.

**ConnectionPool.** The two handle lists are sets (`Exclusive` justifies it). The
registered transaction implementation is identified with the SqlTransaction it
was made for. A lock, its section and the unlock are one action, `wait` on the
condition variable ends a section. The guard of `CloseReturn` is the code's
search in `m_usedDbHandles`; `CloseFindsHandle` says that it never fails. The
owner may call `setConnectionPooling`, `connect` and `disconnect` at any time;
clients start only behind a successful `connect`, as in all tests. `NDebug`
says whether `assert` is compiled out.

**SqlTransaction.** `ExecBegin` and `ExecEnd` are the database: it rejects what
its rules reject (`BlocksNest`: SQLite refuses BEGIN inside a block and COMMIT
outside, the other two warn), and at most `MaxFaults` statements for reasons of
its own; a rejected COMMIT may or may not leave the block open. `Terminate` is
an exception leaving a destructor.

**ScriptThread.** A runner is a thread inside `run()`. `Start` is the section
with the compare-exchange, `ClearRunning` and `Notify` are the two
unsynchronised statements at its end, `Return` is the rest of the function with
the deleters of the local smart pointers. SpiderMonkey is external: a runtime
with an interrupt request calls `interruptCallback` while a script executes
(`Poll`), and a request on a runtime destroyed meanwhile has no effect (in C++
it is undefined). What a script leaves is any value, also when it fails;
`unfit` remembers the runs whose value fromValue refused in `Return`. `joined` is
a history variable: every run so far began when no other call was in progress.
`Careful` restricts the program to that. A caller between calls holds no
arguments and no result (`NoCall`).

**SharedData.** A pointer object is used by one thread at a time, but several
may copy it at once (`Unread` is the rule that nobody changes what is being
copied). The clone made by detach is known to its thread only. `WriteThrough`
is a write through a reference obtained before. Move construction is left out:
every derived class declares a copy operation or a destructor, so the implicit
moves do not exist.

**Statements.** An action is a call of the program; every request in it may be
rejected. A `SharedObjectPointer` is modelled by who holds an implementation
object: `impl` (the statement) and `results` (the result set, identified with
the object exec made for it). `where()` is part of the execution that follows
it, which therefore picks its clause. The three `fetchNext()` are one family of
actions (`FetchRow`, `FetchEnd`, `FetchThrow`) guarded by `backend`; `executed`
is MySQL's `m_executed` and PostgreSQL's `m_execResult`, `row` and `size` its
cursor, `stuck` a SQLite handle nobody resets or a MySQL result that is gone.
The server is external: PostgreSQL refuses the rest of a block after an error
(`poisoned`) and answers its COMMIT with a rollback; a MySQL connection refuses
everything while rows are unread (`busy`), and closing another prepared
statement discards them (`Cancels`). `record`, `stale`, `applied`, `durable`,
`reported` and `threw` are history variables.

**Schema.** A storable is given by the fields of its class and its constraints.
An action is one request (CREATE TABLE, an index) with its answer, so that a
failure, a commit or a rollback may come between any two. The database is
external: what exists already is skipped (`IF NOT EXISTS`) or, on MySQL,
refused, which createSchema takes for success; MySQL commits before and after
each such request; PostgreSQL rejects the rest of a block. `SchemaAsDeclared`
is about every table for which createSchema has returned without an exception:
it has the columns of its class, wide enough for the fields, and the indices
declared for it, also in what a commit has stored. It leaves out tables that
existed before, a CREATE TABLE whose failure MySQL's connector swallowed, and
indices whose name another constraint has taken; 64-bit unsigned fields do not
fit a column of SQLite or PostgreSQL.

**Expressions.** Nodes are records built by the actions that stand for the
overloaded operators, and `Trees` is what they build with up to `MaxNodes` levels
of nodes. `Text` and `Literals`, the walker, are functions on these trees; a text is
a sequence of tokens in which only what decides the reading is kept. `Bound` is
the server's placement of literals and `Read` (in `SqlReader`) an SQL parser by
precedence: they are not code of metacpp but what its texts are compared by.
`StatementBinds` binds a statement as a whole and each of its expressions alone,
`TextMeansTree` reads an expression back. Left out of the first are exclusive ors
over literals (`Repeats`), of the second also the other trees of section 5
(`Misread`).

**Arrays, Strings, StringStreams.** A buffer is its cells, allocated or in use:
cells that malloc or a freed buffer leave are `Junk`, default constructed ones
`Blank`. Growth, `realloc` and the forward `std::copy` are the code's. Every call
is an action over a buffer that may be shared with a copy; `arrayCall` and
`stringCall` remember what the call promises, and the cases in which the code is
known to leave its promise: `arrayCall.known` is what it leaves instead, so that
`ArrayAsDocumented` excepts these contents only. A stream keeps offsets for the six
pointers of `std::streambuf`, and `tape` is what it should amount to.

**Codecs, DateTimes.** A codec behaviour converts a text and converts it back;
`origin` is where it started. `CutShort` is the Uris whose text cannot be read
back because a part holds a character that ends it, one disjunct for each search
of `parseUri`; on the instance it is exact, no other Uri fails and each of these
does. For string_cast a character is its two sizes, and the buffer grows until
`Fitting`, which is iconv, has taken all of it.
A DateTime has the fields of `struct tm`; setters print and parse, adders go
through `mktime` and `localtime`, which are external and modelled with a zone
that has summer time. The seconds to add are an `int`, as in the code: `AsInt`
wraps a product that does not fit, and `TimeArithmetic` names these numbers among
its exceptions.

**MetaObjects.** `step` is where each thread is in `prepare()`; the tables
(`fieldTable`, `methodTable`) are filled descriptor by descriptor under the lock
with pointers, the i-th member of the n-th class of the chain, and `reached` is how
many descriptors the holder of the lock has been through. `Sort` takes any
order that `std::sort` may leave. A call then takes the first method of the table that
fits by kind, name, count and constness and whose arguments convert (`Variants`);
`std::find_if` and `std::lower_bound` are the first entry that is wanted (`First`).

**Objects.** The values of the fields of one object of each kind of field
(nullable, enumeration, array, array of Variants, nested object, Variant). `toJson` and
`fromJson` take them one by one and stop at the first that fails; what that leaves behind
(`Dirty`) is where further calls start. A Variant with an array is written as an
array (`WrittenVariant`), also when it is an element of a field that is an array of
Variants; the array's own elements must be neither arrays nor empty. Numbers are stored as twice their value,
and `Width` bits make an `int`, so that wrapping and cut fractions occur.

**ScriptObjects.** `ownership` says whether the collector or a Variant deletes
the native a script object wraps. A native method does not call back into the
script, so a call is one action; the collector (`NativeObjectFinalize`) comes
between any two. `departed` collects the natives whose ownership a call got
wrong; `OneOwner` is about all the others.

## 3. Runs

| Run | Instance | Shows |
|---|---|---|
| `pool` | 4 handles, 4 clients, pool size up to 3, 2 failing connects, assertions on | exclusive leases, exact search in `closeTransaction`, no lost wakeup, no lost connection, refinement of `HandleLease`. As parts of the run: 4 calls on an object with 7 fields, 2 threads and a class with a base |
| `transactions` | 2 threads, 2 handles, 3 close modes, SQLite's rules, rejected statements | no connection returned inside a block (automatic modes), `m_transactionStarted` is right, the destructor throws only after a fault. As parts of the run: arrays, strings and streams of up to 4 elements, texts of codecs up to 3 characters and Uris of 7 parts, 2 calls on a time |
| `workers` | 3 threads, one with a second object, 2 handles | every thread finishes, when the pool is larger than the number of inner objects; below that bound the deadlock the header warns of is reachable and excluded from the property |
| `script_thread` | 2 runners (one on the engine's main thread), 2 callers, 2 starts, no discipline | one script at a time; true answers; the properties of programs that join. As a part of the run: the native objects of one script |
| `script_abort` | 2 runners, 1 caller, 3 starts, fairness | calls with a timeout return; an unlimited abort ends the script |
| `values` | 3 pointers, 4 data, 2 values | exact counts, private writes, refinement of `ValueSemantics` |
| `statements` | a select, an insert, an update, a delete; 3 implementation objects, 2 clauses, 2 rows, one rejected call, each backend | objects are closed when the last holder lets go; rows arrive once and in order; the end is final and means all; which statements bind stale literals; what commit has stored. As parts of the run: schemas of related tables, one of which may exist, and expressions of up to 3 nodes |
| `disconnect_race`, `ctor_leak`, `lost_wakeup`, `stuck_running`, `early_join` | small | disagreements, section 5 |

Bounds. Two clients and one handle already give every pair of critical sections
in every order; three clients and two handles add the case where a notification
wakes a client that finds nothing (`WakeAgain`) and the fourth of each the
surplus after a failed `connect`. Two runners and two starts give a run that
starts while another unwinds. Three pointers give a copy, an assignment and a
detach of the same data at once; four data are needed because a detach holds
two. `MaxPool` is 10 in the code; nothing depends on the number but the test of
the range. Statements: three implementation objects are one held by a statement,
one by a result set only, and the next one; two clauses are needed to tell a
stale literal from a repeated one; two rows give a first, a last and a middle
position; one rejected call at any request, which on PostgreSQL brings the
refusal of all that follow. Components that share nothing are parts of one run, so that their states add up
instead of multiplying. Arrays and texts of 4 with two elements pass every
growth of a buffer (by two and a half) and every overlap; the stream begins with
room for 2 so that it overflows twice. Two calls on a DateTime are an adder
after a setter that left a day the month does not have; the months cross the
ends of years and both changes of summer time, around the leap years 2000 and
2004 and the common year 1999; `MaxInt` is 2^25 - 1, so that 400 days overflow (on a 32-bit
`int` 24856 do). `Width` is 3: an `int` holds -4..3, and the
values given to fields lie on both sides of its bounds. Two threads are every
pair that race for a class's tables; the class and its base overload a method,
a static method and a constructor and hide a field. Counters (`failures`, `faults`, `starts`, `left`) exist to bound the
runs and are named constants; the proofs hold for any values of them.

Fairness. Workers: weak fairness on each thread's steps and on the owner's
`connect` - the operating system schedules every thread that can run, and the
condition variable uses `notify_all`. Script thread: weak fairness on every step
except the end of a script (`FiniteSpec` adds it) and a start; strong fairness
on the expiry of a timed sleep, because `wait_for` uses an absolute deadline
which spurious wakeups do not move. `std::mutex` promises no fairness, so the
liveness runs of the script thread have one caller.

Deadlock checking is off in all runs: a program that has used up its bounds, or
has ended, stops.

## 4. Proofs

All theorems hold for every number of handles, threads, objects and data, and
those of the values for every length, content, instant and argument.

* `SqlTransactionProofs`, the pool: `PoolIInv` is inductive. `Exclusive` alone is
  not: it relates three variables written in different critical sections, and
  needs that a client has a handle exactly while it is in the lists and that
  nobody is a client before `connect`. From it `PoolExclusive`,
  `CloseNeverThrows`, `WakeupsDelivered`; and, under `~NDebug`, step simulation of
  `HandleLease`. `ConnectionsConserved` speaks of `connected` only, so it needs
  what `connect` has opened while it is still at work: `Counted` says that
  nothing is used until then and that the free list has at least, and without a
  failed attempt exactly, what this attempt opened.
* `SqlTransactionProofs`, the objects: every step is a pool step or leaves the
  pool alone (`UsesPool`), so that the pool's invariant carries over; `IInv` adds
  where an object is in its life relative to the pool (`PhaseMatchesPool`) and
  who owns an open block (`BlockOwned`). `TerminatesOnlyByFault` needs the
  converse of `BlockOwned`: as long as the database has rejected nothing, an
  object that has started a block finds it open (`StartedMeansBlock`), in manual
  mode too, where SQLite would otherwise refuse the COMMIT of the destructor.
  Both servers' rules (`BlocksNest`) are covered.
* `ScriptProofs`, the thread: `IInv` is inductive because only the active runner
  resets `m_bRunning`; `JoinSound` needs `OneScript`, since `abort` and `wait`
  look at the flag only. `OutcomeIsOwn`, `ClassesFollowRun` and
  `TerminatedByAbort` are about programs that join: they rest on `JoinedInv`,
  whose parts say that one run is in progress (`OneRun`), that `m_exception` is
  its error until `run` has read it (`ErrorKept`; it may still report instead that
  the value left cannot be converted, `unfit`), and that `m_bTerminating` is
  only set while an `abort` is under way which has found the active run
  (`AbortSeen`). Programs that do not join break all three properties.
* `SharedDataProofs`: `IInv` has the exact count, its consequences and the
  private state of each operation; the lemmas say what a step that adds,
  removes, makes or deletes does to the count, whatever operation it belongs
  to. `SharingInvisible` is the refinement, for programs that use references
  only until the object is copied (`~HeldReferences`).

* `StatementsProofs`: `IInv` joins three parts because none is inductive alone:
  that a closed object is one nobody reads needs `Owned`; that closing or
  executing leaves other cursors alone needs `OneReader` (on MySQL the object
  whose rows are discarded is exactly the one that reads); and the rows
  delivered need the flags, which `CursorOK` ties to them. `OneObject` reduces a
  step to the object it moves and `CreateKeeps` every kind of execution to
  createImpl(). From it `RowsInOrder`, `EndDeliversAll`, `IteratorEnds`,
  `StaleLiterals` (longer than its own clause means surplus, which SQLite and
  PostgreSQL reject) and `CommitIsDurable`.

* `SchemaProofs`: `SchemaDeclared` rests on `SchemaInv`, which adds to the
  property what createSchema has done so far in a call (`InProgress`: the table
  and the indices before the one that comes next) and the same for the schema
  that a rollback goes back to; without the second a rollback after a partial
  commit could not be argued. `WideEnough` is the arithmetic of the column
  types against the fields of the class, `DeclarationsStay` that no request
  takes from a table what it has. `MySqlSchemaIsStored` follows: on MySQL
  nothing createSchema made waits for a commit. Assumption: `SchemaAssumption`.
* `StatementsProofs`, expressions: `ExpressionIInv` says that the expression and the
  clause so far, and each assigned one, are trees on a level below their number of
  nodes. Without the number they would outgrow `Trees`, on which the walker is
  defined. That the walker's functions satisfy their equations (`LevelsAre`,
  `LiteralsAre`, `TextAre`) and that every tree binds (`TreesBindable`) are inductions
  on levels. What is carried up is `GoodText(ts, k, ls, out)`: the text, written when k
  literals came before it, becomes `out` when the literals behind the k-th are `ls`,
  whatever else the statement has; its slots use each of `ls`, and its brackets match.
  It survives joining two texts when the second is written after the literals of
  the first (`GoodJoins`): on PostgreSQL because slots carry their numbers, elsewhere
  because a slot's rank is one more than the slots to its left (`RanksJoin`), which is
  where a `Repeats` tree fails, having more slots than literals. `StatementsGood` joins
  the assignment and the clause, and for k = 0 the relation is `Bound`
  (`GoodIsBound`). From it `StatementsBind`. Assumption: `ExpressionAssumption`,
  columns, literals and casts have types that metacpp knows, and the relations are its
  own.
* `ReflectionProofs`, classes: `PrepareInv` ties the flag, the lock and the tables. That
  a raised flag means complete tables is not inductive without what the holder
  of the lock has gathered (`Building`), and that a thread which saw the flag
  down outside looks again inside the lock: with the second look dropped it
  would fill full tables again. From it `TablesComplete` and `TablesStay` (a
  prepared class never changes). `Built` also keeps the order: methods in the order of the
  chain, fields by offset whatever permutation the sort chose. With it
  `CallsReachTheClosest`: the first entry that fits is the one of the closest class
  (`FirstTaker`, on `LeastNatural`), arguments bind exactly when each converts
  (`UnpackedMeans`), and only a Variant without data makes a conversion throw
  anything but `invalid_argument` (`CastErrors`). Assumptions: `ChainAssumption`, the
  classes and their lists of members end; `ArgumentAssumption`, arguments are values;
  `OffsetAssumption`, two members of an object do not begin at one place.
* `ReflectionProofs`, objects: that a text is read back needs that the number in
  a field fits the field's type, so `JsonIInv` says that every field holds a value of its
  type (`FieldHolds`), and keeps it so through a reading that an exception ends
  in the middle of an array (`DirtyHolds`) and through conversions that wrap
  (`WrappedInRange`, `CastsTyped`); besides, that a text is what was written of an
  object that was so. `FieldRestored` is the round trip of one field, on those of a
  leaf (`LeafRead`), an enumeration and an array (`ElementsRead`, `ArrayRead`);
  that of a Variant (`VariantRead`) serves a field and an element of an array alike.
  `FieldTakenBack` the one of getProperty and setProperty. From them
  `JsonIsFaithful`. Assumptions: `WidthAssumption`, integral types have values, zero
  among them (the prover knows nothing of powers of two); `FieldAssumption`, a
  class has a list of fields of the types the visitors know, with defaults of these types;
  `EnumAssumption` and `InputAssumption`: values of the enumeration fit an
  `uint`, fields are given values of their types, and texts written by somebody
  else are JSON without arrays in arrays (those that toJson writes may have them).
* `ScriptProofs`, native objects: `OwnerInv` says that a native is wrapped at most once
  by a script object that owns it, unless a call has misplaced it (`departed`),
  that no script object is left of one that was deleted, and that the value of
  the script has passed to its Variant. `OneOwner` counts owners; that the count
  stays at one needs `WrappedOnce` for wrappers that own nothing, too. From it
  `OwnedOnce` and `NoUseAfterDelete`. Assumption: `NativeAssumption`.

* `ValuesProofs`, arrays: every operation of the buffer, growth and the forward
  `std::copy` of overlapping ranges included, has a lemma that says which cells
  it leaves where. `ArrayIInv` is that the buffer is well-formed (`IsBuffer`:
  what is in use is allocated) besides the property, because a call
  starts from whatever stale cells the ones before left. From it `ArrayHolds`,
  with the five exceptions that `ArrayAsDocumented` names.
  Assumption: `ArrayAssumption`.
* `ValuesProofs`, streams: `StreamIsTape` looks at the text after a
  synchronisation. `HoldsTape` says the same of the buffer as it is between two:
  the end of the text is the further of the two areas' ends, and every cell up
  to it is the tape's. From it `StreamsAreTapes`. Assumptions:
  `StringAssumption`, `StreamAssumption`.
* `StringsProofs`: the loops of the code (comparing, `replace`, `split`, `join`)
  are recursive functions of a position, and so are the definitions they are
  compared with. That such a function exists is `Unfolds`, going down from the end
  of the text, or `Iterates`, going up; what it computes is an induction of the
  same shape (`DownTo`, `Up`). `ReplaceSubstitutes` matches the jumps of `replace`
  from find to find with a reading of character after character: where nothing
  stands at a position, the search from the next one finds the same
  (`SearchOn`). `SplitMakes` and `PartsMake` carry the partial joins of the
  pieces that `split` and `replace` find (`Makes`), and `BuiltHolds` the data on
  which they are appended.
  The lemmas named after an operation say which text its result holds, whatever
  the cells behind it; `StringIInv` is that the data is well-formed (`IsString`)
  besides the property. From it `StringsHoldTheirText`. Assumption:
  `StringAssumption`: the null character is none of `Char`, `NoString` no data.
* `StringsProofs`, codecs: a writer puts one piece behind the other (`Writing`,
  from the last piece down) and `Lies`, `Ends` say where a text lies in another.
  `ReadsBack` is the one induction: a reader that at the beginning of a piece
  returns its item and goes on behind it (`Reader`) returns all items. For
  `urlencode` the piece is an escaped byte (`EscapedIs`, `UnescapedIs`), for the
  parameters of a Uri an assignment with its "&" (`PairIsRead`). The other
  parts of a Uri are found by searches, and that a search stops at the right
  place is that the text is free of the character up to there (`Free`, `IndexAt`);
  `WholeUriIs` takes from `~CutShort` what each search needs, `SchemeFound` that
  no "://" begins inside the scheme or runs over its end. `string_cast` ends
  because the buffer grows at each turn and a buffer as large as the result is
  large enough (`LargeEnough`), and it ends at the first invalid byte and nowhere
  else (`CastOf`). `CodecIInv` adds what a conversion has kept of its origin. From
  it `CodecsRestore`. Assumption: `CodecAssumption`, bytes are 1 to 255, the sizes
  of characters are natural numbers, and parts of Uris are texts.
* `ValuesProofs`, times: the calendar's lemmas are that every day has one year
  and every day of a year one month (`YearExists`, `MonthExists`), that the
  fields of an instant denote it (`FieldsCorrect`) and that moving an instant
  twice is moving it by the sum (`LaterTwice`). They hold of all integers, which
  includes days before 1970 and the proleptic calendar. `TimeIInv` adds that data
  two DateTimes share is the same data, so that the normalisation by a read
  leaves the copy's instant. From it `TimesAreExact`, but for the arguments the
  property excepts, and `CopiesKeepInstant`. Assumption: `TimeAssumption`.

The inductive invariants that are not listed as properties of a run (`Counted`,
`StartedMeansBlock`, `JoinedInv`, `PrepareInv`, `JsonIInv`, `OwnerInv`, `SchemaInv`, `ArrayIInv`,
`StreamIInv`, `StringIInv`, `CodecIInv`, `TimeIInv`, `ExpressionIInv`) were checked by TLC before they were proved; what they
imply is a property of a run.

Only model-checked:

* liveness under fairness (`AllFinish`, `TimedReturns`, `AbortStops`), which
  the proof system does not treat;
* `TextMeansTree`: the reader of SQL and the meaning of a tree (`SqlReader`) are
  recursive operators.

They hold for every input up to the bounds of the instance.

## 5. Where the code and its documentation disagree

With a run that shows it (`findings` in `PROJECT.json`):

* `disconnect_race`: the assertion in `disconnect()` can fail.
* `ctor_leak`: a connection whose BEGIN fails in the constructor is never freed.
* `lost_wakeup`: `wait()` can sleep for ever after the script has ended.
* `stuck_running`: an exception in `run()` leaves `running()` true.
* `early_join`: `wait()` answers before `run()` is done with the object.

Seen while modelling, described here only:

* a `connect()` that fails half-way keeps what it opened, and a retry opens a
  full pool on top (`Conserved` states it as the exception it is);
* after `disconnect()` `connect()` answers true without opening anything, since
  `m_connected` is never reset;
* a run that starts before the `abort()` of the previous one has woken up
  reports an error of its own as TerminationException;
* PostgreSQL: `getLastInsertId()` swallows the failure of its query and
  `fetchNext()` does not look at the status of an execution. The block is then
  given up, COMMIT is answered with a rollback and no error, and `commit()`
  reports success although nothing is stored, where `SqlTransactionImpl.h` says
  that it makes the changes persistent (`CommitStores` excepts `poisoned`). A
  select whose execution failed also looks like an empty one;
* `size()` counts the rows of PostgreSQL's prepare result and of MySQL's
  metadata, neither of which has rows, instead of "number of rows in a result
  set";
* SQLite: an insert whose step failed cannot be stepped again, because only a
  success resets the handle; after an error during iteration `++` starts the
  rows again;
* a delete (or an update with `set()`) appends its literals at every execution:
  a second one fails on SQLite and PostgreSQL and binds the first clause's on
  MySQL (`StaleOnlyReused`, of deletes; the updates of `Statements` are without
  `set()`);
* MySQL: unread rows of an abandoned iteration make other statements and
  `commit()` fail; closing another prepared statement discards them;
* copies of a result iterator share one cursor; literals in `orderBy` are
  dropped; MySQL binds DateTime values from buffers of a function that has
  returned; a statement or result set that outlives its transaction uses the
  transaction implementation after it was freed;
* an element reference kept while an Array is copied writes into both;
* in the manual close mode an object dropped with an open transaction returns
  its connection inside a block (SqlTransaction.cpp:57);
* an `abort()` that times out withdraws `m_bTerminating`, and with it the
  request of another caller (JSScriptThread.cpp:515);
* `run()` converts the value a script leaves before it looks at its error
  (JSScriptThread.cpp:479): when a script leaves a plain object or a function, say, and
  the function called next fails or is aborted, "Unsupported class" is thrown
  instead of the error or the TerminationException (`OwnOutcome` excepts it by
  `unfit`);
* the move constructor and assignment of SharedDataPointer would leave the
  counts unbalanced if a derived class used them (SharedDataPointer.h:46).

Expressions and schemas:

* unary plus is rendered as a leaf, `(+(a+b))*c` becomes `a + b * c`
  (ExpressionNode.cpp:106); minus over a literal -5 becomes `--5`, a comment;
* XOR writes its operands twice and its literals once
  (SqlExpressionTreeWalker.cpp:286);
* an update with `ref<>()` and no `where` leaves a bracket open on SQLite and
  MySQL (SqlStatement.cpp:329); a select with joins and no `where` leaves out
  the joins' condition (SqlStatement.cpp:90);
* names of indices are global on SQLite and PostgreSQL, so that two tables that
  share a name and a column share an index; MySQL's failure of CREATE TABLE is
  swallowed, whatever it is, and MySQL cannot index a TEXT column.

Native objects in scripts:

* a method that returns its argument or its own object makes a second wrapper
  that deletes it too; a setter never gives an object back; getters and setters
  dereference the null private of a prototype;
* `wrapIn` failing midway deletes the natives it wrapped before.

Reflection and JSON:

* `superMetaObject()` makes `m_super` at its first call without a lock; `eRequired` is never
  enforced; `fieldByName` finds a hidden field of the base first;
  `createInstance` may run a constructor of the base class;
* a Variant whose array holds an array, or a Variant without data, cannot be written
  (JsonSerializerVisitor.cpp:100, 134), though the same as an element of a field that is an
  array of Variants can; an `int64` outside `int` throws; an unknown enumeration name silently becomes
  the default; dates in a Variant come back as strings, and a nullable field set to an
  invalid DateTime or Variant comes back absent; a `fromJson` that fails
  midway leaves the earlier fields changed.

Values:

* `addMonths` that reaches back before last January is wrong (DateTime.cpp:284), and so are
  `addDays`, `addHours` and `addMinutes` whose seconds overflow an `int` (DateTime.cpp:308);
  `toStdTime()`, a
  const function, normalises data that other threads share (DateTime.cpp:140);
* `push_front` onto two or more elements of a class smears the first of them over
  the tail (Array.h:258; so would `_insert` and `_emplace`, which nothing calls); `push_back(a[i])` and `append(a)` read freed memory when the buffer grows;
  `resize` exposes stale elements (Array.h:387); `erase(from, to)` is documented
  to include `to` and does not (Array.h:392); `ArrayAsDocumented` says of each of these what
  it leaves instead;
* an empty String is not terminated, and `isNullOrEmpty` reads its first cell
  (StringBase.h:394); changing a copy of a String made from a null pointer clones a
  buffer that is not there and ends the program (StringBase.h:126; `CanDetach` leaves
  the call out); `replace("", x)` never ends (StringBase.h:646); `endsWith`
  of a longer needle reads in front of the buffer (StringBase.h:569);
* a text taken from a string stream shares the stream's buffer and changes when
  the stream goes on (StringStream, `str()`); bytes above 127 are urlencoded
  as negative numbers (StringBase.cpp:557); `Uri::toString` always writes an `@`, and a part that holds
  a character which ends it (`CutShort`) is printed as it is and read back as
  something else.

## 6. Not modelled

Parts of modelled components that are left out:

* `runAsync`: the future that std::async returns is discarded, so its destructor
  waits and the call is `run` in another guise;
* `superMetaObject()` making `m_super` at its first call, which races (section 5);
* `String::format` and the comparisons without case, which are the C library's;
* the operations of an active record (`insertOne`, `updateAll`, ...), each a
  statement in a transaction of `Statements`;
* the text of order, limit and joins, custom statements, several iterators of
  one result set, and the lifetimes beyond a transaction listed in section 5,
  which are undefined behaviour;
* the registry of connectors by name, and `SharedObjectPointer` apart from who
  holds an implementation object;
* streams that write to a sink, or into a text that somebody shares.

Not planned: the parsers, engines and databases themselves, iconv, code
generated by macros, the stub of a NoSQL connector, build files, examples and
tests.

What would extend the development: an abstract cursor that `Statements` refines;
statements used in two transactions; a native method that calls back into the
script; the reader of SQL as a function of texts, to prove `TextMeansTree`.
