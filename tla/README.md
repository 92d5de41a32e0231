# TLA+ models of go_ibm_db

go_ibm_db is a `database/sql` driver for DB2. It sits between `database/sql`, which calls it, and the DB2
CLI library (ODBC), which it calls through cgo. This directory holds TLA+ models of the driver's logic, the
TLC configurations that check them, and theorems checked by TLAPS. The models are of the code in `src/`; the
CLI library and `database/sql` are modelled only as far as the driver relies on them, and such definitions
are marked external in `PROJECT.json`.

## The system

| Part | Source | State it keeps | Operations | Talks to |
|---|---|---|---|---|
| Statement handles | stmt.go, odbcstmt.go, conn.go, rows.go, handle.go | `ODBCStmt`: the handle `h`, flags `usedByStmt`, `usedByRows`; `Stmt.os`, `Rows.os`; `Stats.StmtCount` | Prepare, Exec, Query, QueryBatch, NextResultSet, Close of Stmt, Rows and Conn | CLI handles; `database/sql` calls it |
| Connection pool | pooling.go | `availablePool`, `usedPool`, `pSize`, one `*DBP` per connection, a sleeping goroutine per closed one | Init, Open, Close, Timeout, Release | `sql.DB`; many client goroutines |
| Result cursor | rows.go, fastpath.go, odbcstmt.go | `RowsFetched`, `rowIdx`, `FetchSize`, bound buffers; the cursor and the row array size in the CLI | Next, ReadBatch, NextResultSet, BindColumns, Close | SQLFetch, SQLGetData |
| Long values | column.go | the growing buffer of one read | getDataChunked, Value | SQLGetData |
| Type conversions | column.go, fastpath.go, param.go, sqlOut.go | a slot of the column's buffer and of its indicators for each row of a rowset | newColumn, Value, the fill functions of ReadBatch | the cursor's buffers, the client's slices |
| Text encoding | utf16.go, api/api.go | none | conversions between UTF-8, UTF-16 and bytes | used by the conversions |
| Parameters and OUT values | odbcstmt.go, param.go, sqlOut.go | `Parameter.Data`, `Parameter.Outs`, `StrLen_or_IndPtr`; bindings and paramset size in the CLI | ODBCStmt.Exec, BindValue, newOut, Value, ConvertAssign | SQLBindParameter, SQLExecute, the client's variables |
| Execution results | stmt.go, error.go, result.go | sum of row counts; the connection a Result refers to | Stmt.exec, NewError, LastInsertId | SQLRowCount, SQLMoreResults; `database/sql` repeats calls |
| Connections and transactions | conn.go, tx.go, database.go, driver.go, stats.go | `Conn.tx`; autocommit and pending work in the CLI; `Stats.EnvCount`, `ConnCount` | Open, Begin, Commit, Rollback, Close, CreateDb, DropDb | `database/sql`'s own pool reuses the connections |
| Installer | installer/setup.go | the archive and the directory clidriver, which outlive a run | main: look for a driver, remove, download, unpack | servers, the file system, tar and gunzip |
| CLI bindings, tracing | api, log2 | none | generated wrappers, I/O | |

What makes the driver hard to test: every CLI call may fail, most of them in the middle of an operation that
has already changed something; state is kept on both sides of the CLI (bindings, cursor, autocommit, row array
and paramset size survive a call) and must agree; a handle has two owners that may go in either order; the
pool is called from many goroutines and reads its maps without its mutex; connections are lost before or after
the server has done its work, and calls are repeated; buffers are reused for the next rowset, with lengths that
meet boundaries (the last partial rowset, a 16-bit length, terminators, characters that grow in conversion);
and a download may be cut off anywhere. `PROJECT.json` lists each such hazard at its line, with the properties
that watch it or the reason why none does.

What makes each part correct:

- *Handles*: used only while allocated, by one Stmt and one Rows at most, released by the last of them, counted.
- *Pool*: no two clients hold one connection, none is lost, idle ones are closed in time, Release closes all.
- *Cursor*: each row once, in order, up to the end; buffers never smaller than the rowset.
- *Long values*: byte for byte; NULL if and only if NULL; the read ends.
- *Conversions*: Next and ReadBatch agree, on the row's own value, and what was given out stays as it is.
- *Parameters*: the server reads this call's arguments, and destinations get this call's values.
- *Results*: the work is done once, the count of each statement is added, and the call returns.
- *Transactions*: what Commit and Rollback report is what happened; nothing slips between autocommit and transaction.
- *Installer*: success, or a skipped download, means a complete driver; another run heals what one has left.

## Modules

Names of actions and operators are those of the code where TLA+ allows it. A *fault variant* (for instance
`closeByStmtAlways` before `closeByStmt`) is an operator that no specification uses: it is the action with a
plausible bug, and exists to show that a property notices that bug.

- **HandleOwnership** – abstract: a handle is unused, held by a set of users, then gone, once.
- **StmtHandles** – every driver call that touches a statement handle is one action, because `database/sql`
  holds the connection's lock during a call. An operator named for a Go function gives the *set* of outcomes of
  that function (the object it leaves, the change of the counter, whether the error is nil), so that each CLI
  failure is one element of it. Each action is the composition of the outcomes its code goes through. `lost`
  records the three error returns that drop the only reference to a handle (an expired context in
  PrepareContext and in query1; a failing BindColumns in Conn.Query). It implements HandleOwnership
  (`OwnershipSpec`, an `INSTANCE ... WITH` a refinement mapping).
- **Pool** – `Pconnect` with its two maps as sequences of connections, clients that hold or wait, and timers.
  Calls are taken one at a time; only the waiting Open and the Timeout goroutines are separate steps. `crossed`
  records whether an Open ever waited, since the wait path hands a connection out without moving it.
- **PoolSteps** – the same code with Open split at its unlocked reads of the map (`OpenCheck`, `OpenLookup`,
  `TakeFirst`, ...). A slice is modelled as an array with an offset and a length, since `append` and the
  shifting copy work on the array that another goroutine may still have a slice of.
- **RowsCursor** – one ODBCStmt, executed again and again, a list of result sets with and without LOB columns,
  Next and ReadBatch sharing `rowIdx` and the buffers. A row is its number. SQLFetch may fail, and may report
  the last partial rowset with SQL_NO_DATA, as fastpath.go:80 says DB2 does.
- **GetData** – getDataChunked for one value: 16-bit truncation is modelled as such (`Int16`), the buffer by
  its length, data by the number of bytes read and whether they are at the right offset (`exact`).
- **TextEncoding** – operators only: UTF-8, UTF-16, units in memory, `utf16toutf8`, beside a reference
  definition (`Text`) of what a sequence of units stands for; and `WideValue`, the cast of memory to an array of
  `MaxElements` (1 << 20) units or bytes, which panics on a longer text, as `Value` does of columns and of Outs.
- **ColumnValues** – one column: which buffer `newColumn` chooses, what SQLFetch leaves in its slots (cut,
  terminated, with the bytes of earlier rowsets behind), and what Next and each destination of ReadBatch make of it.
  `NullLength` is IsNull, which looks at 16 bits of an indicator (modulo `Int16Range`), on the bound path and, with
  the lengths that a last chunk of getDataChunked may have (`LastChunks`), on the other. A value carries the slot
  of the buffer that it is a part of, or 0 if it was copied, so that a later rowset that overwrites it is visible.
- **ParamBinding** – one prepared statement executed repeatedly. A value is known by the call and parameter it
  belongs to, so that a stale binding or a stale OUT buffer is visible. The CLI keeps bindings and
  SQL_ATTR_PARAMSET_SIZE; the driver keeps Outs and indicators. Parameters lie side by side in memory, where an
  array of numbers makes the CLI read past its single indicator (`WordsPerParameter`, `WordsLeft`).
- **ParamValues** – one parameter: strings and arrays of strings in `BindValue`, on z/OS (where no NUL is added)
  and elsewhere, the buffer `newOut` makes for an sql.Out (as elsewhere than on z/OS), what the CLI writes there,
  `Value` and `ConvertAssign`. Which texts are numerals, and of which number, is a constant for each of ParseInt
  and ParseFloat.
- **ExecResults** – `Stmt.exec`, its loop over row counts and the errors `NewError` makes, under
  `database/sql`, which on `driver.ErrBadConn` closes the connection and tries again, three times at most. A
  batch is a sequence of statements that insert, select or fail.
- **Transactions** – connections used by the clients of `database/sql`, each step of endTx failing, what
  becomes of each piece of work beside what its client was told; the counters with CreateDb and DropDb.
- **Setup** – the installer, run again and again over one directory. A file is the version it comes from and
  whether it is whole; runs fail on the network or the disk and are killed at any step.
- **...Proofs** – the theorems about the module they are named for; **ValuesProofs** those about GetData,
  ColumnValues, ParamBinding and ParamValues.
- **SequenceLemmas** – what the proofs need to know of sequences, and the theorems about TextEncoding.
- **MC...** – symmetry sets and input sets for TLC.

RowsCursor, ParamBinding and GetData look inside calls that StmtHandles takes as one outcome; ColumnValues and
ParamValues look at the data that RowsCursor and ParamBinding only move; ExecResults and Transactions are above
all of them. They share no variable: the calls on one connection are serialised, and the parts interact only
through whether a call fails, which each module leaves open.

## Runs

| Run | Instance | What it shows |
|---|---|---|
| stmt_handles | 3 ODBCStmts, 2 Stmts, 2 Rows | ownership, sharing, counting and leaks are as intended; StmtHandles implements HandleOwnership |
| pool | 3 clients, 3 connections, 2 strings, limit 2 | lists, counter, exclusiveness below the limit, timers, Release |
| pool_steps | 3 clients, 3 connections, limit 3 | *violation*: a Close between Open's read and its lock loses a connection, which Release does not close |
| rows | fetch sizes 1 and 2, up to 3 rows, 2 result sets | rows whole, once, in order, complete; the rowset is in the buffers; panics only after a failed reset |
| rows_rebound | same | *violation*: SQLGetData on a column that is still bound after NextResultSet |
| get_data | 24 lengths around the boundaries, with and without a total | values are assembled exactly, NULL is confused only with named lengths, the loop ends |
| columns | 11 columns, one for each branch of newColumn, rowsets of 2, 2 fetches, numbers of 16 bits scaled to 8, the cast array to 2 and the buffer of getDataChunked to 4 | Next and ReadBatch give each row its own value, which later rowsets leave alone |
| params | 2 parameters, 2 destinations, arrays of 0, 2 and 10, 2 executions | bindings, rows and OUT values belong to the call |
| param_values | 18 parameters, 8 Go types, strings of up to 2 runes, texts of the server of up to 3, the cast array scaled to 5 | strings arrive, and variables get what the procedure set |
| results | 2 clients, 2 connections, 4 batches, 2 losses | work is done once and what SQLRowCount says of it is summed, LastInsertId is the call's own, Exec returns |
| transactions | 2 connections, 3 works, 2 calls of CreateDb/DropDb | clients are told the truth; pending work and counters are explained |
| setup | 5 kinds of platform, 2 versions, 3 faults | a skip or a success means a complete driver; a retry heals |

The violation runs each check one sentence of the repository's own comments; `PROJECT.json` quotes it. The
passing runs check the strongest statement of a hazard that does hold, with the exceptions named in the property
and explained in the comment above it: an exception is a known weakness of the code, and the run shows that
there are no others. The main ones:

- an error return that drops the only reference to a handle (`lost`, StmtHandles);
- a pool that was once at its limit shares connections and forgets Timeouts (`~crossed`), and each Open that
  gave up counts for ever (`failed`, in `CounterExact`);
- Next takes a last rowset reported with SQL_NO_DATA for the end (`~cut`), and a failed reset of the row array
  size leaves a statement with buffers that are too small (`resetFailed`);
- values of 66558 bytes and more may be read as NULL, as an empty wide value always is (`NilExplained`); a bound
  value of 65535 bytes modulo 65536 always is (`LooksNull`, in `NextExact` and `BatchExact`);
- a text that needs more than two bytes for each of the server's is cut in a bound column (`CutText`); wide text
  of more than 1 << 20 units, or a DBCLOB of more bytes, panics (`TooWide`); Next hands out the slot itself of a
  bound CHAR or BINARY column, where ReadBatch copies (`ReadStays`);
- a paramset size outlives its call (`sized`), the single indicator of an array of numbers is read past its end,
  a destination that was passed further to the right before gets an old value (`ever`), and on SQL_NO_DATA Exec
  returns nil and leaves the destinations as they were (`OutLatest`);
- OUT parameters show NULL as an old value or zero, and are cut to the size of their buffer, which is too small
  for text that grows in UTF-8 (`NoRoom`); a wide buffer of more than 1 << 20 elements panics (`OutExact`); so
  does the string "" as an argument on z/OS (`StringsArrive`);
- a call whose connection is lost after the server did the work is done again (`lost`, ExecResults); errors of
  statements after the first are not reported (`failed`); the row-count loop spins on a lost connection for
  which SQLRowCount reports no error (`ExecReturns`);
- setup takes what an interrupted unpacking left for a driver (`LooksComplete`), reports success when tar or
  gunzip failed (`untold`), and on AIX never gets past a tar file of an earlier run.

*Bounds.* `MaxTimers`, `MaxFailed` (pool), `MaxArrays` (array objects in PoolSteps), `MaxRows`, `MaxSets`
(cursor), `MaxNoTotal` (chunks without a total), `MaxFetches` (columns), `MaxDb`
(calls of CreateDb and DropDb), `MaxExecs` (executions of a statement), `MaxCalls`, `MaxLosses` (results) and
`MaxFaults` (setup) are guards of the actions. Three ODBCStmts let a Stmt be renewed while an older Rows is still
open and another is queried directly; three clients with a limit of two put the pool over its limit while two
connections are held; three rows with a rowset of two give full, partial and empty last rowsets; the lengths of
get_data are one below, at and above every place where the code changes its mind (1024, 2048, 32768, 65535, 65536
and the value whose last chunk is 65535 long, with one- and two-byte terminators); two rowsets are what it takes
to see a slot overwritten, with texts on both sides of its size; the three scaled numbers of columns keep the order
of the code's (terminator < first buffer < 16 bits) and have values at and on both sides of each: a bound value of
7 bytes, one that is not bound of 7 (no NULL, its last chunk being another), 10 and 11 bytes (whose last chunk may
have 7), and texts of 2 and 3 units; the code compares these numbers only with lengths, and the theorems hold for
any; those of param_values are such that the buffers of the longest wide parameters exceed the array and the others
do not; numerals are there that fit, that do not, and that a cut makes of a longer one; an array of ten is longer than one Parameter, so
that its missing indicators reach into the next and past the last; two executions let a first, failed, panicked
or with arrays, leave something behind for a second; two losses let a repeated call lose its second connection,
too, or two clients one each; three works allow one that failed, one pending beside it and one of the next
client; three faults let a run be killed, the next fail to remove what is left, and the one after be cut off.

*Deadlock* is switched off, but for setup, because the instances may come to rest: objects are used once and
bounds are reached.

*Fairness and liveness.* Three modules assume fairness, each no more than that code that can go on does:

- GetData, `WF_dataVars(DataNext)`: getDataChunked goes on as long as SQLGetData returns. `ReadEnds`: every read ends;
  a buffer that stops growing, or a chunk of nothing, would make it spin.
- ExecResults, `WF_vars(Step(k))` for each client: a goroutine in a call is scheduled and the CLI answers; nothing
  is assumed of clients, of LastInsertId or of losses. `ExecReturns`: neither the row-count loop nor the
  repetition goes on for ever, with the one exception above.
- Setup, `WF_vars(Run)`: a run goes on, and the user runs setup again; faults and kills are not fair, and
  `MaxFaults` bounds them. `RetryHeals`: in the end a complete driver stays, with the exceptions above.

Elsewhere nothing in the code promises progress: the waiting Open of the pool gives up by its own clock, which
the model allows at any moment.

## Proofs

For each module whose passing run checks invariants there is an inductive one (`IInv`; in ValuesProofs `DataInv`,
`ColumnInv`, `BindingInv`, `StringsInv` and `OutInv`), with a lemma for each action that keeps it; the properties
are derived from it. Assumptions are the named ones of the module alone; constants
are otherwise arbitrary. `TextAssumption` says that texts are sequences of runes, units or bytes,
`ColumnValuesAssumption` that the first buffer of getDataChunked holds more than a terminator and is smaller than a
16-bit length, `ParamValuesAssumption` that numbers and times are described with a size and that no numeral is
empty or has a NUL in it. Every property that a run checks is stated by a theorem, except for liveness.

`StmtHandlesProofs`, for any ODBCStmts, Stmts and Rows: `TypeCorrect`, `OwnersSafe`, `NoSharing`,
`OnlyKnownLeaks`, `CountCorrect`, and `Refinement` (`Spec => OwnershipSpec`). That an open Rows has a live handle
depends on the two flags telling who else uses it, and the flags are cleared in the middle of closeByStmt and
closeByRows, on error paths too. `IInv` adds `FlagsTell` (each flag of a usable ODBCStmt stands for an open
object that refers to it, unless an error return dropped the object; and each open object's flag is set),
`OpenHasHandle`, and that the counted handles are finitely many. There are lemmas for the outcomes of each Go
function (`CloseByStmtOutcome`, `QueryKeeps`, ...), and for how the referrers of an object change when one Stmt
or Rows changes (`StmtUpdate`, `RowsUpdate`). `Refinement` needs that a handle that changes phase does so by a
step of HandleOwnership while no other handle changes (`MoveRefines`).
The action properties follow by cases on the call, from what its function leaves of the cursor when it succeeds:
`NoStrayCursor` (`TidyStep`), and `CursorKept` (`KeepsCursorStep`), for which no other open Stmt or Rows can reach
the handle of a Rows without going through closeByStmt.

`PoolProofs`, for any finite set of clients and any connections, strings and limit: `ListsCorrect`,
`CounterCorrect`, `ReleaseCloses`, `ExclusiveCorrect`, `WatchedCorrect`. `OfString` says what the two lists of one string hold, and has a lemma for
each way a list changes; whichever position Close and Timeout take, they take an element of the list, so the
argument does not depend on their search finding the right one. `ReleaseCloses` needs that no list ever loses an
open connection (`LiveInv`), and that a connection is never made twice (`Kept`); the counter, that the clients
are counted by two finite sets of which a step changes one element (`Counting`). `ExclusiveCorrect` and
`WatchedCorrect` hold only as long as no Open has waited, and have an invariant of their own, `BelowInv`: until
then no client waits, a connection that a client holds is open, in the used list of its string and held by no
other client, and a used, idle one has a Timeout pending. From it `FoundPosition` shows that the position Close
and Timeout take is the one of their own connection.

`RowsCursorProofs`, for any fetch sizes, rows and result sets: `TypeCorrect`, `OrderCorrect`, `EOFComplete`,
`BuffersAgree`, `PanicKnown`. The invariant relates four positions: the cursor of the server, the rowset in the
buffers (`BufferInv`), how far Next has read it, and the *mark* that follows from them, up to which the rows have
been returned (`OrderInv`) or given up (`CompleteInv`).

`SequenceLemmas`: the library's induction theorems take an operator as a parameter, which no prover at hand can
instantiate. `Least` (a set of numbers has a least element, from the library's fact that < on Nat is well-founded)
gives induction over a *set* instead (`Induction`), and with it the recursive functions and folds of the models can
be reasoned about: a lemma says that a recursive function exists (`FlattenedExists`, `BackwardExists`), and others
what it does, for sequences of any length. Those on `FlattenSeq` go piece by piece (`FlattenInduction`,
`FlattenLast`), those on `utf16toutf8` backward from the end (`BackwardStep`), where a position is either the
start of a pair or a unit alone. The results about TextEncoding:

- `TextRight`: `utf16toutf8` gives the text of any units, with lone surrogates anywhere in them;
- `DbclobRight`: so does `dbclobToUTF8` of the units that its bytes stand for;
- `LittleEndianRead`: units written to memory are read back as they were;
- `Utf16Shorter`: a string has at most as many UTF-16 units as UTF-8 bytes, which is why an array of strings may
  take the length in bytes of its longest one for the number of units of a slot.

`ValuesProofs`, about *GetData*, for values of any length: `DataTypeCorrect`, `ReadExactly`, `NullKnown`. Two facts
must be added: all lengths of a wide type are even (else a chunk would split a character, and the terminator would
be counted), and the buffer grows only after a first chunk, so that the last chunk has at most the value less 1022
bytes (`NilInv`).

About *ParamBinding*, for any number of parameters and array lengths: `BindingsFresh`, `RowsKnown`, `OutsExact`,
`UnwrittenExplained`. The invariant adds what calls leave behind: the paramset size, and an indicator with
SQL_NULL_DATA where some call had nil (`LeftBehind`). All Outs ever appended are converted again after each call,
in their order, so what a destination holds is that of the last Out that refers to it. `OutsKnown` says whose each
Out is and that its destination was passed for it, and that only a call that ended early leaves a buffer unwritten;
`FlattenLast` says that the last Out for a destination is the last of the rightmost parameter that has
one for it.

About *ColumnValues*, for any columns, rowsets and values: `NextRight`, `BatchRight`, `ReadUnchanged`. As long as a row
is current its slot holds its value, or as much of it as there is room for (`SlotsInv`, from `Filled`), whatever an
earlier rowset has left behind in it: `StoreFills` shows it of what SQLFetch writes, cut and terminated, and
`DecimalsFit` that no decimal is ever cut. `ValueRead`, `BoundBatch` and `UnboundBatch` are what is read from
such a slot, or by SQLGetData where there is none; `LastChunkNull` says from which length on a last chunk may look
like NULL. `ReadUnchanged` needs that memory shared with a slot is handed out by Next alone (`SharedInv`).

About *ParamValues*: `StringsRight`, for strings of any length, and `OutRight`, for parameters and texts of any
size. `StringsInv` says that the slots of the strings in memory hold them up to a NUL, each of its own, for which
`Utf16Shorter` gives the room. `OutInv` follows an sql.Out through a call. Until Execute its buffer is as newOut made
it, from the variable or from zeros (`BufferRight`); after it, Execute having written, cut and terminated what the
server sent, what can be read from the buffer is that value, a part of it for which there was no room for the rest,
or, for a NULL, what newOut left there (`OutRead`: `NumberRead`, `CharRead`, `WideRead`, `BinaryRead`). From
this alone follows what ConvertAssign stores, or that it returns an error, for each type of destination
(`ReadNumber`, `ReadChar`, `ReadWide`, `ReadBinary`).

`TransactionsProofs`, for any finite set of connections, any works and any bound `MaxDb`: `TypeCorrect`,
`ModesStayApart`, `ClientsToldTruly`, `PendingHasReason`, `CountsCorrect`, `OwnCommitOnly`. `ToldTruly` speaks of
connections where an end of a transaction failed; to keep it, `IInv` adds that a connection without autocommit
has a transaction or such a failure, and that a client was told of an error only where one happened. The
invariant is split by `IInvParts` into what it says of one connection and one work (`ConnInv`, `WorkInv`), and
the counters (`CountStep`).

`SetupProofs`, for any platforms, versions and number of faults: `SkipIsRight`, `SuccessIsRight`. A run begins with
an empty directory or notes that it could not (`BeginInv`); what it unpacks was downloaded whole (`SourceInv`); so
the entries it has unpacked are whole, unless a longer file was in the way (`UnpackInv`).

`ExecResultsProofs`, for any clients, connections, batches and numbers of calls and losses: `WorkOnce`,
`SumCorrect`, `IdOwn`. Each part of the invariant speaks of one call: who uses its connection (`UseInv`); that
without a loss only the current attempt has done work, on a connection that still works (`WorkedInv`); that the sum
lacks only the count of the current statement (`CountInv`); and that the connection remembers the row of the last
insert until another call takes it (`IdInv`). `OthersKeep` shows that a step of one call disturbs no other one.

Only model-checked: liveness (`ReadEnds`, `ExecReturns`, `RetryHeals`), which is out of the prover's reach. The two
properties of the violation runs do not hold.

## Not modelled

- *CLI bindings and tracing*: generated wrappers and the writing of a log, without state that another part reads.
- Concurrent use of one Conn or Rows from several goroutines: `database/sql` excludes it. QueryBatch bypasses
  it, but its Rows is documented for one reader.
- A Go panic in the middle of a call, in StmtHandles: that of Exec on an empty array (ParamBinding has it) drops
  the handle of a QueryBatch, beside the three error returns of `lost`.
- More than one pool: `pSize` is one variable for all pools of a process, of which Pool models one.
- Data races on the words of `pSize` and `connMaxLifetime` and the Go runtime's abort on concurrent map access in
  the pool (a lost update shifts the limit as a failed wait does); Display; parsing of the pool's options.
- A connection lost inside a transaction or a fetch: `driver.ErrBadConn` makes `database/sql` drop the connection,
  which for those modules is an error followed by Close. ExecResults models the loss itself.
- How numbers and times are formatted and parsed, fields of dates: conversions of one value to another without a
  decision, taken as a whole in ColumnValues and ParamValues. The column metadata calls of rows.go.
- Which file the installer downloads for a platform: a table, reduced to how the file is unpacked and whether
  there is one.
