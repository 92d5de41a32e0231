----------------------------- MODULE RowsCursor -----------------------------
(***************************************************************************)
(* Reading a result with go_ibm_db: Rows.Next and Rows.NextResultSet       *)
(* (rows.go), Rows.ReadBatch (fastpath.go), and what ODBCStmt.BindColumns  *)
(* and applyBlockFetch (odbcstmt.go) prepare for them.  SQLFetch fills the *)
(* bound buffers with a rowset of up to SQL_ATTR_ROW_ARRAY_SIZE rows; Next *)
(* hands them out one by one, ReadBatch all at once.                       *)
(*                                                                         *)
(* One ODBCStmt, executed again and again; a result is a few result sets,  *)
(* and a row is its number in its set.  A row of a set with a LOB has two  *)
(* parts: the bound columns, read from the buffers, and the LOB, which     *)
(* SQLGetData reads from the row that the cursor is on.                    *)
(***************************************************************************)
EXTENDS Integers, SequencesExt

CONSTANTS FetchSizes,  \* the values given to SetFetchSize
          MaxRows,     \* bound: rows of a result set
          MaxSets      \* bound: result sets of an execution

ASSUME CursorAssumption == /\ FetchSizes \subseteq Nat \ {0}
                           /\ MaxRows \in Nat /\ MaxSets \in Nat \ {0}

VARIABLES state,       \* "closed", "open", or "panicked": an index out of range
          results,     \* the result sets of this execution
          cli,         \* the CLI: its result set, rows fetched, rowset size,
                       \* and the last column it has a binding for
          fetchSize,   \* ODBCStmt.FetchSize
          rowsFetched, \* what ODBCStmt.RowsFetched points to
          buffer,      \* the bound buffers: one row per slot, 0 when unused
          rowIdx,      \* Rows.rowIdx
          returned,    \* history: the rows the client has got of this set
          forgone,     \* history: the rows it gave up by its use of ReadBatch
          ended,       \* history: has it been told io.EOF for this set?
          cut,         \* history: has Next met SQL_NO_DATA with rows?
          resetFailed  \* history: could SQL_ATTR_ROW_ARRAY_SIZE not be reset?

vars == <<state, results, cli, fetchSize, rowsFetched, buffer, rowIdx,
          returned, forgone, ended, cut, resetFailed>>

\* bindable: how many columns precede the LOB, if there is one.
ResultSet == { r \in [rows : 0 .. MaxRows, bindable : 0 .. 1, lob : BOOLEAN] :
                 r.bindable > 0 \/ r.lob }

Current == results[cli.set]

\* applyBlockFetch, when the statement is prepared.
Init == /\ state = "closed"
        /\ results = <<>>
        /\ fetchSize \in FetchSizes
        /\ cli = [set |-> 1, pos |-> 0, size |-> fetchSize, bound |-> 0]
        /\ rowsFetched = 0
        /\ buffer = <<>>
        /\ rowIdx = 0
        /\ returned = <<>> /\ forgone = {} /\ ended = FALSE
        /\ cut = FALSE /\ resetFailed = FALSE

------------------------------------------------------------------------------
\* SQLFetch: [ret, n, pos] is its result, the rows it fetched, and where the
\* cursor is then.  DB2 may report the last, partial rowset with SQL_NO_DATA.
\* When it fails RowsFetched keeps its value or is 0.
SQLFetch ==
  LET left == Current.rows - cli.pos
      k == IF left < cli.size THEN left ELSE cli.size
      Result(ret, n, rows) == [ret |-> ret, n |-> n, pos |-> cli.pos + rows]
  IN  { Result("error", n, 0) : n \in {0, rowsFetched} }
        \cup (IF k = 0 THEN { Result("no_data", 0, 0) } ELSE { Result("ok", k, k) })
        \cup (IF k \in 1 .. cli.size - 1 THEN { Result("no_data", k, k) } ELSE {})

\* What a fetch leaves in the buffers.
Filled(f) == [i \in DOMAIN buffer |-> IF i <= f.pos - cli.pos THEN cli.pos + i ELSE buffer[i]]

\* The row in slot i, with the LOB of the row the cursor is on.
RowAt(buf, i, pos, n) ==
  [bound |-> buf[i], lob |-> IF Current.lob THEN pos - n + 1 ELSE buf[i]]

\* Fault variants: RowsFetched is not reset; a LOB does not reset the size.
BindColumnsStale(rs, set) ==
  LET size == IF rs[set].lob THEN 1 ELSE fetchSize
  IN  /\ fetchSize' = size
      /\ cli' = [cli EXCEPT !.set = set, !.pos = 0, !.size = size]
      /\ buffer' = [i \in 1 .. size |-> 0]
      /\ state' = "open"
      /\ UNCHANGED <<resetFailed, rowsFetched>>
BindColumnsNoReset(rs, set) ==
  /\ cli' = [cli EXCEPT !.set = set, !.pos = 0]
  /\ buffer' = [i \in 1 .. fetchSize |-> 0]
  /\ rowsFetched' = 0
  /\ state' = "open"
  /\ UNCHANGED <<fetchSize, resetFailed>>

\* BindColumns on result set number set of rs: RowsFetched is reset, a LOB
\* resets FetchSize and then the attribute, the buffers are new; bindings of
\* columns that are not bound again stay.  When any of it fails database/sql
\* closes the Rows.
BindColumns(rs, set) ==
  LET lob == rs[set].lob
      shrink == lob /\ fetchSize > 1
      At(size) == [cli EXCEPT !.set = set, !.pos = 0, !.size = size]
      last == IF rs[set].bindable > cli.bound THEN rs[set].bindable ELSE cli.bound
  IN  /\ rowsFetched' = 0
      /\ \/ /\ fetchSize' = IF shrink THEN 1 ELSE fetchSize
            /\ cli' = [At(IF shrink THEN 1 ELSE cli.size) EXCEPT !.bound = last]
            /\ buffer' = [i \in 1 .. fetchSize' |-> 0]
            /\ state' = "open"
            /\ UNCHANGED resetFailed
         \/ /\ shrink
            /\ fetchSize' = 1 /\ cli' = At(cli.size)
            /\ resetFailed' = TRUE
            /\ state' = "closed"
            /\ UNCHANGED buffer
         \/ /\ \/ fetchSize' = fetchSize /\ cli' = At(cli.size)
               \/ shrink /\ fetchSize' = 1 /\ cli' = At(1)
            /\ state' = "closed"
            /\ UNCHANGED <<buffer, resetFailed>>

NewResultSet == returned' = <<>> /\ forgone' = {} /\ ended' = FALSE

\* The statement is executed and its first result set is bound for a new Rows.
Query ==
  /\ state = "closed"
  /\ \E k \in 1 .. MaxSets : \E rs \in [1 .. k -> ResultSet] :
       results' = rs /\ BindColumns(rs, 1)
  /\ rowIdx' = 0
  /\ NewResultSet
  /\ UNCHANGED cut

\* SQLMoreResults; rowIdx is reset once the columns are bound.
NextResultSet ==
  /\ state = "open" /\ cli.set < Len(results)
  /\ BindColumns(results, cli.set + 1)
  /\ rowIdx' = IF state' = "open" THEN 0 ELSE rowIdx
  /\ NewResultSet
  /\ UNCHANGED <<results, cut>>

\* The cursor is closed; the ODBCStmt keeps everything else.
Close == /\ state = "open"
         /\ state' = "closed"
         /\ results' = <<>> /\ cli' = [cli EXCEPT !.set = 1, !.pos = 0]
         /\ NewResultSet
         /\ UNCHANGED <<fetchSize, rowsFetched, buffer, rowIdx, cut, resetFailed>>

\* The row at rowIdx is returned; when one of its columns fails to be read,
\* rowIdx stays where it is.
ReturnRow(buf, idx, pos, n) ==
  \/ /\ idx < Len(buf)
     /\ returned' = Append(returned, RowAt(buf, idx + 1, pos, n))
     /\ rowIdx' = idx + 1
     /\ UNCHANGED state
  \/ /\ idx < Len(buf)
     /\ rowIdx' = idx
     /\ UNCHANGED <<returned, state>>
  \/ /\ idx >= Len(buf)
     /\ rowIdx' = idx /\ state' = "panicked"
     /\ UNCHANGED returned

\* Next within the rowset.
NextRow ==
  /\ state = "open" /\ ~ended /\ rowIdx < rowsFetched
  /\ ReturnRow(buffer, rowIdx, cli.pos, rowsFetched)
  /\ UNCHANGED <<results, cli, fetchSize, rowsFetched, buffer, forgone, ended,
                 cut, resetFailed>>

\* Next fetches: the end, an error, or the first row of a new rowset.
NextFetch ==
  /\ state = "open" /\ ~ended /\ rowIdx >= rowsFetched
  /\ \E f \in SQLFetch :
       /\ rowsFetched' = f.n
       /\ cli' = [cli EXCEPT !.pos = f.pos]
       /\ buffer' = Filled(f)
       /\ \/ /\ f.ret = "no_data"
             /\ ended' = TRUE /\ cut' = (cut \/ f.n > 0)
             /\ UNCHANGED <<rowIdx, returned, state>>
          \/ /\ f.ret = "error"
             /\ UNCHANGED <<rowIdx, returned, ended, cut, state>>
          \/ /\ f.ret = "ok"
             /\ ReturnRow(Filled(f), 0, f.pos, f.n)
             /\ UNCHANGED <<ended, cut>>
  /\ UNCHANGED <<results, fetchSize, forgone, resetFailed>>

\* The rows of the rowset that Next has not returned.
Unread == { buffer[i] : i \in (rowIdx + 1 .. rowsFetched) \cap DOMAIN buffer }
Rowset(f) == { cli.pos + i : i \in 1 .. f.pos - cli.pos }

\* ReadBatch fetches and ends in one of four ways: nothing was fetched; a
\* null mask is too short, and rowIdx is not moved; a column cannot be
\* decoded; all rows are decoded.
ReadBatchNothing(f) ==
  /\ f.ret = "error" \/ f.n = 0
  /\ ended' = (f.ret = "no_data")
  /\ forgone' = IF f.n = 0 THEN forgone \cup Unread ELSE forgone
  /\ UNCHANGED <<rowIdx, returned, state>>

ReadBatchShortMask(f) ==
  /\ f.ret /= "error" /\ f.n > 0
  /\ forgone' = forgone \cup Unread \cup {cli.pos + i : i \in 1 .. IF rowIdx < f.n THEN rowIdx ELSE f.n}
  /\ UNCHANGED <<rowIdx, returned, ended, state>>

ReadBatchUndecoded(f) ==
  /\ f.ret /= "error" /\ f.n > 0
  /\ rowIdx' = f.n
  /\ forgone' = forgone \cup Unread \cup Rowset(f)
  /\ UNCHANGED <<returned, ended, state>>

\* Fault variants: SQL_NO_DATA always means no rows; the rowset is not
\* marked as consumed.
ReadBatchRowsIgnored(f) ==
  /\ f.ret /= "error" /\ f.n > 0
  /\ rowIdx' = f.n
  /\ returned' = IF f.ret = "no_data" THEN returned ELSE
                 returned \o [i \in 1 .. f.n |-> RowAt(Filled(f), i, f.pos, f.n)]
  /\ forgone' = forgone \cup Unread
  /\ ended' = (f.ret = "no_data")
  /\ UNCHANGED state
ReadBatchRowsUnmarked(f) ==
  /\ f.ret /= "error" /\ f.n \in 1 .. Len(buffer)
  /\ returned' = returned \o [i \in 1 .. f.n |-> RowAt(Filled(f), i, f.pos, f.n)]
  /\ forgone' = forgone \cup Unread
  /\ ended' = (f.ret = "no_data")
  /\ UNCHANGED <<rowIdx, state>>

ReadBatchRows(f) ==
  /\ f.ret /= "error" /\ f.n > 0
  /\ rowIdx' = f.n
  /\ forgone' = forgone \cup Unread
  /\ IF f.n > Len(buffer)
     THEN state' = "panicked" /\ UNCHANGED <<returned, ended>>
     ELSE /\ returned' = returned \o [i \in 1 .. f.n |-> RowAt(Filled(f), i, f.pos, f.n)]
          /\ ended' = (f.ret = "no_data")
          /\ UNCHANGED state

ReadBatch ==
  /\ state = "open" /\ ~ended
  /\ \E f \in SQLFetch :
       /\ rowsFetched' = f.n
       /\ cli' = [cli EXCEPT !.pos = f.pos]
       /\ buffer' = Filled(f)
       /\ \/ ReadBatchNothing(f) \/ ReadBatchShortMask(f)
          \/ ReadBatchUndecoded(f) \/ ReadBatchRows(f)
  /\ UNCHANGED <<results, fetchSize, cut, resetFailed>>

Next == Query \/ NextResultSet \/ Close \/ NextRow \/ NextFetch \/ ReadBatch

Spec == Init /\ [][Next]_vars

------------------------------------------------------------------------------
\* The variables have their types.
TypeOK ==
  /\ state \in {"closed", "open", "panicked"}
  /\ results \in Seq(ResultSet)
  /\ cli \in [set : 1 .. MaxSets, pos : 0 .. MaxRows, size : FetchSizes \cup {1},
              bound : 0 .. 1]
  /\ fetchSize \in FetchSizes \cup {1}
  /\ rowsFetched \in 0 .. MaxRows
  /\ buffer \in Seq(0 .. MaxRows)
  /\ rowIdx \in 0 .. MaxRows
  /\ \A i \in DOMAIN returned : returned[i] \in [bound : 1 .. MaxRows, lob : 1 .. MaxRows]
  /\ forgone \subseteq 1 .. MaxRows
  /\ ended \in BOOLEAN /\ cut \in BOOLEAN /\ resetFailed \in BOOLEAN

\* Between its rowsets, its retries after an error, its switches between Next
\* and ReadBatch and its executions, a Rows never returns a row twice, out of
\* order, from an earlier result, or with the LOB of another row.
RowsInOrder ==
  ~resetFailed =>
    /\ \A i \in DOMAIN returned : returned[i].bound = returned[i].lob
    /\ \A i, j \in DOMAIN returned : i < j => returned[i].bound < returned[j].bound

\* When the client is told io.EOF it has got every row, except for those it
\* gave up by calling ReadBatch in the middle of a rowset or with unfit
\* arguments; unless Next took the last rowset for the end.
CompleteAtEOF ==
  state = "open" /\ ended /\ ~cut /\ ~resetFailed =>
    {returned[i].bound : i \in DOMAIN returned} \cup forgone = 1 .. Current.rows

\* RowsFetched, the buffers and the cursor agree: SQLFetch never writes past the
\* buffers, the slots that Next may still read hold the rows last fetched, of
\* this result set, and a set with a LOB is read one row at a time, as
\* SQLGetData needs; unless resetting the size failed.
RowsetInBuffer ==
  state = "open" /\ ~resetFailed =>
    /\ cli.size <= Len(buffer)
    /\ Current.lob => cli.size = 1
    /\ rowsFetched <= Len(buffer)
    /\ \A i \in 1 .. rowsFetched : buffer[i] = cli.pos - rowsFetched + i

\* Next and ReadBatch index the buffers out of range only when FetchSize was
\* set to 1 and SQL_ATTR_ROW_ARRAY_SIZE could not be: the CLI then fetches more
\* rows than the statement's later results have buffers for.
PanicExplained == state = "panicked" => resetFailed

\* odbcstmt.go:316-318: "SQLGetData may only be called on columns after the
\* last bound column".
GetDataAfterBound ==
  state = "open" /\ Current.lob => cli.bound <= Current.bindable
==============================================================================
