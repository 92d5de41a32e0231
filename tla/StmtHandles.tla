----------------------------- MODULE StmtHandles -----------------------------
(***************************************************************************)
(* The statement handles of one connection of go_ibm_db: the ODBCStmt that *)
(* a Stmt and a Rows share (odbcstmt.go), the calls of Stmt (stmt.go),     *)
(* Rows (rows.go) and Conn (conn.go) that create, use and give it up, and  *)
(* the counter of Stats (stats.go, handle.go).                             *)
(*                                                                         *)
(* database/sql runs at most one driver call at a time on a connection, so *)
(* a call is one action.  Every CLI function a call uses may fail: an      *)
(* operator below returns the SET of outcomes [os, n, ok] of the function  *)
(* it is named after: the ODBCStmt it leaves, what it adds to              *)
(* Stats.StmtCount, and whether its error is nil.                          *)
(***************************************************************************)
EXTENDS Integers, FiniteSets

CONSTANTS ODBCStmts,   \* the ODBCStmt objects, each with its HSTMT
          Stmts,       \* the Stmt objects
          RowSets,     \* the Rows objects
          None         \* Go's nil

ASSUME NoneAssumption == None \notin ODBCStmts

VARIABLES os,          \* [ODBCStmts -> ODBCStmt]
          stmt,        \* [Stmts -> what the client has, and its os field]
          rows,        \* [RowSets -> the same]
          stmtCount,   \* drv.Stats.StmtCount
          conn,        \* "open", "closed"
          lost,        \* ODBCStmts whose only reference an error return dropped
          ok           \* did the last call return a nil error?

vars == <<os, stmt, rows, stmtCount, conn, lost, ok>>

\* hstmt is the handle as the CLI library sees it: "dropped" when
\* SQLDisconnect freed it.  h is whether the Go field h holds it, cursor
\* whether a result set is open on it.
ODBCStmt == [hstmt : {"none", "live", "freed", "dropped"}, h : BOOLEAN,
             usedByStmt : BOOLEAN, usedByRows : BOOLEAN, cursor : BOOLEAN]

NotAllocated == [hstmt |-> "none", h |-> FALSE, usedByStmt |-> FALSE,
                 usedByRows |-> FALSE, cursor |-> FALSE]

Allocated == [NotAllocated EXCEPT !.hstmt = "live", !.h = TRUE]

\* A Stmt or a Rows: what the client made of it, and its field os.
Object == [state : {"new", "open", "closed"}, os : ODBCStmts \cup {None}]

Open(x) == [state |-> "open", os |-> x]
Closed(x) == [state |-> "closed", os |-> x]

Outcome(r, n, good) == [os |-> r, n |-> n, ok |-> good]

Init == /\ os = [x \in ODBCStmts |-> NotAllocated]
        /\ stmt = [s \in Stmts |-> [state |-> "new", os |-> None]]
        /\ rows = [w \in RowSets |-> [state |-> "new", os |-> None]]
        /\ stmtCount = 0
        /\ conn = "open"
        /\ lost = {}
        /\ ok = TRUE

------------------------------------------------------------------------------
\* The functions of odbcstmt.go and handle.go.

\* Fault variant: counts a handle as freed when SQLFreeHandle refused it.
releaseHandleOvercount(r) ==
  { Outcome([r EXCEPT !.h = FALSE, !.hstmt = IF freed THEN "freed" ELSE r.hstmt],
            -1, freed) : freed \in IF r.h THEN BOOLEAN ELSE {FALSE} }

\* The field h is cleared before SQLFreeHandle is tried, so a handle that
\* could not be freed is not tried again.
releaseHandle(r) ==
  { Outcome([r EXCEPT !.h = FALSE,
                      !.hstmt = IF freed THEN "freed" ELSE r.hstmt,
                      !.cursor = r.cursor /\ ~freed],
            IF freed THEN -1 ELSE 0, freed)
      : freed \in IF r.h THEN BOOLEAN ELSE {FALSE} }

\* Fault variants: release without looking at usedByRows; clear both flags;
\* close the cursor of the Rows.
closeByStmtAlways(r) ==
  { [out EXCEPT !.os.usedByStmt = FALSE] : out \in releaseHandle(r) }
closeByStmtBothFlags(r) ==
  { Outcome([r EXCEPT !.usedByStmt = FALSE, !.usedByRows = FALSE], 0, TRUE) }
closeByStmtCursor(r) ==
  IF r.usedByStmt /\ ~r.usedByRows
  THEN { [out EXCEPT !.os.usedByStmt = FALSE] : out \in releaseHandle(r) }
  ELSE { Outcome([r EXCEPT !.usedByStmt = FALSE, !.cursor = FALSE], 0, TRUE) }

closeByStmt(r) ==
  IF r.usedByStmt /\ ~r.usedByRows
  THEN { [out EXCEPT !.os.usedByStmt = FALSE] : out \in releaseHandle(r) }
  ELSE { Outcome([r EXCEPT !.usedByStmt = FALSE], 0, TRUE) }

\* SQLCloseCursor refuses a statement without a cursor (SQLSTATE 24000).
SQLCloseCursor(r) ==
  { Outcome([r EXCEPT !.cursor = r.cursor /\ ~closed], 0, closed)
      : closed \in IF r.cursor THEN BOOLEAN ELSE {FALSE} }

\* Fault variants: never release; leave the cursor of the Stmt open.
closeByRowsNoRelease(r) ==
  { Outcome([r EXCEPT !.usedByRows = FALSE, !.cursor = FALSE], 0, TRUE) }
closeByRowsNoCursor(r) ==
  IF r.usedByStmt THEN { Outcome([r EXCEPT !.usedByRows = FALSE], 0, TRUE) }
  ELSE { [out EXCEPT !.os.usedByRows = FALSE] : out \in releaseHandle(r) }

closeByRows(r) ==
  IF ~r.usedByRows THEN { Outcome(r, 0, TRUE) }
  ELSE { [out EXCEPT !.os.usedByRows = FALSE]
           : out \in IF r.usedByStmt THEN SQLCloseCursor(r) ELSE releaseHandle(r) }

\* Fault variant: a new handle is not counted.
NewHandleUncounted ==
  { Outcome(NotAllocated, 0, FALSE), Outcome(Allocated, 0, TRUE) }

\* A new handle: not allocated, or given back because a later step failed,
\* or ready.
NewHandle ==
  { Outcome(NotAllocated, 0, FALSE), Outcome(Allocated, 1, TRUE) }
    \cup { Outcome(out.os, 1 + out.n, FALSE) : out \in releaseHandle(Allocated) }

PrepareODBCStmt ==
  { [out EXCEPT !.os.usedByStmt = out.ok] : out \in NewHandle }

\* SQLExecute refuses a statement whose cursor is open (24000).  It may fail
\* after execution too: ConvertAssign of an output parameter.
Exec(r) ==
  IF r.cursor THEN { Outcome(r, 0, FALSE) }
  ELSE { Outcome([r EXCEPT !.cursor = c], 0, TRUE) : c \in BOOLEAN }
         \cup { Outcome([r EXCEPT !.cursor = c], 0, FALSE) : c \in BOOLEAN }

\* Needs a result set; describing or binding its columns may fail.
BindColumns(r) ==
  { Outcome(r, 0, good) : good \in IF r.cursor THEN BOOLEAN ELSE {FALSE} }

\* The tail of Stmt.exec: when the loop over SQLRowCount and SQLMoreResults
\* ends every result is consumed, and an expired context still makes the call
\* fail; when SQLRowCount fails the current result is left as it is.
RowCounts(r) ==
  { Outcome([r EXCEPT !.cursor = c], 0, FALSE) : c \in BOOLEAN }
    \cup { Outcome([r EXCEPT !.cursor = FALSE], 0, TRUE) }

exec(r) ==
  UNION { IF e.ok THEN RowCounts(e.os) ELSE {e} : e \in Exec(r) }

\* Fault variant: the Rows does not become a user.
query1NoRows(r) ==
  UNION { IF e.ok THEN BindColumns(e.os) ELSE {e} : e \in Exec(r) }

\* Exec, BindColumns, then the Rows becomes a user of the ODBCStmt.
query1(r) ==
  UNION { IF e.ok THEN { [b EXCEPT !.os.usedByRows = r.usedByRows \/ b.ok]
                           : b \in BindColumns(e.os) }
                  ELSE {e} : e \in Exec(r) }

\* SQLMoreResults ends the current result; the next one is bound, if it is
\* a result set.
MoreResults(r) ==
  { Outcome(r, 0, FALSE), Outcome([r EXCEPT !.cursor = FALSE], 0, FALSE),
    Outcome([r EXCEPT !.cursor = TRUE], 0, FALSE),
    Outcome([r EXCEPT !.cursor = TRUE], 0, TRUE) }

------------------------------------------------------------------------------
Fresh(x) == os[x].hstmt = "none"

\* The call returned the given error and counted n handles.
Return(good, n) == /\ ok' = good
                   /\ stmtCount' = stmtCount + n

\* PrepareContext: an expired context drops the prepared statement.
Prepare(s, x) ==
  /\ conn = "open" /\ stmt[s].state = "new" /\ Fresh(x)
  /\ \E p \in PrepareODBCStmt, expired \in BOOLEAN :
       /\ os' = [os EXCEPT ![x] = p.os]
       /\ lost' = IF p.ok /\ expired THEN lost \cup {x} ELSE lost
       /\ stmt' = IF p.ok /\ ~expired
                  THEN [stmt EXCEPT ![s] = Open(x)]
                  ELSE stmt
       /\ Return(p.ok /\ ~expired, p.n)
  /\ UNCHANGED <<rows, conn>>

\* Stmt.Exec when no Rows uses the ODBCStmt of s.
ExecReuse(s) ==
  /\ stmt[s].state = "open" /\ stmt[s].os # None
  /\ ~os[stmt[s].os].usedByRows
  /\ \E e \in exec(os[stmt[s].os]) :
       /\ os' = [os EXCEPT ![stmt[s].os] = e.os]
       /\ Return(e.ok, e.n)
  /\ UNCHANGED <<stmt, rows, conn, lost>>

\* Stmt.Exec when a Rows uses it: the Rows keeps it, s prepares another.
ExecRenew(s, x) ==
  /\ stmt[s].state = "open" /\ stmt[s].os # None /\ Fresh(x)
  /\ os[stmt[s].os].usedByRows
  /\ \E c \in closeByStmt(os[stmt[s].os]), p \in PrepareODBCStmt :
       \E e \in IF p.ok THEN exec(p.os) ELSE { Outcome(p.os, 0, FALSE) } :
         /\ os' = [os EXCEPT ![stmt[s].os] = c.os, ![x] = e.os]
         /\ stmt' = [stmt EXCEPT ![s] = Open(IF p.ok THEN x ELSE None)]
         /\ Return(e.ok, c.n + p.n + e.n)
  /\ UNCHANGED <<rows, conn, lost>>

\* What query1 returns for the ODBCStmt x: a Rows, unless it failed or its
\* context had expired by the end.
ReturnRows(q, w, x) ==
  \E expired \in BOOLEAN :
    /\ rows' = IF q.ok /\ ~expired
               THEN [rows EXCEPT ![w] = Open(x)]
               ELSE rows
    /\ lost' = IF q.ok /\ expired THEN lost \cup {x} ELSE lost
    /\ ok' = (q.ok /\ ~expired)

\* Stmt.Query when no Rows uses the ODBCStmt of s.
QueryReuse(s, w) ==
  /\ stmt[s].state = "open" /\ stmt[s].os # None /\ rows[w].state = "new"
  /\ ~os[stmt[s].os].usedByRows
  /\ \E q \in query1(os[stmt[s].os]) :
       /\ os' = [os EXCEPT ![stmt[s].os] = q.os]
       /\ ReturnRows(q, w, stmt[s].os)
       /\ stmtCount' = stmtCount + q.n
  /\ UNCHANGED <<stmt, conn>>

\* Stmt.Query when a Rows uses it.
QueryRenew(s, w, x) ==
  /\ stmt[s].state = "open" /\ stmt[s].os # None /\ rows[w].state = "new"
  /\ Fresh(x) /\ os[stmt[s].os].usedByRows
  /\ \E c \in closeByStmt(os[stmt[s].os]), p \in PrepareODBCStmt :
       \E q \in IF p.ok THEN query1(p.os) ELSE { Outcome(p.os, 0, FALSE) } :
         /\ os' = [os EXCEPT ![stmt[s].os] = c.os, ![x] = q.os]
         /\ stmt' = [stmt EXCEPT ![s] = Open(IF p.ok THEN x ELSE None)]
         /\ ReturnRows(q, w, x)
         /\ stmtCount' = stmtCount + c.n + p.n + q.n
  /\ UNCHANGED conn

\* Exec, Query on a Stmt that lost its ODBCStmt in a failed re-prepare.
UseWithoutHandle(s) ==
  /\ stmt[s].state = "open" /\ stmt[s].os = None
  /\ Return(FALSE, 0)
  /\ UNCHANGED <<os, stmt, rows, conn, lost>>

StmtClose(s) ==
  /\ stmt[s].state = "open"
  /\ stmt' = [stmt EXCEPT ![s] = Closed(None)]
  /\ IF stmt[s].os = None
     THEN Return(FALSE, 0) /\ os' = os
     ELSE \E c \in closeByStmt(os[stmt[s].os]) :
            /\ os' = [os EXCEPT ![stmt[s].os] = c.os]
            /\ Return(c.ok, c.n)
  /\ UNCHANGED <<rows, conn, lost>>

NextResultSet(w) ==
  /\ rows[w].state = "open"
  /\ \E m \in MoreResults(os[rows[w].os]) :
       /\ os' = [os EXCEPT ![rows[w].os] = m.os]
       /\ Return(m.ok, m.n)
  /\ UNCHANGED <<stmt, rows, conn, lost>>

RowsClose(w) ==
  /\ rows[w].state = "open"
  /\ \E c \in closeByRows(os[rows[w].os]) :
       /\ os' = [os EXCEPT ![rows[w].os] = c.os]
       /\ Return(c.ok, c.n)
  /\ rows' = [rows EXCEPT ![w] = Closed(rows[w].os)]
  /\ UNCHANGED <<stmt, conn, lost>>

\* Conn.Query: SQLExecDirect on a handle no Stmt uses.  When BindColumns
\* fails the handle is not released.
ConnQuery(w, x) ==
  /\ conn = "open" /\ rows[w].state = "new" /\ Fresh(x)
  /\ \E p \in NewHandle, c \in BOOLEAN :
       \E b \in IF p.ok
                THEN BindColumns([p.os EXCEPT !.usedByRows = TRUE, !.cursor = c])
                ELSE { Outcome(p.os, 0, FALSE) } :
         /\ os' = [os EXCEPT ![x] = b.os]
         /\ rows' = IF b.ok
                    THEN [rows EXCEPT ![w] = Open(x)]
                    ELSE rows
         /\ lost' = IF p.ok /\ ~b.ok THEN lost \cup {x} ELSE lost
         /\ Return(b.ok, p.n)
  /\ UNCHANGED <<stmt, conn>>

\* Conn.QueryBatch: as Conn.Query, prepared, and it cleans up.
QueryBatch(w, x) ==
  /\ conn = "open" /\ rows[w].state = "new" /\ Fresh(x)
  /\ \E p \in PrepareODBCStmt :
       \E q \in IF p.ok THEN query1([p.os EXCEPT !.usedByStmt = FALSE])
                ELSE { Outcome(p.os, 0, FALSE) } :
       \E f \in IF p.ok /\ ~q.ok THEN releaseHandle(q.os)
                ELSE { Outcome(q.os, 0, TRUE) } :
         /\ os' = [os EXCEPT ![x] = f.os]
         /\ rows' = IF q.ok
                    THEN [rows EXCEPT ![w] = Open(x)]
                    ELSE rows
         /\ Return(q.ok, p.n + q.n + f.n)
  /\ UNCHANGED <<stmt, conn, lost>>

\* database/sql closes a connection when no Stmt and no Rows of it is open.
\* SQLDisconnect frees the statement handles that are left, uncounted.
ConnClose ==
  /\ conn = "open"
  /\ \A s \in Stmts : stmt[s].state # "open"
  /\ \A w \in RowSets : rows[w].state # "open"
  /\ conn' = "closed"
  /\ \E good \in BOOLEAN :
       /\ Return(good, 0)
       /\ os' = IF good
                THEN [x \in ODBCStmts |->
                        IF os[x].hstmt = "live"
                        THEN [os[x] EXCEPT !.hstmt = "dropped", !.cursor = FALSE]
                        ELSE os[x]]
                ELSE os
  /\ UNCHANGED <<stmt, rows, lost>>

Next ==
  \/ \E s \in Stmts, x \in ODBCStmts : Prepare(s, x) \/ ExecRenew(s, x)
  \/ \E s \in Stmts : ExecReuse(s) \/ UseWithoutHandle(s) \/ StmtClose(s)
  \/ \E s \in Stmts, w \in RowSets : QueryReuse(s, w)
  \/ \E s \in Stmts, w \in RowSets, x \in ODBCStmts : QueryRenew(s, w, x)
  \/ \E w \in RowSets : NextResultSet(w) \/ RowsClose(w)
  \/ \E w \in RowSets, x \in ODBCStmts : ConnQuery(w, x) \/ QueryBatch(w, x)
  \/ ConnClose

Spec == Init /\ [][Next]_vars

------------------------------------------------------------------------------
\* Every variable has its type; the counter of Stats is never negative.
TypeOK == /\ os \in [ODBCStmts -> ODBCStmt]
          /\ stmt \in [Stmts -> Object]
          /\ rows \in [RowSets -> Object]
          /\ stmtCount \in Nat
          /\ conn \in {"open", "closed"}
          /\ lost \subseteq ODBCStmts
          /\ ok \in BOOLEAN

StmtHolds(s, x) == stmt[s].state = "open" /\ stmt[s].os = x
RowsHolds(w, x) == rows[w].state = "open" /\ rows[w].os = x

Usable(x) == x \in ODBCStmts /\ os[x].hstmt = "live" /\ os[x].h

\* An open Stmt or Rows refers to a handle that is still allocated, in
\* whatever order the two were closed, executed again or failed: no call of
\* stmt.go or rows.go passes a freed handle to the CLI library.
OwnersHoldLiveHandle ==
  /\ \A s \in Stmts : stmt[s].state = "open" /\ stmt[s].os # None
                        => Usable(stmt[s].os)
  /\ \A w \in RowSets : rows[w].state = "open" => Usable(rows[w].os)

\* Two open Stmts never share a handle, nor do two open Rows: a second query
\* on a Stmt does not run on the handle an earlier Rows still reads.
NoSharedHandle ==
  \A x \in ODBCStmts :
    /\ \A s, t \in Stmts : StmtHolds(s, x) /\ StmtHolds(t, x) => s = t
    /\ \A w, v \in RowSets : RowsHolds(w, x) /\ RowsHolds(v, x) => w = v

\* The only handles the driver forgets to release are those of the error
\* returns recorded in lost: PrepareContext and query1 with an expired
\* context, Conn.Query when BindColumns fails (and those that SQLFreeHandle
\* itself refused, whose h is cleared).  A panic of Exec, which ends the call
\* without an error return, is not considered: in QueryBatch it drops a handle.
LeaksExplained ==
  \A x \in ODBCStmts :
    Usable(x) => \/ \E s \in Stmts : StmtHolds(s, x)
                 \/ \E w \in RowSets : RowsHolds(w, x)
                 \/ x \in lost

Counted == { x \in ODBCStmts : os[x].hstmt \in {"live", "dropped"} }

\* Stats.StmtCount is the number of handles allocated and not freed by
\* releaseHandle, on every error path.  The handles that SQLDisconnect frees
\* stay counted.
StmtCountExact == stmtCount = Cardinality(Counted)

\* The inductive invariant.  Beyond the properties above it says when the
\* flags usedByStmt and usedByRows of a usable ODBCStmt tell the truth: unless
\* an error return dropped the object, each flag that is set stands for an
\* open object that refers to it.
FlagsTellOf(x) ==
  /\ os[x].hstmt = "none" => os[x] = NotAllocated
  /\ os[x].h => os[x].usedByStmt \/ os[x].usedByRows
  /\ \A s \in Stmts : StmtHolds(s, x) => Usable(x) /\ os[x].usedByStmt
  /\ \A w \in RowSets : RowsHolds(w, x) => Usable(x) /\ os[x].usedByRows
  /\ Usable(x) /\ os[x].usedByStmt
       => x \in lost \/ \E s \in Stmts : StmtHolds(s, x)
  /\ Usable(x) /\ os[x].usedByRows
       => x \in lost \/ \E w \in RowSets : RowsHolds(w, x)

FlagsTell == \A x \in ODBCStmts : FlagsTellOf(x)

OpenHasHandle == \A w \in RowSets : rows[w].state = "open" => rows[w].os # None

CountInv == IsFiniteSet(Counted) /\ StmtCountExact

IInv == /\ TypeOK
        /\ NoSharedHandle
        /\ FlagsTell
        /\ OpenHasHandle
        /\ CountInv

Idle(r) == r.hstmt = "live" /\ r.h /\ ~r.usedByRows

\* A call that returns a nil error never leaves an ODBCStmt that no Rows uses
\* with an open cursor, on which every later Exec or Query would fail.
SuccessLeavesNoStrayCursor ==
  [][ ok' => \A x \in ODBCStmts :
               os'[x] # os[x] /\ Idle(os'[x]) => ~os'[x].cursor ]_vars

\* While a Rows stays open, only its own NextResultSet moves its cursor: not
\* the Stmt that created it, executed again or closed.
RowsKeepTheirCursor ==
  [][ \A w \in RowSets :
        rows[w].state = "open" /\ rows'[w].state = "open"
          => \/ os'[rows[w].os].cursor = os[rows[w].os].cursor
             \/ \E m \in MoreResults(os[rows[w].os]) :
                  os' = [os EXCEPT ![rows[w].os] = m.os] ]_vars

\* The abstract state of a handle.
Phase(x) == IF os[x].hstmt = "none" THEN "unused"
            ELSE IF Usable(x) THEN "held" ELSE "gone"
Users(x) == (IF os[x].usedByStmt THEN {"stmt"} ELSE {})
              \cup (IF os[x].usedByRows THEN {"rows"} ELSE {})

\* The driver's handling of its statement handles implements HandleOwnership:
\* each is given to SQLFreeHandle at most once, by its last user.
Ownership == INSTANCE HandleOwnership WITH
  Handles <- ODBCStmts,
  phase <- [x \in ODBCStmts |-> Phase(x)],
  users <- [x \in ODBCStmts |-> Users(x)]

OwnershipSpec == Ownership!Spec
==============================================================================
