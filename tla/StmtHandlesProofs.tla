-------------------------- MODULE StmtHandlesProofs --------------------------
(***************************************************************************)
(* Proofs about StmtHandles, for any sets of ODBCStmts, Stmts and RowSets. *)
(* The first lemmas say what one CLI-level function does to one ODBCStmt;  *)
(* the second group, what one driver call does to the flags and to the     *)
(* references; the theorems follow by the inductive invariant IInv.        *)
(***************************************************************************)
EXTENDS StmtHandles, FiniteSetTheorems, TLAPS

\* releaseHandle clears h, keeps the users' flags, and counts -1 exactly when
\* it freed a live handle.
LEMMA ReleaseHandleOutcome ==
  ASSUME NEW r \in ODBCStmt, NEW out \in releaseHandle(r)
  PROVE  /\ out = Outcome(out.os, out.n, out.ok)
         /\ out.os \in ODBCStmt /\ out.ok \in BOOLEAN
         /\ ~out.os.h
         /\ out.os.usedByStmt = r.usedByStmt /\ out.os.usedByRows = r.usedByRows
         /\ \/ out.n = -1 /\ r.h /\ out.os.hstmt = "freed"
            \/ out.n = 0 /\ out.os.hstmt = r.hstmt
  <1>1. PICK freed \in IF r.h THEN BOOLEAN ELSE {FALSE} :
          out = Outcome([r EXCEPT !.h = FALSE,
                                  !.hstmt = IF freed THEN "freed" ELSE r.hstmt,
                                  !.cursor = r.cursor /\ ~freed],
                        IF freed THEN -1 ELSE 0, freed)
    BY DEF releaseHandle
  <1>2. CASE freed
    <2>1. /\ out.os = [r EXCEPT !.h = FALSE, !.hstmt = "freed", !.cursor = FALSE]
          /\ out.n = -1 /\ out.ok = TRUE /\ r.h
      BY <1>1, <1>2 DEF Outcome, ODBCStmt
    <2> QED BY <1>1, <2>1 DEF Outcome, ODBCStmt
  <1>3. CASE ~freed
    <2>1. /\ out.os = [r EXCEPT !.h = FALSE, !.hstmt = r.hstmt, !.cursor = r.cursor]
          /\ out.n = 0 /\ out.ok = FALSE
      BY <1>1, <1>3 DEF Outcome, ODBCStmt
    <2> QED BY <1>1, <2>1 DEF Outcome, ODBCStmt
  <1> QED BY <1>2, <1>3

\* closeByStmt gives up the Stmt's flag; the handle survives it when a Rows
\* uses it and is released when none does.
LEMMA CloseByStmtOutcome ==
  ASSUME NEW r \in ODBCStmt, r.usedByStmt, NEW out \in closeByStmt(r)
  PROVE  /\ out.os \in ODBCStmt /\ out.ok \in BOOLEAN
         /\ ~out.os.usedByStmt /\ out.os.usedByRows = r.usedByRows
         /\ r.usedByRows => /\ out.n = 0 /\ out.os.h = r.h
                            /\ out.os.hstmt = r.hstmt
         /\ ~r.usedByRows => ~out.os.h
         /\ \/ out.n = -1 /\ r.h /\ out.os.hstmt = "freed"
            \/ out.n = 0 /\ out.os.hstmt = r.hstmt
  <1>1. CASE r.usedByRows
    <2>1. out = Outcome([r EXCEPT !.usedByStmt = FALSE], 0, TRUE)
      BY <1>1 DEF closeByStmt
    <2>2. out.os = [r EXCEPT !.usedByStmt = FALSE] /\ out.n = 0 /\ out.ok = TRUE
      BY <2>1 DEF Outcome
    <2> QED BY <1>1, <2>2 DEF ODBCStmt
  <1>2. CASE ~r.usedByRows
    <2>1. PICK o \in releaseHandle(r) : out = [o EXCEPT !.os.usedByStmt = FALSE]
      BY <1>2 DEF closeByStmt
    <2>2. /\ out.os = [o.os EXCEPT !.usedByStmt = FALSE]
          /\ out.n = o.n /\ out.ok = o.ok
      BY <2>1, ReleaseHandleOutcome DEF Outcome
    <2>3. /\ o.os \in ODBCStmt /\ o.ok \in BOOLEAN /\ ~o.os.h
          /\ o.os.usedByRows = r.usedByRows
          /\ \/ o.n = -1 /\ r.h /\ o.os.hstmt = "freed"
             \/ o.n = 0 /\ o.os.hstmt = r.hstmt
      BY ReleaseHandleOutcome
    <2>4. /\ out.os \in ODBCStmt /\ ~out.os.usedByStmt
          /\ out.os.usedByRows = o.os.usedByRows
          /\ out.os.h = o.os.h /\ out.os.hstmt = o.os.hstmt
      BY <2>2, <2>3 DEF ODBCStmt
    <2> QED BY <1>2, <2>2, <2>3, <2>4
  <1> QED BY <1>1, <1>2

\* closeByRows gives up the Rows' flag; the handle survives it when a Stmt
\* uses it and is released when none does.
LEMMA CloseByRowsOutcome ==
  ASSUME NEW r \in ODBCStmt, r.usedByRows, NEW out \in closeByRows(r)
  PROVE  /\ out.os \in ODBCStmt /\ out.ok \in BOOLEAN
         /\ ~out.os.usedByRows /\ out.os.usedByStmt = r.usedByStmt
         /\ r.usedByStmt => /\ out.n = 0 /\ out.os.h = r.h
                            /\ out.os.hstmt = r.hstmt
         /\ ~r.usedByStmt => ~out.os.h
         /\ \/ out.n = -1 /\ r.h /\ out.os.hstmt = "freed"
            \/ out.n = 0 /\ out.os.hstmt = r.hstmt
  <1>1. CASE r.usedByStmt
    <2>1. PICK o \in SQLCloseCursor(r) : out = [o EXCEPT !.os.usedByRows = FALSE]
      BY <1>1 DEF closeByRows
    <2>2. PICK c \in BOOLEAN :
            o = Outcome([r EXCEPT !.cursor = r.cursor /\ ~c], 0, c)
      BY DEF SQLCloseCursor
    <2>3. /\ out.os = [r EXCEPT !.cursor = r.cursor /\ ~c, !.usedByRows = FALSE]
          /\ out.n = 0 /\ out.ok = c
      BY <2>1, <2>2 DEF Outcome, ODBCStmt
    <2> QED BY <1>1, <2>3 DEF ODBCStmt
  <1>2. CASE ~r.usedByStmt
    <2>1. PICK o \in releaseHandle(r) : out = [o EXCEPT !.os.usedByRows = FALSE]
      BY <1>2 DEF closeByRows
    <2>2. /\ out.os = [o.os EXCEPT !.usedByRows = FALSE]
          /\ out.n = o.n /\ out.ok = o.ok
      BY <2>1, ReleaseHandleOutcome DEF Outcome
    <2>3. /\ o.os \in ODBCStmt /\ o.ok \in BOOLEAN /\ ~o.os.h
          /\ o.os.usedByStmt = r.usedByStmt
          /\ \/ o.n = -1 /\ r.h /\ o.os.hstmt = "freed"
             \/ o.n = 0 /\ o.os.hstmt = r.hstmt
      BY ReleaseHandleOutcome
    <2>4. /\ out.os \in ODBCStmt /\ ~out.os.usedByRows
          /\ out.os.usedByStmt = o.os.usedByStmt
          /\ out.os.h = o.os.h /\ out.os.hstmt = o.os.hstmt
      BY <2>2, <2>3 DEF ODBCStmt
    <2> QED BY <1>2, <2>2, <2>3, <2>4
  <1> QED BY <1>1, <1>2

\* What is left of a handle a call tried to allocate: nothing, a handle that
\* was given back, or one nobody uses yet, counted.
LEMMA NewHandleOutcome ==
  ASSUME NEW p \in NewHandle
  PROVE  /\ p.os \in ODBCStmt /\ p.ok \in BOOLEAN
         /\ p = Outcome(p.os, p.n, p.ok)
         /\ ~p.os.usedByStmt /\ ~p.os.usedByRows
         /\ p.ok => p.os.h /\ p.os.hstmt = "live" /\ p.n = 1
         /\ ~p.ok => ~p.os.h
         /\ \/ p.os = NotAllocated /\ p.n = 0
            \/ p.os.hstmt = "freed" /\ p.n = 0
            \/ p.os.hstmt = "live" /\ p.n = 1
  <1>1. Allocated \in ODBCStmt /\ NotAllocated \in ODBCStmt
    BY DEF Allocated, NotAllocated, ODBCStmt
  <1>2. /\ Allocated.h /\ Allocated.hstmt = "live"
        /\ ~Allocated.usedByStmt /\ ~Allocated.usedByRows
        /\ ~NotAllocated.h /\ ~NotAllocated.usedByStmt /\ ~NotAllocated.usedByRows
    BY DEF Allocated, NotAllocated
  <1>3. CASE p = Outcome(NotAllocated, 0, FALSE)
    BY <1>1, <1>2, <1>3 DEF Outcome
  <1>4. CASE p = Outcome(Allocated, 1, TRUE)
    BY <1>1, <1>2, <1>4 DEF Outcome
  <1>5. ASSUME NEW out \in releaseHandle(Allocated),
               p = Outcome(out.os, 1 + out.n, FALSE)
        PROVE  /\ p.os \in ODBCStmt /\ p.ok = FALSE
               /\ p = Outcome(p.os, p.n, p.ok)
               /\ ~p.os.usedByStmt /\ ~p.os.usedByRows /\ ~p.os.h
               /\ \/ p.os.hstmt = "freed" /\ p.n = 0
                  \/ p.os.hstmt = "live" /\ p.n = 1
    <2>1. /\ out.os \in ODBCStmt /\ ~out.os.h
          /\ ~out.os.usedByStmt /\ ~out.os.usedByRows
          /\ \/ out.n = -1 /\ out.os.hstmt = "freed"
             \/ out.n = 0 /\ out.os.hstmt = "live"
      BY <1>1, <1>2, ReleaseHandleOutcome
    <2> QED BY <1>5, <2>1 DEF Outcome
  <1> QED BY <1>3, <1>4, <1>5 DEF NewHandle

\* PrepareODBCStmt returns a new handle that the Stmt uses, or nothing.
LEMMA PrepareOutcome ==
  ASSUME NEW p \in PrepareODBCStmt
  PROVE  /\ p.os \in ODBCStmt /\ p.ok \in BOOLEAN
         /\ p.os.usedByStmt = p.ok /\ ~p.os.usedByRows
         /\ p.ok => p.os.h /\ p.os.hstmt = "live" /\ p.n = 1
         /\ ~p.ok => ~p.os.h
         /\ \/ p.os = NotAllocated /\ p.n = 0
            \/ p.os.hstmt = "freed" /\ p.n = 0
            \/ p.os.hstmt = "live" /\ p.n = 1
  <1>1. PICK o \in NewHandle : p = [o EXCEPT !.os.usedByStmt = o.ok]
    BY DEF PrepareODBCStmt
  <1>2. /\ o.os \in ODBCStmt /\ o.ok \in BOOLEAN
        /\ o = Outcome(o.os, o.n, o.ok)
        /\ ~o.os.usedByStmt /\ ~o.os.usedByRows
        /\ o.ok => o.os.h /\ o.os.hstmt = "live" /\ o.n = 1
        /\ ~o.ok => ~o.os.h
        /\ \/ o.os = NotAllocated /\ o.n = 0
           \/ o.os.hstmt = "freed" /\ o.n = 0
           \/ o.os.hstmt = "live" /\ o.n = 1
    BY NewHandleOutcome
  <1>3. p.os = [o.os EXCEPT !.usedByStmt = o.ok] /\ p.n = o.n /\ p.ok = o.ok
    BY <1>1, <1>2 DEF Outcome
  <1>4. /\ p.os \in ODBCStmt /\ p.os.usedByStmt = o.ok
        /\ p.os.h = o.os.h /\ p.os.hstmt = o.os.hstmt
        /\ p.os.usedByRows = o.os.usedByRows
    BY <1>2, <1>3 DEF ODBCStmt
  <1>5. o.os = NotAllocated => p.os = NotAllocated
    <2> SUFFICES ASSUME o.os = NotAllocated PROVE p.os = NotAllocated
      OBVIOUS
    <2>1. o.ok = FALSE
      BY <1>2 DEF NotAllocated
    <2>2. p.os = [NotAllocated EXCEPT !.usedByStmt = FALSE]
      BY <1>3, <2>1
    <2> QED BY <2>2 DEF NotAllocated
  <1> QED BY <1>2, <1>3, <1>4, <1>5

\* The same handle with the same users, whatever became of its cursor.
Kept(out, r) == /\ out.os \in ODBCStmt /\ out.ok \in BOOLEAN /\ out.n = 0
                /\ out.os.hstmt = r.hstmt /\ out.os.h = r.h
                /\ out.os.usedByStmt = r.usedByStmt

LEMMA ExecKeeps ==
  ASSUME NEW r \in ODBCStmt, NEW e \in Exec(r)
  PROVE  Kept(e, r) /\ e.os.usedByRows = r.usedByRows
  <1>1. CASE e = Outcome(r, 0, FALSE)
    BY <1>1 DEF Outcome, Kept
  <1>2. ASSUME NEW c \in BOOLEAN, NEW good \in BOOLEAN,
               e = Outcome([r EXCEPT !.cursor = c], 0, good)
        PROVE  Kept(e, r) /\ e.os.usedByRows = r.usedByRows
    <2>1. e.os = [r EXCEPT !.cursor = c] /\ e.n = 0 /\ e.ok = good
      BY <1>2 DEF Outcome
    <2> QED BY <2>1 DEF Kept, ODBCStmt
  <1>3. CASE e \in { Outcome([r EXCEPT !.cursor = c], 0, TRUE) : c \in BOOLEAN }
    <2>1. PICK c \in BOOLEAN : e = Outcome([r EXCEPT !.cursor = c], 0, TRUE)
      BY <1>3
    <2> QED BY <1>2, <2>1
  <1>4. CASE e \in { Outcome([r EXCEPT !.cursor = c], 0, FALSE) : c \in BOOLEAN }
    <2>1. PICK c \in BOOLEAN : e = Outcome([r EXCEPT !.cursor = c], 0, FALSE)
      BY <1>4
    <2> QED BY <1>2, <2>1
  <1> QED BY <1>1, <1>3, <1>4 DEF Exec

LEMMA RowCountsKeeps ==
  ASSUME NEW r \in ODBCStmt, NEW e \in RowCounts(r)
  PROVE  Kept(e, r) /\ e.os.usedByRows = r.usedByRows
  <1>1. ASSUME NEW c \in BOOLEAN, NEW good \in BOOLEAN,
               e = Outcome([r EXCEPT !.cursor = c], 0, good)
        PROVE  Kept(e, r) /\ e.os.usedByRows = r.usedByRows
    <2>1. e.os = [r EXCEPT !.cursor = c] /\ e.n = 0 /\ e.ok = good
      BY <1>1 DEF Outcome
    <2> QED BY <2>1 DEF Kept, ODBCStmt
  <1>2. CASE e = Outcome([r EXCEPT !.cursor = FALSE], 0, TRUE)
    BY <1>1, <1>2
  <1>3. CASE e \in { Outcome([r EXCEPT !.cursor = c], 0, FALSE) : c \in BOOLEAN }
    <2>1. PICK c \in BOOLEAN : e = Outcome([r EXCEPT !.cursor = c], 0, FALSE)
      BY <1>3
    <2> QED BY <1>1, <2>1
  <1> QED BY <1>2, <1>3 DEF RowCounts

\* Stmt.exec changes nothing but the cursor of the ODBCStmt it executes.
LEMMA ExecLoopKeeps ==
  ASSUME NEW r \in ODBCStmt, NEW e \in exec(r)
  PROVE  Kept(e, r) /\ e.os.usedByRows = r.usedByRows
  <1>1. PICK d \in Exec(r) : e \in IF d.ok THEN RowCounts(d.os) ELSE {d}
    BY DEF exec
  <1>2. Kept(d, r) /\ d.os.usedByRows = r.usedByRows
    BY ExecKeeps
  <1>3. CASE d.ok
    <2>1. Kept(e, d.os) /\ e.os.usedByRows = d.os.usedByRows
      BY <1>1, <1>2, <1>3, RowCountsKeeps DEF Kept
    <2> QED BY <1>2, <2>1 DEF Kept
  <1>4. CASE ~d.ok
    BY <1>1, <1>2, <1>4
  <1> QED BY <1>2, <1>3, <1>4 DEF Kept

LEMMA BindColumnsKeeps ==
  ASSUME NEW r \in ODBCStmt, NEW b \in BindColumns(r)
  PROVE  Kept(b, r) /\ b.os = r /\ b = Outcome(r, 0, b.ok)
  <1>1. PICK good \in BOOLEAN : b = Outcome(r, 0, good)
    BY DEF BindColumns
  <1> QED BY <1>1 DEF Outcome, Kept

\* query1 makes the Rows a user exactly when it succeeds.
LEMMA QueryKeeps ==
  ASSUME NEW r \in ODBCStmt, NEW q \in query1(r), ~r.usedByRows
  PROVE  Kept(q, r) /\ q.os.usedByRows = q.ok
  <1>1. PICK d \in Exec(r) :
          q \in IF d.ok THEN { [b EXCEPT !.os.usedByRows = r.usedByRows \/ b.ok]
                                : b \in BindColumns(d.os) }
                        ELSE {d}
    BY DEF query1
  <1>2. Kept(d, r) /\ d.os.usedByRows = r.usedByRows
    BY ExecKeeps
  <1>3. CASE d.ok
    <2>1. PICK b \in BindColumns(d.os) :
            q = [b EXCEPT !.os.usedByRows = r.usedByRows \/ b.ok]
      BY <1>1, <1>3
    <2>2. Kept(b, d.os) /\ b.os = d.os /\ b = Outcome(d.os, 0, b.ok)
      BY <1>2, BindColumnsKeeps DEF Kept
    <2>3. /\ q.os = [d.os EXCEPT !.usedByRows = r.usedByRows \/ b.ok]
          /\ q.n = 0 /\ q.ok = b.ok
      BY <2>1, <2>2 DEF Outcome
    <2>4. b.ok \in BOOLEAN /\ d.os \in ODBCStmt
      BY <1>2, <2>2 DEF Kept
    <2>5. /\ q.os \in ODBCStmt /\ q.os.usedByRows = q.ok
          /\ q.os.hstmt = d.os.hstmt /\ q.os.h = d.os.h
          /\ q.os.usedByStmt = d.os.usedByStmt
      BY <2>3, <2>4 DEF ODBCStmt
    <2> QED BY <1>2, <2>3, <2>4, <2>5 DEF Kept
  <1>4. CASE ~d.ok
    <2>1. q = d /\ d.ok = FALSE /\ r.usedByRows = FALSE
      BY <1>1, <1>2, <1>4 DEF Kept, ODBCStmt
    <2> QED BY <1>2, <2>1
  <1> QED BY <1>3, <1>4

LEMMA MoreResultsKeeps ==
  ASSUME NEW r \in ODBCStmt, NEW m \in MoreResults(r)
  PROVE  Kept(m, r) /\ m.os.usedByRows = r.usedByRows
  <1>1. CASE m = Outcome(r, 0, FALSE)
    BY <1>1 DEF Outcome, Kept
  <1>2. ASSUME NEW c \in BOOLEAN, NEW good \in BOOLEAN,
               m = Outcome([r EXCEPT !.cursor = c], 0, good)
        PROVE  Kept(m, r) /\ m.os.usedByRows = r.usedByRows
    <2>1. m.os = [r EXCEPT !.cursor = c] /\ m.n = 0 /\ m.ok = good
      BY <1>2 DEF Outcome
    <2> QED BY <2>1 DEF Kept, ODBCStmt
  <1> QED BY <1>1, <1>2 DEF MoreResults

------------------------------------------------------------------------------
\* The part of IInv that does not count.
Types == /\ os \in [ODBCStmts -> ODBCStmt]
         /\ stmt \in [Stmts -> Object]
         /\ rows \in [RowSets -> Object]
         /\ stmtCount \in Int
         /\ conn \in {"open", "closed"}
         /\ lost \subseteq ODBCStmts
         /\ ok \in BOOLEAN

StateInv == Types /\ NoSharedHandle /\ FlagsTell /\ OpenHasHandle

\* A fresh ODBCStmt is unused and nothing refers to it.
LEMMA FreshIsUnused ==
  ASSUME StateInv, NEW x \in ODBCStmts, Fresh(x)
  PROVE  /\ os[x] = NotAllocated
         /\ \A s \in Stmts : ~StmtHolds(s, x)
         /\ \A w \in RowSets : ~RowsHolds(w, x)
  BY DEF StateInv, FlagsTell, FlagsTellOf, Fresh, Usable

\* The ODBCStmt an open Stmt refers to, and the one an open Rows refers to.
LEMMA StmtRefers ==
  ASSUME StateInv, NEW s \in Stmts, stmt[s].state = "open", stmt[s].os # None
  PROVE  /\ stmt[s].os \in ODBCStmts /\ os[stmt[s].os] \in ODBCStmt
         /\ StmtHolds(s, stmt[s].os)
         /\ os[stmt[s].os].usedByStmt
         /\ os[stmt[s].os].hstmt = "live" /\ os[stmt[s].os].h
  BY DEF StateInv, Types, Object, FlagsTell, FlagsTellOf, StmtHolds, Usable

LEMMA RowsRefers ==
  ASSUME StateInv, NEW w \in RowSets, rows[w].state = "open"
  PROVE  /\ rows[w].os \in ODBCStmts /\ os[rows[w].os] \in ODBCStmt
         /\ RowsHolds(w, rows[w].os)
         /\ os[rows[w].os].usedByRows
         /\ os[rows[w].os].hstmt = "live" /\ os[rows[w].os].h
  BY DEF StateInv, Types, Object, OpenHasHandle, FlagsTell, FlagsTellOf,
         RowsHolds, Usable

\* What assigning o to one Stmt, or one Rows, does to the references.
LEMMA StmtUpdate ==
  ASSUME stmt \in [Stmts -> Object], NEW s \in Stmts, NEW o \in Object,
         stmt' = [stmt EXCEPT ![s] = o]
  PROVE  /\ stmt' \in [Stmts -> Object]
         /\ \A t \in Stmts, x \in ODBCStmts :
              StmtHolds(t, x)' <=> IF t = s THEN o.state = "open" /\ o.os = x
                                   ELSE StmtHolds(t, x)
  BY DEF StmtHolds

LEMMA RowsUpdate ==
  ASSUME rows \in [RowSets -> Object], NEW w \in RowSets, NEW o \in Object,
         rows' = [rows EXCEPT ![w] = o]
  PROVE  /\ rows' \in [RowSets -> Object]
         /\ \A v \in RowSets, x \in ODBCStmts :
              RowsHolds(v, x)' <=> IF v = w THEN o.state = "open" /\ o.os = x
                                   ELSE RowsHolds(v, x)
         /\ OpenHasHandle /\ (o.state = "open" => o.os # None) => OpenHasHandle'
  BY DEF RowsHolds, OpenHasHandle

SameStmts == \A t \in Stmts, x \in ODBCStmts : StmtHolds(t, x)' <=> StmtHolds(t, x)
SameRows == \A v \in RowSets, x \in ODBCStmts : RowsHolds(v, x)' <=> RowsHolds(v, x)

LEMMA UnchangedStmts == stmt' = stmt => SameStmts
  BY DEF SameStmts, StmtHolds

LEMMA UnchangedRows == rows' = rows => SameRows
  BY DEF SameRows, RowsHolds

\* A handle that a call does not touch, or of which it moves the cursor only,
\* and the references to it.
Quiet(x) ==
  /\ \/ os'[x] = os[x]
     \/ /\ os[x].hstmt = "live" /\ os'[x].hstmt = "live"
        /\ os'[x].h = os[x].h
        /\ os'[x].usedByStmt = os[x].usedByStmt
        /\ os'[x].usedByRows = os[x].usedByRows
  /\ x \in lost => x \in lost'
  /\ \A s \in Stmts : StmtHolds(s, x)' <=> StmtHolds(s, x)
  /\ \A w \in RowSets : RowsHolds(w, x)' <=> RowsHolds(w, x)

LEMMA QuietKeeps ==
  ASSUME StateInv, NEW x \in ODBCStmts, Quiet(x)
  PROVE  FlagsTellOf(x)'
  <1>1. FlagsTellOf(x)
    BY DEF StateInv, FlagsTell
  <1>2. CASE os'[x] = os[x]
    BY <1>1, <1>2 DEF FlagsTellOf, Quiet, Usable
  <1>3. CASE os'[x] # os[x]
    BY <1>1, <1>3 DEF FlagsTellOf, Quiet, Usable
  <1> QED BY <1>2, <1>3

\* The objects Open and Closed make.
LEMMA OpenClosed ==
  ASSUME NEW x \in ODBCStmts \cup {None}
  PROVE  /\ Open(x) \in Object /\ Open(x).state = "open" /\ Open(x).os = x
         /\ Closed(x) \in Object /\ Closed(x).state = "closed"
  BY DEF Open, Closed, Object

------------------------------------------------------------------------------
\* A call counts what it did to the set of allocated handles.
Counts ==
  \/ Counted' = Counted /\ stmtCount' = stmtCount
  \/ \E x \in ODBCStmts \ Counted :
       Counted' = Counted \cup {x} /\ stmtCount' = stmtCount + 1
  \/ \E x \in Counted :
       Counted' = Counted \ {x} /\ stmtCount' = stmtCount - 1

\* The same, for a call that changed the field hstmt of x only.
LEMMA CountsOne ==
  ASSUME StateInv, NEW x \in ODBCStmts,
         \A z \in ODBCStmts : z # x => os'[z].hstmt = os[z].hstmt,
         \/ os'[x].hstmt = os[x].hstmt /\ stmtCount' = stmtCount
         \/ os[x].hstmt = "none" /\ os'[x].hstmt = "freed" /\ stmtCount' = stmtCount
         \/ os[x].hstmt = "none" /\ os'[x].hstmt = "live" /\ stmtCount' = stmtCount + 1
         \/ os[x].hstmt = "live" /\ os'[x].hstmt = "freed" /\ stmtCount' = stmtCount - 1
  PROVE  Counts
  <1>1. \A z \in ODBCStmts : z # x => (z \in Counted' <=> z \in Counted)
    BY DEF Counted
  <1>2. Counted' \subseteq ODBCStmts /\ Counted \subseteq ODBCStmts
    BY DEF Counted
  <1>3. CASE /\ stmtCount' = stmtCount
             /\ \/ os'[x].hstmt = os[x].hstmt
                \/ os[x].hstmt = "none" /\ os'[x].hstmt = "freed"
    <2>1. x \in Counted' <=> x \in Counted
      BY <1>3 DEF Counted
    <2>2. Counted' = Counted
      <3>1. Counted' \subseteq Counted /\ Counted \subseteq Counted'
        BY <1>1, <1>2, <2>1
      <3> QED BY <3>1
    <2> QED BY <1>3, <2>2 DEF Counts
  <1>4. CASE os[x].hstmt = "none" /\ os'[x].hstmt = "live" /\ stmtCount' = stmtCount + 1
    <2>1. x \in Counted' /\ x \notin Counted
      BY <1>4 DEF Counted
    <2>2. Counted' = Counted \cup {x}
      BY <1>1, <1>2, <2>1
    <2> QED BY <1>4, <2>1, <2>2 DEF Counts
  <1>5. CASE os[x].hstmt = "live" /\ os'[x].hstmt = "freed" /\ stmtCount' = stmtCount - 1
    <2>1. x \notin Counted' /\ x \in Counted
      BY <1>5 DEF Counted
    <2>2. Counted' = Counted \ {x}
      BY <1>1, <1>2, <2>1
    <2> QED BY <1>5, <2>1, <2>2 DEF Counts
  <1> QED BY <1>3, <1>4, <1>5

\* How a call may move one handle: the steps of HandleOwnership, in terms of
\* the fields of the ODBCStmt.
SameFlags(x) == /\ os'[x].usedByStmt <=> os[x].usedByStmt
                /\ os'[x].usedByRows <=> os[x].usedByRows
NoFlags(x) == ~os[x].usedByStmt /\ ~os[x].usedByRows

Move(x) ==
  \/ (Fresh(x)' <=> Fresh(x)) /\ (Usable(x)' <=> Usable(x)) /\ SameFlags(x)
  \/ Fresh(x) /\ Usable(x)' /\ ~NoFlags(x)'
  \/ Fresh(x) /\ ~Fresh(x)' /\ ~Usable(x)' /\ NoFlags(x)'
  \/ /\ Usable(x) /\ os[x].usedByStmt /\ ~os[x].usedByRows
     /\ Usable(x)' /\ os'[x].usedByStmt /\ os'[x].usedByRows
  \/ /\ Usable(x) /\ os[x].usedByStmt /\ os[x].usedByRows
     /\ Usable(x)' /\ (os'[x].usedByStmt <=> ~os'[x].usedByRows)
  \/ /\ Usable(x) /\ (os[x].usedByStmt <=> ~os[x].usedByRows)
     /\ ~Fresh(x)' /\ ~Usable(x)' /\ NoFlags(x)'
  \/ Usable(x) /\ ~Fresh(x)' /\ ~Usable(x)' /\ SameFlags(x)

Moves == \A x \in ODBCStmts : Move(x)

LEMMA QuietMoves ==
  ASSUME NEW x \in ODBCStmts, Quiet(x)
  PROVE  Move(x) /\ os'[x].hstmt = os[x].hstmt
  BY DEF Quiet, Move, SameFlags, Fresh, Usable

------------------------------------------------------------------------------
\* One lemma for each call.

LEMMA PrepareStep ==
  ASSUME StateInv, NEW s \in Stmts, NEW x \in ODBCStmts, Prepare(s, x)
  PROVE  StateInv' /\ Counts /\ Moves
  <1>1. PICK p \in PrepareODBCStmt, expired \in BOOLEAN :
          /\ os' = [os EXCEPT ![x] = p.os]
          /\ lost' = IF p.ok /\ expired THEN lost \cup {x} ELSE lost
          /\ stmt' = IF p.ok /\ ~expired
                     THEN [stmt EXCEPT ![s] = Open(x)]
                     ELSE stmt
          /\ Return(p.ok /\ ~expired, p.n)
    BY DEF Prepare
  <1>2. stmt[s].state = "new" /\ Fresh(x) /\ rows' = rows /\ conn' = conn
    BY DEF Prepare
  <1>3. /\ p.os \in ODBCStmt /\ p.ok \in BOOLEAN
        /\ p.os.usedByStmt = p.ok /\ ~p.os.usedByRows
        /\ p.ok => p.os.h /\ p.os.hstmt = "live"
        /\ ~p.ok => ~p.os.h
        /\ \/ p.os = NotAllocated /\ p.n = 0
           \/ p.os.hstmt = "freed" /\ p.n = 0
           \/ p.os.hstmt = "live" /\ p.n = 1
    BY PrepareOutcome
  <1>4. /\ os[x] = NotAllocated
        /\ \A t \in Stmts : ~StmtHolds(t, x)
        /\ \A w \in RowSets : ~RowsHolds(w, x)
    BY <1>2, FreshIsUnused
  <1>5. SameRows
    BY <1>2, UnchangedRows
  <1>6. /\ stmt' \in [Stmts -> Object]
        /\ \A t \in Stmts, z \in ODBCStmts :
             StmtHolds(t, z)' <=> \/ StmtHolds(t, z) /\ z # x
                                  \/ t = s /\ z = x /\ p.ok /\ ~expired
    <2>1. CASE p.ok /\ ~expired
      BY <1>1, <1>2, <1>4, <2>1, StmtUpdate, OpenClosed DEF StateInv, Types, StmtHolds
    <2>2. CASE ~(p.ok /\ ~expired)
      BY <1>1, <1>4, <2>2, UnchangedStmts DEF StateInv, Types, SameStmts
    <2> QED BY <2>1, <2>2
  <1>7. Types'
    BY <1>1, <1>2, <1>3, <1>6 DEF StateInv, Types, Return
  <1>8. NoSharedHandle'
    BY <1>4, <1>5, <1>6 DEF StateInv, NoSharedHandle, SameRows
  <1>9. \A z \in ODBCStmts : z # x => Quiet(z)
    BY <1>1, <1>5, <1>6 DEF StateInv, Types, Quiet, SameRows
  <1>10. FlagsTellOf(x)'
    <2>1. os'[x] = p.os
      BY <1>1 DEF StateInv, Types
    <2> QED BY <1>1, <1>3, <1>4, <1>5, <1>6, <2>1
            DEF FlagsTellOf, Usable, SameRows, StateInv, Types
  <1>11. OpenHasHandle'
    BY <1>2 DEF StateInv, OpenHasHandle
  <1>12. os'[x] = p.os
    BY <1>1 DEF StateInv, Types
  <1>13. Counts
    <2>1. \/ p.os.hstmt = "none" /\ stmtCount' = stmtCount
          \/ p.os.hstmt = "freed" /\ stmtCount' = stmtCount
          \/ p.os.hstmt = "live" /\ stmtCount' = stmtCount + 1
      BY <1>1, <1>3 DEF Return, StateInv, Types, NotAllocated
    <2>2. os[x].hstmt = "none"
      BY <1>2 DEF Fresh
    <2> QED BY <1>9, <1>12, <2>1, <2>2, CountsOne, QuietMoves
  <1>14. Move(x)
    <2>1. CASE p.ok
      BY <1>2, <1>3, <1>12, <2>1 DEF Move, Fresh, Usable, NoFlags
    <2>2. CASE ~p.ok
      BY <1>2, <1>3, <1>4, <1>12, <2>2
      DEF Move, Fresh, Usable, SameFlags, NoFlags, NotAllocated
    <2> QED BY <2>1, <2>2
  <1> QED BY <1>7, <1>8, <1>9, <1>10, <1>11, <1>13, <1>14, QuietKeeps, QuietMoves
          DEF StateInv, FlagsTell, Moves

LEMMA ExecReuseStep ==
  ASSUME StateInv, NEW s \in Stmts, ExecReuse(s)
  PROVE  StateInv' /\ Counts /\ Moves
  <1>1. PICK y \in ODBCStmts : y = stmt[s].os
    BY StmtRefers DEF ExecReuse
  <1>2. os[y] \in ODBCStmt /\ os[y].hstmt = "live"
    BY <1>1, StmtRefers DEF ExecReuse
  <1>3. PICK e \in exec(os[y]) : os' = [os EXCEPT ![y] = e.os] /\ Return(e.ok, e.n)
    BY <1>1 DEF ExecReuse
  <1>4. /\ stmt' = stmt /\ rows' = rows /\ conn' = conn /\ lost' = lost
        /\ SameStmts /\ SameRows
    BY UnchangedStmts, UnchangedRows DEF ExecReuse
  <1>5. Kept(e, os[y]) /\ e.os.usedByRows = os[y].usedByRows
    BY <1>2, ExecLoopKeeps
  <1>6. Types'
    BY <1>3, <1>4, <1>5 DEF StateInv, Types, Return, Kept
  <1>7. NoSharedHandle'
    BY <1>4 DEF StateInv, NoSharedHandle, SameStmts, SameRows
  <1>8. ASSUME NEW z \in ODBCStmts PROVE Quiet(z)
    <2>1. CASE z = y
      <3>1. os'[y] = e.os
        BY <1>3 DEF StateInv, Types
      <3> QED BY <1>2, <1>4, <1>5, <2>1, <3>1 DEF Quiet, SameStmts, SameRows, Kept
    <2>2. CASE z # y
      BY <1>3, <1>4, <2>2 DEF StateInv, Types, Quiet, SameStmts, SameRows
    <2> QED BY <2>1, <2>2
  <1>9. OpenHasHandle'
    BY <1>4 DEF StateInv, OpenHasHandle
  <1>10. Counts
    BY <1>3, <1>5, <1>8, QuietMoves, CountsOne DEF Return, Kept, StateInv, Types
  <1> QED BY <1>6, <1>7, <1>8, <1>9, <1>10, QuietKeeps, QuietMoves
          DEF StateInv, FlagsTell, Moves

LEMMA NextResultSetStep ==
  ASSUME StateInv, NEW w \in RowSets, NextResultSet(w)
  PROVE  StateInv' /\ Counts /\ Moves
  <1>1. PICK y \in ODBCStmts : y = rows[w].os
    BY RowsRefers DEF NextResultSet
  <1>2. os[y] \in ODBCStmt /\ os[y].hstmt = "live"
    BY <1>1, RowsRefers DEF NextResultSet
  <1>3. PICK e \in MoreResults(os[y]) :
          os' = [os EXCEPT ![y] = e.os] /\ Return(e.ok, e.n)
    BY <1>1 DEF NextResultSet
  <1>4. /\ stmt' = stmt /\ rows' = rows /\ conn' = conn /\ lost' = lost
        /\ SameStmts /\ SameRows
    BY UnchangedStmts, UnchangedRows DEF NextResultSet
  <1>5. Kept(e, os[y]) /\ e.os.usedByRows = os[y].usedByRows
    BY <1>2, MoreResultsKeeps
  <1>6. Types'
    BY <1>3, <1>4, <1>5 DEF StateInv, Types, Return, Kept
  <1>7. NoSharedHandle'
    BY <1>4 DEF StateInv, NoSharedHandle, SameStmts, SameRows
  <1>8. ASSUME NEW z \in ODBCStmts PROVE Quiet(z)
    <2>1. CASE z = y
      <3>1. os'[y] = e.os
        BY <1>3 DEF StateInv, Types
      <3> QED BY <1>2, <1>4, <1>5, <2>1, <3>1 DEF Quiet, SameStmts, SameRows, Kept
    <2>2. CASE z # y
      BY <1>3, <1>4, <2>2 DEF StateInv, Types, Quiet, SameStmts, SameRows
    <2> QED BY <2>1, <2>2
  <1>9. OpenHasHandle'
    BY <1>4 DEF StateInv, OpenHasHandle
  <1>10. Counts
    BY <1>3, <1>5, <1>8, QuietMoves, CountsOne DEF Return, Kept, StateInv, Types
  <1> QED BY <1>6, <1>7, <1>8, <1>9, <1>10, QuietKeeps, QuietMoves
          DEF StateInv, FlagsTell, Moves

LEMMA StmtCloseStep ==
  ASSUME StateInv, NEW s \in Stmts, StmtClose(s)
  PROVE  StateInv' /\ Counts /\ Moves
  <1>1. /\ stmt[s].state = "open"
        /\ stmt' = [stmt EXCEPT ![s] = Closed(None)]
        /\ rows' = rows /\ conn' = conn /\ lost' = lost
    BY DEF StmtClose
  <1>2. /\ stmt' \in [Stmts -> Object]
        /\ \A t \in Stmts, z \in ODBCStmts : StmtHolds(t, z)' <=> t # s /\ StmtHolds(t, z)
    BY <1>1, StmtUpdate, OpenClosed DEF StateInv, Types
  <1>3. SameRows
    BY <1>1, UnchangedRows
  <1>4. NoSharedHandle'
    BY <1>2, <1>3 DEF StateInv, NoSharedHandle, SameRows
  <1>5. OpenHasHandle'
    BY <1>1 DEF StateInv, OpenHasHandle
  <1>6. CASE stmt[s].os = None
    <2>1. os' = os /\ ok' = FALSE /\ stmtCount' = stmtCount + 0
      BY <1>6 DEF StmtClose, Return
    <2>2. Types'
      <3>1. stmt' \in [Stmts -> Object]
        BY <1>2
      <3>2. stmtCount' \in Int
        BY <2>1 DEF StateInv, Types
      <3>3. ok' \in BOOLEAN
        BY <2>1
      <3> QED BY <1>1, <2>1, <3>1, <3>2, <3>3 DEF StateInv, Types
    <2>3. \A z \in ODBCStmts : ~StmtHolds(s, z)
      BY <1>6, NoneAssumption DEF StmtHolds
    <2>4. \A z \in ODBCStmts : Quiet(z)
      BY <1>1, <1>2, <1>3, <2>1, <2>3 DEF Quiet, SameRows
    <2>5. Counts
      BY <2>1 DEF StateInv, Types, Counts, Counted
    <2> QED BY <1>4, <1>5, <2>2, <2>4, <2>5, QuietKeeps, QuietMoves
            DEF StateInv, FlagsTell, Moves
  <1>7. CASE stmt[s].os # None
    <2>1. PICK y \in ODBCStmts : y = stmt[s].os
      BY <1>1, <1>7, StmtRefers
    <2>2. /\ os[y] \in ODBCStmt /\ os[y].usedByStmt /\ StmtHolds(s, y)
          /\ os[y].hstmt = "live" /\ os[y].h
      BY <1>1, <1>7, <2>1, StmtRefers
    <2>3. PICK c \in closeByStmt(os[y]) : os' = [os EXCEPT ![y] = c.os]
                                         /\ Return(c.ok, c.n)
      BY <1>7, <2>1 DEF StmtClose
    <2>4. /\ c.os \in ODBCStmt /\ c.ok \in BOOLEAN
          /\ ~c.os.usedByStmt /\ c.os.usedByRows = os[y].usedByRows
          /\ os[y].usedByRows => /\ c.os.h = os[y].h
                                 /\ c.os.hstmt = os[y].hstmt
          /\ ~os[y].usedByRows => ~c.os.h
          /\ \/ c.n = -1 /\ c.os.hstmt = "freed"
             \/ c.n = 0 /\ c.os.hstmt = os[y].hstmt
      BY <2>2, CloseByStmtOutcome
    <2>5. Types'
      BY <1>1, <1>2, <2>3, <2>4 DEF StateInv, Types, Return
    <2>6. \A t \in Stmts : ~StmtHolds(t, y)'
      BY <1>2, <2>2 DEF StateInv, NoSharedHandle
    <2>7. \A z \in ODBCStmts : z # y => Quiet(z)
      <3>1. \A z \in ODBCStmts : z # y => ~StmtHolds(s, z)
        BY <2>1 DEF StmtHolds
      <3> QED BY <1>1, <1>2, <1>3, <2>3, <3>1 DEF StateInv, Types, Quiet, SameRows
    <2>8. FlagsTellOf(y)'
      <3>1. os'[y] = c.os
        BY <2>3 DEF StateInv, Types
      <3>2. FlagsTellOf(y)
        BY DEF StateInv, FlagsTell
      <3>3. CASE os[y].usedByRows
        BY <1>1, <1>3, <2>2, <2>4, <2>6, <3>1, <3>2, <3>3
        DEF FlagsTellOf, Usable, SameRows
      <3>4. CASE ~os[y].usedByRows
        <4>1. \A w \in RowSets : ~RowsHolds(w, y)'
          BY <1>3, <3>2, <3>4 DEF FlagsTellOf, SameRows
        <4> QED BY <2>2, <2>4, <2>6, <3>1, <3>4, <4>1 DEF FlagsTellOf, Usable
      <3> QED BY <3>3, <3>4
    <2>9. os'[y] = c.os
      BY <2>3 DEF StateInv, Types
    <2>10. Counts
      BY <2>2, <2>3, <2>4, <2>7, <2>9, QuietMoves, CountsOne DEF Return, StateInv, Types
    <2>11. Move(y)
      BY <2>2, <2>4, <2>9 DEF Move, Fresh, Usable, SameFlags, NoFlags
    <2> QED BY <1>4, <1>5, <2>5, <2>7, <2>8, <2>10, <2>11, QuietKeeps, QuietMoves
            DEF StateInv, FlagsTell, Moves
  <1> QED BY <1>6, <1>7

LEMMA RowsCloseStep ==
  ASSUME StateInv, NEW w \in RowSets, RowsClose(w)
  PROVE  StateInv' /\ Counts /\ Moves
  <1>1. PICK y \in ODBCStmts : y = rows[w].os
    BY RowsRefers DEF RowsClose
  <1>2. /\ rows[w].state = "open"
        /\ rows' = [rows EXCEPT ![w] = Closed(y)]
        /\ stmt' = stmt /\ conn' = conn /\ lost' = lost
    BY <1>1 DEF RowsClose
  <1>3. /\ os[y] \in ODBCStmt /\ os[y].usedByRows /\ RowsHolds(w, y)
        /\ os[y].hstmt = "live" /\ os[y].h
    BY <1>1, <1>2, RowsRefers
  <1>4. PICK c \in closeByRows(os[y]) : os' = [os EXCEPT ![y] = c.os]
                                       /\ Return(c.ok, c.n)
    BY <1>1 DEF RowsClose
  <1>5. /\ c.os \in ODBCStmt /\ c.ok \in BOOLEAN
        /\ ~c.os.usedByRows /\ c.os.usedByStmt = os[y].usedByStmt
        /\ os[y].usedByStmt => /\ c.os.h = os[y].h
                               /\ c.os.hstmt = os[y].hstmt
        /\ ~os[y].usedByStmt => ~c.os.h
        /\ \/ c.n = -1 /\ c.os.hstmt = "freed"
           \/ c.n = 0 /\ c.os.hstmt = os[y].hstmt
    BY <1>3, CloseByRowsOutcome
  <1>6. /\ rows' \in [RowSets -> Object]
        /\ \A v \in RowSets, z \in ODBCStmts : RowsHolds(v, z)' <=> v # w /\ RowsHolds(v, z)
        /\ OpenHasHandle'
    BY <1>2, RowsUpdate, OpenClosed DEF StateInv, Types
  <1>7. SameStmts
    BY <1>2, UnchangedStmts
  <1>8. Types'
    BY <1>2, <1>4, <1>5, <1>6 DEF StateInv, Types, Return
  <1>9. NoSharedHandle'
    BY <1>6, <1>7 DEF StateInv, NoSharedHandle, SameStmts
  <1>10. \A v \in RowSets : ~RowsHolds(v, y)'
    BY <1>3, <1>6 DEF StateInv, NoSharedHandle
  <1>11. \A z \in ODBCStmts : z # y => Quiet(z)
    <2>1. \A z \in ODBCStmts : z # y => ~RowsHolds(w, z)
      BY <1>1 DEF RowsHolds
    <2> QED BY <1>2, <1>4, <1>6, <1>7, <2>1 DEF StateInv, Types, Quiet, SameStmts
  <1>12. FlagsTellOf(y)'
    <2>1. os'[y] = c.os
      BY <1>4 DEF StateInv, Types
    <2>2. FlagsTellOf(y)
      BY DEF StateInv, FlagsTell
    <2>3. CASE os[y].usedByStmt
      BY <1>2, <1>3, <1>5, <1>7, <1>10, <2>1, <2>2, <2>3
      DEF FlagsTellOf, Usable, SameStmts
    <2>4. CASE ~os[y].usedByStmt
      <3>1. \A t \in Stmts : ~StmtHolds(t, y)'
        BY <1>7, <2>2, <2>4 DEF FlagsTellOf, SameStmts
      <3> QED BY <1>3, <1>5, <1>10, <2>1, <2>4, <3>1 DEF FlagsTellOf, Usable
    <2> QED BY <2>3, <2>4
  <1>13. os'[y] = c.os
    BY <1>4 DEF StateInv, Types
  <1>14. Counts
    BY <1>3, <1>4, <1>5, <1>11, <1>13, QuietMoves, CountsOne DEF Return, StateInv, Types
  <1>15. Move(y)
    BY <1>3, <1>5, <1>13 DEF Move, Fresh, Usable, SameFlags, NoFlags
  <1> QED BY <1>6, <1>8, <1>9, <1>11, <1>12, <1>14, <1>15, QuietKeeps, QuietMoves
          DEF StateInv, FlagsTell, Moves

\* ExecRenew and QueryRenew leave the old ODBCStmt y to the Rows that uses it
\* and put the outcome p of PrepareODBCStmt in its place.
LEMMA RenewOutcome ==
  ASSUME NEW r \in ODBCStmt, r.usedByStmt, r.usedByRows, NEW c \in closeByStmt(r)
  PROVE  /\ c.os \in ODBCStmt /\ c.n = 0
         /\ ~c.os.usedByStmt /\ c.os.usedByRows
         /\ c.os.h = r.h /\ c.os.hstmt = r.hstmt
  BY CloseByStmtOutcome

\* The references after a Stmt s exchanged y for x, or for nothing.
LEMMA RenewedStmt ==
  ASSUME StateInv, NEW s \in Stmts, NEW y \in ODBCStmts, NEW x \in ODBCStmts,
         StmtHolds(s, y), \A t \in Stmts : ~StmtHolds(t, x),
         NEW good \in BOOLEAN, stmt' = [stmt EXCEPT ![s] = Open(IF good THEN x ELSE None)]
  PROVE  /\ stmt' \in [Stmts -> Object]
         /\ \A t \in Stmts : ~StmtHolds(t, y)'
         /\ \A t \in Stmts : StmtHolds(t, x)' <=> t = s /\ good
         /\ \A t \in Stmts, z \in ODBCStmts :
              z # x /\ z # y => (StmtHolds(t, z)' <=> StmtHolds(t, z))
  <1> DEFINE o == Open(IF good THEN x ELSE None)
  <1>1. /\ o \in Object /\ o.state = "open"
        /\ o.os = IF good THEN x ELSE None
    BY OpenClosed
  <1>2. /\ stmt' \in [Stmts -> Object]
        /\ \A t \in Stmts, z \in ODBCStmts :
             StmtHolds(t, z)' <=> IF t = s THEN o.os = z ELSE StmtHolds(t, z)
    BY <1>1, StmtUpdate DEF StateInv, Types
  <1>3. \A t \in Stmts : StmtHolds(t, y) => t = s
    BY DEF StateInv, NoSharedHandle
  <1>4. \A z \in ODBCStmts : z # y => ~StmtHolds(s, z)
    BY DEF StmtHolds
  <1>5. y # x
    OBVIOUS
  <1>6. \A z \in ODBCStmts : o.os = z <=> good /\ z = x
    BY <1>1, NoneAssumption
  <1> QED BY <1>2, <1>3, <1>4, <1>5, <1>6

LEMMA ExecRenewStep ==
  ASSUME StateInv, NEW s \in Stmts, NEW x \in ODBCStmts, ExecRenew(s, x)
  PROVE  StateInv' /\ Counts /\ Moves
  <1>1. PICK y \in ODBCStmts : y = stmt[s].os
    BY StmtRefers DEF ExecRenew
  <1>2. /\ os[y] \in ODBCStmt /\ os[y].usedByStmt /\ StmtHolds(s, y)
        /\ os[y].hstmt = "live" /\ os[y].h /\ os[y].usedByRows /\ Fresh(x)
    BY <1>1, StmtRefers DEF ExecRenew
  <1>3. PICK c \in closeByStmt(os[y]), p \in PrepareODBCStmt :
          \E e \in IF p.ok THEN exec(p.os) ELSE { Outcome(p.os, 0, FALSE) } :
            /\ os' = [os EXCEPT ![y] = c.os, ![x] = e.os]
            /\ stmt' = [stmt EXCEPT ![s] = Open(IF p.ok THEN x ELSE None)]
            /\ Return(e.ok, c.n + p.n + e.n)
    BY <1>1 DEF ExecRenew
  <1>4. PICK e \in IF p.ok THEN exec(p.os) ELSE { Outcome(p.os, 0, FALSE) } :
          /\ os' = [os EXCEPT ![y] = c.os, ![x] = e.os]
          /\ stmt' = [stmt EXCEPT ![s] = Open(IF p.ok THEN x ELSE None)]
          /\ Return(e.ok, c.n + p.n + e.n)
    BY <1>3
  <1>5. rows' = rows /\ conn' = conn /\ lost' = lost /\ SameRows
    BY UnchangedRows DEF ExecRenew
  <1>6. /\ p.os \in ODBCStmt /\ p.ok \in BOOLEAN
        /\ p.os.usedByStmt = p.ok /\ ~p.os.usedByRows
        /\ p.ok => p.os.h /\ p.os.hstmt = "live"
        /\ ~p.ok => ~p.os.h
        /\ \/ p.os = NotAllocated /\ p.n = 0
           \/ p.os.hstmt = "freed" /\ p.n = 0
           \/ p.os.hstmt = "live" /\ p.n = 1
    BY PrepareOutcome
  <1>7. /\ c.os \in ODBCStmt /\ c.n = 0
        /\ ~c.os.usedByStmt /\ c.os.usedByRows
        /\ c.os.h = os[y].h /\ c.os.hstmt = os[y].hstmt
    BY <1>2, RenewOutcome
  <1>8. Kept(e, p.os) /\ ~e.os.usedByRows /\ (~p.ok => e.os = p.os)
    <2>1. CASE p.ok
      <3>1. e \in exec(p.os)
        BY <1>4, <2>1
      <3>2. Kept(e, p.os) /\ e.os.usedByRows = p.os.usedByRows
        BY <1>6, <3>1, ExecLoopKeeps
      <3> QED BY <1>6, <2>1, <3>2
    <2>2. CASE ~p.ok
      <3>1. e = Outcome(p.os, 0, FALSE)
        BY <1>4, <2>2
      <3>2. e.os = p.os /\ e.n = 0 /\ e.ok = FALSE
        BY <3>1 DEF Outcome
      <3> QED BY <1>6, <3>2 DEF Kept
    <2> QED BY <2>1, <2>2
  <1>9. /\ os[x] = NotAllocated
        /\ \A t \in Stmts : ~StmtHolds(t, x)
        /\ \A w \in RowSets : ~RowsHolds(w, x)
    BY <1>2, FreshIsUnused
  <1>10. /\ stmt' \in [Stmts -> Object]
         /\ \A t \in Stmts : ~StmtHolds(t, y)'
         /\ \A t \in Stmts : StmtHolds(t, x)' <=> t = s /\ p.ok
         /\ \A t \in Stmts, z \in ODBCStmts :
              z # x /\ z # y => (StmtHolds(t, z)' <=> StmtHolds(t, z))
    BY <1>2, <1>4, <1>6, <1>9, RenewedStmt
  <1>11. x # y /\ os'[y] = c.os /\ os'[x] = e.os
         /\ \A z \in ODBCStmts : z # x /\ z # y => os'[z] = os[z]
    BY <1>2, <1>4, <1>9 DEF StateInv, Types
  <1>12. Types'
    <2>1. os' \in [ODBCStmts -> ODBCStmt]
      BY <1>4, <1>7, <1>8 DEF StateInv, Types, Kept
    <2>2. stmtCount' \in Int /\ ok' \in BOOLEAN
      BY <1>4, <1>6, <1>7, <1>8 DEF StateInv, Types, Return, Kept
    <2> QED BY <1>5, <1>10, <2>1, <2>2 DEF StateInv, Types
  <1>13. NoSharedHandle'
    BY <1>5, <1>10 DEF StateInv, NoSharedHandle, SameRows
  <1>14. \A z \in ODBCStmts : z # x /\ z # y => Quiet(z)
    BY <1>5, <1>10, <1>11 DEF Quiet, SameRows
  <1>15. FlagsTellOf(y)'
    <2>1. FlagsTellOf(y)
      BY DEF StateInv, FlagsTell
    <2> QED BY <1>2, <1>5, <1>7, <1>10, <1>11, <2>1 DEF FlagsTellOf, Usable, SameRows
  <1>16. FlagsTellOf(x)'
    <2>1. CASE p.ok
      BY <1>5, <1>6, <1>8, <1>9, <1>10, <1>11, <2>1
      DEF FlagsTellOf, Usable, SameRows, Kept
    <2>2. CASE ~p.ok
      BY <1>5, <1>6, <1>8, <1>9, <1>10, <1>11, <2>2
      DEF FlagsTellOf, Usable, SameRows
    <2> QED BY <2>1, <2>2
  <1>17. OpenHasHandle'
    BY <1>5 DEF StateInv, OpenHasHandle
  <1>18. Counts
    <2>1. \A z \in ODBCStmts : z # x => os'[z].hstmt = os[z].hstmt
      BY <1>7, <1>11, <1>14, QuietMoves
    <2>2. os[x].hstmt = "none" /\ os'[x].hstmt = p.os.hstmt
      BY <1>2, <1>8, <1>11 DEF Fresh, Kept
    <2>3. \/ p.os.hstmt = "none" /\ stmtCount' = stmtCount
          \/ p.os.hstmt = "freed" /\ stmtCount' = stmtCount
          \/ p.os.hstmt = "live" /\ stmtCount' = stmtCount + 1
      BY <1>4, <1>6, <1>7, <1>8 DEF Return, Kept, StateInv, Types, NotAllocated
    <2> QED BY <2>1, <2>2, <2>3, CountsOne
  <1>19. Move(y)
    BY <1>2, <1>7, <1>11 DEF Move, Fresh, Usable
  <1>20. Move(x)
    <2>1. CASE p.ok
      BY <1>2, <1>6, <1>8, <1>11, <2>1 DEF Move, Fresh, Usable, NoFlags, Kept
    <2>2. CASE ~p.ok
      BY <1>2, <1>6, <1>8, <1>9, <1>11, <2>2
      DEF Move, Fresh, Usable, SameFlags, NoFlags, NotAllocated
    <2> QED BY <2>1, <2>2
  <1> QED BY <1>12, <1>13, <1>14, <1>15, <1>16, <1>17, <1>18, <1>19, <1>20,
             QuietKeeps, QuietMoves DEF StateInv, FlagsTell, Moves

\* What ReturnRows does for the outcome q on the ODBCStmt x: a new reference
\* to x, an entry in lost, or nothing.
LEMMA ReturnRowsRefers ==
  ASSUME StateInv, NEW q, q.ok \in BOOLEAN, NEW w \in RowSets, NEW x \in ODBCStmts,
         rows[w].state = "new", \A v \in RowSets : ~RowsHolds(v, x),
         ReturnRows(q, w, x)
  PROVE  /\ rows' \in [RowSets -> Object] /\ OpenHasHandle'
         /\ ok' \in BOOLEAN
         /\ lost' \subseteq ODBCStmts /\ lost \subseteq lost'
         /\ \A v, u \in RowSets : RowsHolds(v, x)' /\ RowsHolds(u, x)' => v = u
         /\ \A v \in RowSets : RowsHolds(v, x)' => q.ok
         /\ q.ok => x \in lost' \/ \E v \in RowSets : RowsHolds(v, x)'
         /\ \A v \in RowSets, z \in ODBCStmts :
              z # x => (RowsHolds(v, z)' <=> RowsHolds(v, z))
  <1>1. CASE q.ok /\ rows' = [rows EXCEPT ![w] = Open(x)] /\ lost' = lost
    <2>1. x # None
      BY NoneAssumption
    <2>2. /\ rows' \in [RowSets -> Object] /\ OpenHasHandle'
          /\ \A v \in RowSets, z \in ODBCStmts :
               RowsHolds(v, z)' <=> IF v = w THEN x = z ELSE RowsHolds(v, z)
      <3> DEFINE o == Open(x)
      <3>1. o \in Object /\ o.state = "open" /\ o.os = x /\ o.os # None
        BY <2>1, OpenClosed
      <3>2. rows' = [rows EXCEPT ![w] = o]
        BY <1>1
      <3> HIDE DEF o
      <3> QED BY <3>1, <3>2, RowsUpdate DEF StateInv, Types
    <2>3. \A z \in ODBCStmts : ~RowsHolds(w, z)
      BY DEF RowsHolds
    <2>4. ok' \in BOOLEAN /\ lost' \subseteq ODBCStmts /\ lost \subseteq lost'
      BY <1>1 DEF StateInv, Types, ReturnRows
    <2>5. /\ \A v \in RowSets : RowsHolds(v, x)' <=> v = w
          /\ \A v \in RowSets, z \in ODBCStmts :
               z # x => (RowsHolds(v, z)' <=> RowsHolds(v, z))
      BY <2>2, <2>3
    <2> QED BY <1>1, <2>2, <2>4, <2>5
  <1>2. CASE rows' = rows /\ lost' = IF q.ok THEN lost \cup {x} ELSE lost
    <2>1. SameRows
      BY <1>2, UnchangedRows
    <2>2. /\ rows' \in [RowSets -> Object] /\ OpenHasHandle' /\ ok' \in BOOLEAN
          /\ lost' \subseteq ODBCStmts /\ lost \subseteq lost' /\ (q.ok => x \in lost')
      BY <1>2 DEF StateInv, Types, ReturnRows, OpenHasHandle
    <2> QED BY <2>1, <2>2 DEF SameRows
  <1> QED BY <1>1, <1>2 DEF ReturnRows

LEMMA QueryReuseStep ==
  ASSUME StateInv, NEW s \in Stmts, NEW w \in RowSets, QueryReuse(s, w)
  PROVE  StateInv' /\ Counts /\ Moves
  <1>1. PICK y \in ODBCStmts : y = stmt[s].os
    BY StmtRefers DEF QueryReuse
  <1>2. /\ os[y] \in ODBCStmt /\ os[y].usedByStmt /\ StmtHolds(s, y)
        /\ os[y].hstmt = "live" /\ os[y].h /\ ~os[y].usedByRows
        /\ rows[w].state = "new"
    BY <1>1, StmtRefers DEF QueryReuse
  <1>3. PICK q \in query1(os[y]) : /\ os' = [os EXCEPT ![y] = q.os]
                                  /\ ReturnRows(q, w, y)
                                  /\ stmtCount' = stmtCount + q.n
    BY <1>1 DEF QueryReuse
  <1>4. stmt' = stmt /\ conn' = conn /\ SameStmts
    BY UnchangedStmts DEF QueryReuse
  <1>5. Kept(q, os[y]) /\ q.os.usedByRows = q.ok
    BY <1>2, QueryKeeps
  <1>6. FlagsTellOf(y)
    BY DEF StateInv, FlagsTell
  <1>7. \A v \in RowSets : ~RowsHolds(v, y)
    BY <1>2, <1>6 DEF FlagsTellOf
  <1>8. /\ rows' \in [RowSets -> Object] /\ OpenHasHandle'
        /\ ok' \in BOOLEAN
        /\ lost' \subseteq ODBCStmts /\ lost \subseteq lost'
        /\ \A v, u \in RowSets : RowsHolds(v, y)' /\ RowsHolds(u, y)' => v = u
        /\ \A v \in RowSets : RowsHolds(v, y)' => q.ok
        /\ q.ok => y \in lost' \/ \E v \in RowSets : RowsHolds(v, y)'
        /\ \A v \in RowSets, z \in ODBCStmts :
             z # y => (RowsHolds(v, z)' <=> RowsHolds(v, z))
    <2>1. q.ok \in BOOLEAN
      BY <1>5 DEF Kept
    <2> QED BY <1>2, <1>3, <1>7, <2>1, ReturnRowsRefers
  <1>9. Types'
    BY <1>3, <1>4, <1>5, <1>8 DEF StateInv, Types, Kept
  <1>10. NoSharedHandle'
    BY <1>4, <1>8 DEF StateInv, NoSharedHandle, SameStmts
  <1>11. \A z \in ODBCStmts : z # y => Quiet(z)
    BY <1>3, <1>4, <1>8 DEF StateInv, Types, Quiet, SameStmts
  <1>12. FlagsTellOf(y)'
    <2>1. os'[y] = q.os
      BY <1>3 DEF StateInv, Types
    <2> QED BY <1>2, <1>4, <1>5, <1>8, <2>1 DEF FlagsTellOf, Usable, SameStmts, Kept
  <1>13. os'[y] = q.os
    BY <1>3 DEF StateInv, Types
  <1>14. Counts
    BY <1>3, <1>5, <1>11, <1>13, QuietMoves, CountsOne DEF Kept, StateInv, Types
  <1>15. Move(y)
    BY <1>2, <1>5, <1>13 DEF Move, Fresh, Usable, SameFlags, NoFlags, Kept
  <1> QED BY <1>8, <1>9, <1>10, <1>11, <1>12, <1>14, <1>15, QuietKeeps, QuietMoves
          DEF StateInv, FlagsTell, Moves

LEMMA QueryRenewStep ==
  ASSUME StateInv, NEW s \in Stmts, NEW w \in RowSets, NEW x \in ODBCStmts,
         QueryRenew(s, w, x)
  PROVE  StateInv' /\ Counts /\ Moves
  <1>1. PICK y \in ODBCStmts : y = stmt[s].os
    BY StmtRefers DEF QueryRenew
  <1>2. /\ os[y] \in ODBCStmt /\ os[y].usedByStmt /\ StmtHolds(s, y)
        /\ os[y].hstmt = "live" /\ os[y].h /\ os[y].usedByRows
        /\ rows[w].state = "new" /\ Fresh(x)
    BY <1>1, StmtRefers DEF QueryRenew
  <1>3. PICK c \in closeByStmt(os[y]), p \in PrepareODBCStmt :
          \E q \in IF p.ok THEN query1(p.os) ELSE { Outcome(p.os, 0, FALSE) } :
            /\ os' = [os EXCEPT ![y] = c.os, ![x] = q.os]
            /\ stmt' = [stmt EXCEPT ![s] = Open(IF p.ok THEN x ELSE None)]
            /\ ReturnRows(q, w, x)
            /\ stmtCount' = stmtCount + c.n + p.n + q.n
    BY <1>1 DEF QueryRenew
  <1>4. PICK q \in IF p.ok THEN query1(p.os) ELSE { Outcome(p.os, 0, FALSE) } :
          /\ os' = [os EXCEPT ![y] = c.os, ![x] = q.os]
          /\ stmt' = [stmt EXCEPT ![s] = Open(IF p.ok THEN x ELSE None)]
          /\ ReturnRows(q, w, x)
          /\ stmtCount' = stmtCount + c.n + p.n + q.n
    BY <1>3
  <1>5. conn' = conn
    BY DEF QueryRenew
  <1>6. /\ p.os \in ODBCStmt /\ p.ok \in BOOLEAN
        /\ p.os.usedByStmt = p.ok /\ ~p.os.usedByRows
        /\ p.ok => p.os.h /\ p.os.hstmt = "live"
        /\ ~p.ok => ~p.os.h
        /\ \/ p.os = NotAllocated /\ p.n = 0
           \/ p.os.hstmt = "freed" /\ p.n = 0
           \/ p.os.hstmt = "live" /\ p.n = 1
    BY PrepareOutcome
  <1>7. /\ c.os \in ODBCStmt /\ c.n = 0
        /\ ~c.os.usedByStmt /\ c.os.usedByRows
        /\ c.os.h = os[y].h /\ c.os.hstmt = os[y].hstmt
    BY <1>2, RenewOutcome
  <1>8. /\ Kept(q, p.os) /\ q.os.usedByRows = q.ok
        /\ ~p.ok => q.os = p.os /\ ~q.ok
    <2>1. CASE p.ok
      <3>1. q \in query1(p.os)
        BY <1>4, <2>1
      <3> QED BY <1>6, <2>1, <3>1, QueryKeeps
    <2>2. CASE ~p.ok
      <3>1. q = Outcome(p.os, 0, FALSE)
        BY <1>4, <2>2
      <3>2. q.os = p.os /\ q.n = 0 /\ q.ok = FALSE
        BY <3>1 DEF Outcome
      <3>3. p.os.usedByRows = FALSE
        BY <1>6 DEF ODBCStmt
      <3> QED BY <1>6, <3>2, <3>3 DEF Kept
    <2> QED BY <2>1, <2>2
  <1>9. /\ os[x] = NotAllocated
        /\ \A t \in Stmts : ~StmtHolds(t, x)
        /\ \A v \in RowSets : ~RowsHolds(v, x)
    BY <1>2, FreshIsUnused
  <1>10. /\ stmt' \in [Stmts -> Object]
         /\ \A t \in Stmts : ~StmtHolds(t, y)'
         /\ \A t \in Stmts : StmtHolds(t, x)' <=> t = s /\ p.ok
         /\ \A t \in Stmts, z \in ODBCStmts :
              z # x /\ z # y => (StmtHolds(t, z)' <=> StmtHolds(t, z))
    BY <1>2, <1>4, <1>6, <1>9, RenewedStmt
  <1>11. x # y /\ os'[y] = c.os /\ os'[x] = q.os
         /\ \A z \in ODBCStmts : z # x /\ z # y => os'[z] = os[z]
    BY <1>2, <1>4, <1>9 DEF StateInv, Types
  <1>12. /\ rows' \in [RowSets -> Object] /\ OpenHasHandle'
         /\ ok' \in BOOLEAN
         /\ lost' \subseteq ODBCStmts /\ lost \subseteq lost'
         /\ \A v, u \in RowSets : RowsHolds(v, x)' /\ RowsHolds(u, x)' => v = u
         /\ \A v \in RowSets : RowsHolds(v, x)' => q.ok
         /\ q.ok => x \in lost' \/ \E v \in RowSets : RowsHolds(v, x)'
         /\ \A v \in RowSets, z \in ODBCStmts :
              z # x => (RowsHolds(v, z)' <=> RowsHolds(v, z))
    <2>1. q.ok \in BOOLEAN
      BY <1>8 DEF Kept
    <2> QED BY <1>2, <1>4, <1>9, <2>1, ReturnRowsRefers
  <1>13. Types'
    <2>1. os' \in [ODBCStmts -> ODBCStmt]
      BY <1>4, <1>7, <1>8 DEF StateInv, Types, Kept
    <2>2. stmtCount' \in Int
      BY <1>4, <1>6, <1>7, <1>8 DEF StateInv, Types, Kept
    <2> QED BY <1>5, <1>10, <1>12, <2>1, <2>2 DEF StateInv, Types
  <1>14. NoSharedHandle'
    BY <1>10, <1>12 DEF StateInv, NoSharedHandle
  <1>15. \A z \in ODBCStmts : z # x /\ z # y => Quiet(z)
    BY <1>10, <1>11, <1>12 DEF Quiet
  <1>16. FlagsTellOf(y)'
    <2>1. FlagsTellOf(y)
      BY DEF StateInv, FlagsTell
    <2> QED BY <1>2, <1>7, <1>10, <1>11, <1>12, <2>1 DEF FlagsTellOf, Usable
  <1>17. FlagsTellOf(x)'
    <2>1. CASE p.ok
      BY <1>6, <1>8, <1>10, <1>11, <1>12, <2>1 DEF FlagsTellOf, Usable, Kept
    <2>2. CASE ~p.ok
      BY <1>6, <1>8, <1>10, <1>11, <1>12, <2>2 DEF FlagsTellOf, Usable
    <2> QED BY <2>1, <2>2
  <1>18. Counts
    <2>1. \A z \in ODBCStmts : z # x => os'[z].hstmt = os[z].hstmt
      BY <1>7, <1>11, <1>15, QuietMoves
    <2>2. os[x].hstmt = "none" /\ os'[x].hstmt = p.os.hstmt
      BY <1>2, <1>8, <1>11 DEF Fresh, Kept
    <2>3. \/ p.os.hstmt = "none" /\ stmtCount' = stmtCount
          \/ p.os.hstmt = "freed" /\ stmtCount' = stmtCount
          \/ p.os.hstmt = "live" /\ stmtCount' = stmtCount + 1
      BY <1>4, <1>6, <1>7, <1>8 DEF Return, Kept, StateInv, Types, NotAllocated
    <2> QED BY <2>1, <2>2, <2>3, CountsOne
  <1>19. Move(y)
    BY <1>2, <1>7, <1>11 DEF Move, Fresh, Usable
  <1>20. Move(x)
    <2>1. CASE p.ok
      BY <1>2, <1>6, <1>8, <1>11, <2>1 DEF Move, Fresh, Usable, NoFlags, Kept
    <2>2. CASE ~p.ok
      BY <1>2, <1>6, <1>8, <1>9, <1>11, <2>2
      DEF Move, Fresh, Usable, SameFlags, NoFlags, NotAllocated
    <2> QED BY <2>1, <2>2
  <1> QED BY <1>12, <1>13, <1>14, <1>15, <1>16, <1>17, <1>18, <1>19, <1>20,
             QuietKeeps, QuietMoves DEF StateInv, FlagsTell, Moves

\* Conn.Query and Conn.QueryBatch: the record r they leave for a fresh x, which
\* no Stmt uses, and the Rows they return or not.
LEMMA DirectRows ==
  ASSUME StateInv, NEW w \in RowSets, NEW x \in ODBCStmts, Fresh(x),
         rows[w].state = "new",
         NEW r \in ODBCStmt, os' = [os EXCEPT ![x] = r],
         ~r.usedByStmt, r.h => r.hstmt = "live" /\ r.usedByRows,
         ~r.h => ~r.usedByRows,
         \/ r = NotAllocated /\ stmtCount' = stmtCount
         \/ r.hstmt = "freed" /\ stmtCount' = stmtCount
         \/ r.hstmt = "live" /\ stmtCount' = stmtCount + 1,
         NEW good \in BOOLEAN, good => r.h, ok' = good,
         rows' = IF good THEN [rows EXCEPT ![w] = Open(x)] ELSE rows,
         lost' = IF r.h /\ ~good THEN lost \cup {x} ELSE lost,
         stmt' = stmt, conn' = conn
  PROVE  StateInv' /\ Counts /\ Moves
  <1>1. /\ os[x] = NotAllocated
        /\ \A t \in Stmts : ~StmtHolds(t, x)
        /\ \A v \in RowSets : ~RowsHolds(v, x)
    BY FreshIsUnused
  <1>2. SameStmts
    BY UnchangedStmts
  <1>3. /\ rows' \in [RowSets -> Object] /\ OpenHasHandle'
        /\ \A v \in RowSets, z \in ODBCStmts :
             RowsHolds(v, z)' <=> \/ z # x /\ RowsHolds(v, z)
                                  \/ z = x /\ v = w /\ good
    <2>1. CASE good
      <3> DEFINE o == Open(x)
      <3>1. o \in Object /\ o.state = "open" /\ o.os = x /\ o.os # None
        BY NoneAssumption, OpenClosed
      <3>2. rows' = [rows EXCEPT ![w] = o]
        BY <2>1
      <3> HIDE DEF o
      <3>3. \A z \in ODBCStmts : ~RowsHolds(w, z)
        BY DEF RowsHolds
      <3>4. /\ rows' \in [RowSets -> Object] /\ OpenHasHandle'
            /\ \A v \in RowSets, z \in ODBCStmts :
                 RowsHolds(v, z)' <=> IF v = w THEN x = z ELSE RowsHolds(v, z)
        BY <3>1, <3>2, RowsUpdate DEF StateInv, Types
      <3> QED BY <1>1, <2>1, <3>3, <3>4
    <2>2. CASE ~good
      <3>1. SameRows /\ rows' = rows
        BY <2>2, UnchangedRows
      <3> QED BY <1>1, <2>2, <3>1 DEF StateInv, Types, SameRows, OpenHasHandle
    <2> QED BY <2>1, <2>2
  <1>4. os'[x] = r /\ \A z \in ODBCStmts : z # x => os'[z] = os[z]
    BY DEF StateInv, Types
  <1>5. Types'
    <2>1. os' \in [ODBCStmts -> ODBCStmt] /\ lost' \subseteq ODBCStmts
      BY DEF StateInv, Types
    <2>2. stmtCount' \in Int
      BY DEF StateInv, Types
    <2>3. ok' \in BOOLEAN
      OBVIOUS
    <2> QED BY <1>3, <2>1, <2>2, <2>3 DEF StateInv, Types
  <1>6. NoSharedHandle'
    BY <1>2, <1>3 DEF StateInv, NoSharedHandle, SameStmts
  <1>7. \A z \in ODBCStmts : z # x => Quiet(z)
    BY <1>2, <1>3, <1>4 DEF Quiet, SameStmts
  <1>8. FlagsTellOf(x)'
    <2>1. CASE r.h
      BY <1>1, <1>2, <1>3, <1>4, <2>1 DEF FlagsTellOf, Usable, SameStmts
    <2>2. CASE ~r.h
      BY <1>1, <1>2, <1>3, <1>4, <2>2 DEF FlagsTellOf, Usable, SameStmts, NotAllocated
    <2> QED BY <2>1, <2>2
  <1>9. Counts
    <2>1. os[x].hstmt = "none" /\ (r = NotAllocated => r.hstmt = "none")
      BY DEF Fresh, NotAllocated
    <2> QED BY <1>4, <1>7, <2>1, QuietMoves, CountsOne
  <1>10. Move(x)
    <2>1. CASE r.h
      BY <1>4, <2>1 DEF Move, Fresh, Usable, NoFlags
    <2>2. CASE ~r.h
      BY <1>1, <1>4, <2>2 DEF Move, Fresh, Usable, SameFlags, NoFlags, NotAllocated
    <2> QED BY <2>1, <2>2
  <1> QED BY <1>3, <1>5, <1>6, <1>7, <1>8, <1>9, <1>10, QuietKeeps, QuietMoves
          DEF StateInv, FlagsTell, Moves

LEMMA ConnQueryStep ==
  ASSUME StateInv, NEW w \in RowSets, NEW x \in ODBCStmts, ConnQuery(w, x)
  PROVE  StateInv' /\ Counts /\ Moves
  <1>1. PICK p \in NewHandle, c \in BOOLEAN :
          \E b \in IF p.ok
                   THEN BindColumns([p.os EXCEPT !.usedByRows = TRUE, !.cursor = c])
                   ELSE { Outcome(p.os, 0, FALSE) } :
            /\ os' = [os EXCEPT ![x] = b.os]
            /\ rows' = IF b.ok THEN [rows EXCEPT ![w] = Open(x)] ELSE rows
            /\ lost' = IF p.ok /\ ~b.ok THEN lost \cup {x} ELSE lost
            /\ Return(b.ok, p.n)
    BY DEF ConnQuery
  <1> DEFINE d == [p.os EXCEPT !.usedByRows = TRUE, !.cursor = c]
  <1>2. PICK b \in IF p.ok THEN BindColumns(d) ELSE { Outcome(p.os, 0, FALSE) } :
          /\ os' = [os EXCEPT ![x] = b.os]
          /\ rows' = IF b.ok THEN [rows EXCEPT ![w] = Open(x)] ELSE rows
          /\ lost' = IF p.ok /\ ~b.ok THEN lost \cup {x} ELSE lost
          /\ Return(b.ok, p.n)
    BY <1>1
  <1>3. /\ Fresh(x) /\ rows[w].state = "new" /\ stmt' = stmt /\ conn' = conn
    BY DEF ConnQuery
  <1>4. /\ p.os \in ODBCStmt /\ p.ok \in BOOLEAN
        /\ ~p.os.usedByStmt /\ ~p.os.usedByRows
        /\ p.ok => p.os.h /\ p.os.hstmt = "live" /\ p.n = 1
        /\ ~p.ok => ~p.os.h
        /\ \/ p.os = NotAllocated /\ p.n = 0
           \/ p.os.hstmt = "freed" /\ p.n = 0
           \/ p.os.hstmt = "live" /\ p.n = 1
    BY NewHandleOutcome
  <1>5. /\ b.os \in ODBCStmt /\ b.ok \in BOOLEAN /\ ~b.os.usedByStmt
        /\ b.os.h => b.os.hstmt = "live" /\ b.os.usedByRows
        /\ ~b.os.h => ~b.os.usedByRows
        /\ b.ok => b.os.h
        /\ p.ok <=> b.os.h
        /\ \/ b.os = NotAllocated /\ p.n = 0
           \/ b.os.hstmt = "freed" /\ p.n = 0
           \/ b.os.hstmt = "live" /\ p.n = 1
    <2>1. CASE p.ok
      <3>1. /\ d \in ODBCStmt /\ d.h /\ d.hstmt = "live"
            /\ ~d.usedByStmt /\ d.usedByRows
        BY <1>4, <2>1 DEF ODBCStmt
      <3>2. b \in BindColumns(d)
        BY <1>2, <2>1
      <3> HIDE DEF d
      <3>3. Kept(b, d) /\ b.os = d
        BY <3>1, <3>2, BindColumnsKeeps
      <3> QED BY <1>4, <2>1, <3>1, <3>3 DEF Kept
    <2>2. CASE ~p.ok
      <3>1. b = Outcome(p.os, 0, FALSE)
        BY <1>2, <2>2
      <3>2. b.os = p.os /\ b.ok = FALSE
        BY <3>1 DEF Outcome
      <3> QED BY <1>4, <2>2, <3>2
    <2> QED BY <2>1, <2>2
  <1>6. lost' = IF b.os.h /\ ~b.ok THEN lost \cup {x} ELSE lost
    BY <1>2, <1>5
  <1>7. ok' = b.ok
    BY <1>2 DEF Return
  <1>8. \/ b.os = NotAllocated /\ stmtCount' = stmtCount
        \/ b.os.hstmt = "freed" /\ stmtCount' = stmtCount
        \/ b.os.hstmt = "live" /\ stmtCount' = stmtCount + 1
    BY <1>2, <1>5 DEF Return, StateInv, Types
  <1> QED BY <1>2, <1>3, <1>5, <1>6, <1>7, <1>8, DirectRows

LEMMA QueryBatchStep ==
  ASSUME StateInv, NEW w \in RowSets, NEW x \in ODBCStmts, QueryBatch(w, x)
  PROVE  StateInv' /\ Counts /\ Moves
  <1>1. PICK p \in PrepareODBCStmt :
          \E q \in IF p.ok THEN query1([p.os EXCEPT !.usedByStmt = FALSE])
                   ELSE { Outcome(p.os, 0, FALSE) } :
          \E f \in IF p.ok /\ ~q.ok THEN releaseHandle(q.os)
                   ELSE { Outcome(q.os, 0, TRUE) } :
            /\ os' = [os EXCEPT ![x] = f.os]
            /\ rows' = IF q.ok THEN [rows EXCEPT ![w] = Open(x)] ELSE rows
            /\ Return(q.ok, p.n + q.n + f.n)
    BY DEF QueryBatch
  <1> DEFINE d == [p.os EXCEPT !.usedByStmt = FALSE]
  <1>2. PICK q \in IF p.ok THEN query1(d) ELSE { Outcome(p.os, 0, FALSE) } :
          \E f \in IF p.ok /\ ~q.ok THEN releaseHandle(q.os)
                   ELSE { Outcome(q.os, 0, TRUE) } :
            /\ os' = [os EXCEPT ![x] = f.os]
            /\ rows' = IF q.ok THEN [rows EXCEPT ![w] = Open(x)] ELSE rows
            /\ Return(q.ok, p.n + q.n + f.n)
    BY <1>1
  <1>3. PICK f \in IF p.ok /\ ~q.ok THEN releaseHandle(q.os)
                  ELSE { Outcome(q.os, 0, TRUE) } :
          /\ os' = [os EXCEPT ![x] = f.os]
          /\ rows' = IF q.ok THEN [rows EXCEPT ![w] = Open(x)] ELSE rows
          /\ Return(q.ok, p.n + q.n + f.n)
    BY <1>2
  <1>4. /\ Fresh(x) /\ rows[w].state = "new"
        /\ stmt' = stmt /\ conn' = conn /\ lost' = lost
    BY DEF QueryBatch
  <1>5. /\ p.os \in ODBCStmt /\ p.ok \in BOOLEAN
        /\ p.os.usedByStmt = p.ok /\ ~p.os.usedByRows
        /\ p.ok => p.os.h /\ p.os.hstmt = "live" /\ p.n = 1
        /\ ~p.ok => ~p.os.h
        /\ \/ p.os = NotAllocated /\ p.n = 0
           \/ p.os.hstmt = "freed" /\ p.n = 0
           \/ p.os.hstmt = "live" /\ p.n = 1
    BY PrepareOutcome
  <1>6. /\ f.os \in ODBCStmt /\ q.ok \in BOOLEAN /\ ~f.os.usedByStmt
        /\ f.os.h => f.os.hstmt = "live" /\ f.os.usedByRows
        /\ ~f.os.h => ~f.os.usedByRows
        /\ q.ok <=> f.os.h
        /\ \/ f.os = NotAllocated /\ p.n + q.n + f.n = 0
           \/ f.os.hstmt = "freed" /\ p.n + q.n + f.n = 0
           \/ f.os.hstmt = "live" /\ p.n + q.n + f.n = 1
    <2>1. CASE p.ok
      <3>1. /\ d \in ODBCStmt /\ d.h /\ d.hstmt = "live"
            /\ ~d.usedByStmt /\ ~d.usedByRows
        BY <1>5, <2>1 DEF ODBCStmt
      <3>2. q \in query1(d)
        BY <1>2, <2>1
      <3> HIDE DEF d
      <3>3. Kept(q, d) /\ q.os.usedByRows = q.ok
        BY <3>1, <3>2, QueryKeeps
      <3>4. CASE q.ok
        <4>1. f = Outcome(q.os, 0, TRUE)
          BY <1>3, <3>4
        <4>2. f.os = q.os /\ f.n = 0
          BY <4>1 DEF Outcome
        <4>3. /\ f.os \in ODBCStmt /\ q.ok \in BOOLEAN /\ ~f.os.usedByStmt
              /\ f.os.hstmt = "live" /\ f.os.h /\ f.os.usedByRows
          BY <3>1, <3>3, <3>4, <4>2 DEF Kept
        <4>4. p.n + q.n + f.n = 1
          BY <1>5, <2>1, <3>3, <4>2 DEF Kept
        <4> QED BY <3>4, <4>3, <4>4
      <3>5. CASE ~q.ok
        <4>1. f \in releaseHandle(q.os)
          BY <1>3, <2>1, <3>5
        <4>2. q.os \in ODBCStmt
          BY <3>3 DEF Kept
        <4>3. /\ f.os \in ODBCStmt /\ ~f.os.h
              /\ f.os.usedByStmt = q.os.usedByStmt /\ f.os.usedByRows = q.os.usedByRows
              /\ \/ f.n = -1 /\ f.os.hstmt = "freed"
                 \/ f.n = 0 /\ f.os.hstmt = q.os.hstmt
          BY <4>1, <4>2, ReleaseHandleOutcome
        <4> QED BY <1>5, <2>1, <3>1, <3>3, <3>5, <4>3 DEF Kept
      <3> QED BY <3>4, <3>5
    <2>2. CASE ~p.ok
      <3>1. q = Outcome(p.os, 0, FALSE)
        BY <1>2, <2>2
      <3>2. q.os = p.os /\ q.ok = FALSE /\ q.n = 0
        BY <3>1 DEF Outcome
      <3>3. f = Outcome(p.os, 0, TRUE)
        BY <1>3, <2>2, <3>2
      <3>4. f.os = p.os /\ f.n = 0
        BY <3>3 DEF Outcome
      <3>5. \/ f.os = NotAllocated /\ p.n + q.n + f.n = 0
            \/ f.os.hstmt = "freed" /\ p.n + q.n + f.n = 0
            \/ f.os.hstmt = "live" /\ p.n + q.n + f.n = 1
        BY <1>5, <3>2, <3>4
      <3>6. /\ f.os \in ODBCStmt /\ q.ok \in BOOLEAN /\ ~q.ok
            /\ ~f.os.usedByStmt /\ ~f.os.usedByRows /\ ~f.os.h
        BY <1>5, <2>2, <3>2, <3>4
      <3> QED BY <3>5, <3>6
    <2> QED BY <2>1, <2>2
  <1>7. lost' = IF f.os.h /\ ~q.ok THEN lost \cup {x} ELSE lost
    BY <1>4, <1>6
  <1>8. ok' = q.ok
    BY <1>3 DEF Return
  <1>9. \/ f.os = NotAllocated /\ stmtCount' = stmtCount
        \/ f.os.hstmt = "freed" /\ stmtCount' = stmtCount
        \/ f.os.hstmt = "live" /\ stmtCount' = stmtCount + 1
    BY <1>3, <1>6 DEF Return, StateInv, Types
  <1> QED BY <1>3, <1>4, <1>6, <1>7, <1>8, <1>9, DirectRows

\* Nothing moves when a call only returns an error, or when nothing is called.
LEMMA IdleStep ==
  ASSUME StateInv, stmtCount' = stmtCount, ok' \in BOOLEAN,
         UNCHANGED <<os, stmt, rows, conn, lost>>
  PROVE  StateInv' /\ Counts /\ Moves
  <1>1. SameStmts /\ SameRows
    BY UnchangedStmts, UnchangedRows
  <1>2. \A z \in ODBCStmts : Quiet(z)
    BY <1>1 DEF Quiet, SameStmts, SameRows
  <1>3. Types'
    BY DEF StateInv, Types
  <1>4. NoSharedHandle' /\ OpenHasHandle'
    BY <1>1 DEF StateInv, NoSharedHandle, OpenHasHandle, SameStmts, SameRows
  <1>5. Counts
    BY DEF Counts, Counted
  <1> QED BY <1>2, <1>3, <1>4, <1>5, QuietKeeps, QuietMoves DEF StateInv, FlagsTell, Moves

LEMMA ConnCloseStep ==
  ASSUME StateInv, ConnClose
  PROVE  StateInv' /\ Counts /\ Moves
  <1>1. PICK good \in BOOLEAN :
          /\ Return(good, 0)
          /\ os' = IF good
                   THEN [x \in ODBCStmts |->
                           IF os[x].hstmt = "live"
                           THEN [os[x] EXCEPT !.hstmt = "dropped", !.cursor = FALSE]
                           ELSE os[x]]
                   ELSE os
    BY DEF ConnClose
  <1>2. /\ stmt' = stmt /\ rows' = rows /\ lost' = lost /\ conn' = "closed"
        /\ \A s \in Stmts : stmt[s].state # "open"
        /\ \A w \in RowSets : rows[w].state # "open"
    BY DEF ConnClose
  <1>3. /\ \A s \in Stmts, x \in ODBCStmts : ~StmtHolds(s, x) /\ ~StmtHolds(s, x)'
        /\ \A w \in RowSets, x \in ODBCStmts : ~RowsHolds(w, x) /\ ~RowsHolds(w, x)'
        /\ NoSharedHandle' /\ OpenHasHandle'
    BY <1>2 DEF StmtHolds, RowsHolds, NoSharedHandle, OpenHasHandle
  <1>4. stmtCount' = stmtCount
    <2>1. stmtCount' = stmtCount + 0
      BY <1>1 DEF Return
    <2> QED BY <2>1 DEF StateInv, Types
  <1>5. ok' \in BOOLEAN
    BY <1>1 DEF Return
  <1>6. CASE ~good
    <2>1. os' = os
      BY <1>1, <1>6
    <2>2. \A z \in ODBCStmts : Quiet(z)
      BY <1>2, <1>3, <2>1 DEF Quiet
    <2>3. Types'
      BY <1>2, <1>4, <1>5, <2>1 DEF StateInv, Types
    <2>4. Counts
      BY <1>4, <2>1 DEF Counts, Counted
    <2> QED BY <1>3, <2>2, <2>3, <2>4, QuietKeeps, QuietMoves
            DEF StateInv, FlagsTell, Moves
  <1>7. CASE good
    <2>1. os' = [x \in ODBCStmts |->
                   IF os[x].hstmt = "live"
                   THEN [os[x] EXCEPT !.hstmt = "dropped", !.cursor = FALSE]
                   ELSE os[x]]
      BY <1>1, <1>7
    <2>2. ASSUME NEW x \in ODBCStmts
          PROVE  /\ os'[x] \in ODBCStmt
                 /\ os'[x].h = os[x].h
                 /\ os'[x].usedByStmt = os[x].usedByStmt
                 /\ os'[x].usedByRows = os[x].usedByRows
                 /\ \/ os[x].hstmt = "live" /\ os'[x].hstmt = "dropped"
                    \/ os[x].hstmt # "live" /\ os'[x] = os[x]
      <3>1. os[x] \in ODBCStmt
        BY DEF StateInv, Types
      <3>2. CASE os[x].hstmt = "live"
        <4>1. os'[x] = [os[x] EXCEPT !.hstmt = "dropped", !.cursor = FALSE]
          BY <2>1, <3>2
        <4> QED BY <3>1, <3>2, <4>1 DEF ODBCStmt
      <3>3. CASE os[x].hstmt # "live"
        BY <2>1, <3>1, <3>3
      <3> QED BY <3>2, <3>3
    <2>3. os' \in [ODBCStmts -> ODBCStmt]
      BY <2>1, <2>2
    <2>4. Types'
      BY <1>2, <1>4, <1>5, <2>3 DEF StateInv, Types
    <2>5. ASSUME NEW x \in ODBCStmts PROVE FlagsTellOf(x)'
      <3>1. FlagsTellOf(x)
        BY DEF StateInv, FlagsTell
      <3>2. ~Usable(x)'
        BY <2>2 DEF Usable
      <3> QED BY <1>3, <2>2, <3>1, <3>2 DEF FlagsTellOf
    <2>6. Counts
      <3>1. \A x \in ODBCStmts : x \in Counted' <=> x \in Counted
        BY <2>2 DEF Counted
      <3>2. Counted' \subseteq ODBCStmts /\ Counted \subseteq ODBCStmts
        BY DEF Counted
      <3>3. Counted' \subseteq Counted /\ Counted \subseteq Counted'
        BY <3>1, <3>2
      <3> QED BY <1>4, <3>3 DEF Counts
    <2>7. ASSUME NEW x \in ODBCStmts PROVE Move(x)
      BY <2>2 DEF Move, SameFlags, Fresh, Usable
    <2> QED BY <1>3, <2>4, <2>5, <2>6, <2>7 DEF StateInv, FlagsTell, Moves
  <1> QED BY <1>6, <1>7

\* Every step of the specification.
LEMMA NextStep ==
  ASSUME StateInv, [Next]_vars
  PROVE  StateInv' /\ Counts /\ Moves
  <1>1. CASE UNCHANGED vars
    BY <1>1, IdleStep DEF vars, StateInv, Types
  <1>2. ASSUME NEW s \in Stmts, UseWithoutHandle(s) PROVE StateInv' /\ Counts /\ Moves
    <2>1. stmtCount' = stmtCount
      BY <1>2 DEF UseWithoutHandle, Return, StateInv, Types
    <2>2. ok' \in BOOLEAN
      BY <1>2 DEF UseWithoutHandle, Return
    <2> QED BY <1>2, <2>1, <2>2, IdleStep DEF UseWithoutHandle
  <1> QED BY <1>1, <1>2, PrepareStep, ExecReuseStep, ExecRenewStep, QueryReuseStep,
             QueryRenewStep, StmtCloseStep, NextResultSetStep, RowsCloseStep,
             ConnQueryStep, QueryBatchStep, ConnCloseStep DEF Next

------------------------------------------------------------------------------
LEMMA InitState == Init => StateInv /\ CountInv
  <1> SUFFICES ASSUME Init PROVE StateInv /\ CountInv
    OBVIOUS
  <1>1. NotAllocated \in ODBCStmt /\ [state |-> "new", os |-> None] \in Object
    BY DEF NotAllocated, ODBCStmt, Object
  <1>2. Types
    BY <1>1 DEF Init, Types
  <1>3. /\ \A s \in Stmts : stmt[s].state = "new"
        /\ \A w \in RowSets : rows[w].state = "new"
    BY DEF Init
  <1>4. NoSharedHandle /\ OpenHasHandle
    BY <1>3 DEF NoSharedHandle, OpenHasHandle, StmtHolds, RowsHolds
  <1>5. FlagsTell
    BY <1>3 DEF Init, FlagsTell, FlagsTellOf, StmtHolds, RowsHolds, Usable, NotAllocated
  <1>6. Counted = {}
    BY DEF Init, Counted, NotAllocated
  <1>7. CountInv
    BY <1>6, FS_EmptySet DEF Init, CountInv, StmtCountExact
  <1> QED BY <1>2, <1>4, <1>5, <1>7 DEF StateInv

\* The set of counted handles and the counter move together.
LEMMA CountInvStep ==
  ASSUME CountInv, Counts
  PROVE  CountInv'
  <1>1. CASE Counted' = Counted /\ stmtCount' = stmtCount
    BY <1>1 DEF CountInv, StmtCountExact
  <1>2. ASSUME NEW x \in ODBCStmts \ Counted,
               Counted' = Counted \cup {x}, stmtCount' = stmtCount + 1
        PROVE  CountInv'
    BY <1>2, FS_AddElement DEF CountInv, StmtCountExact
  <1>3. ASSUME NEW x \in Counted,
               Counted' = Counted \ {x}, stmtCount' = stmtCount - 1
        PROVE  CountInv'
    BY <1>3, FS_RemoveElement DEF CountInv, StmtCountExact
  <1> QED BY <1>1, <1>2, <1>3 DEF Counts

LEMMA IInvEquiv == IInv <=> StateInv /\ CountInv
  <1>1. CountInv /\ StateInv => stmtCount \in Nat
    BY FS_CardinalityType DEF CountInv, StmtCountExact
  <1>2. TypeOK <=> Types /\ stmtCount \in Nat
    BY DEF TypeOK, Types
  <1> QED BY <1>1, <1>2 DEF IInv, StateInv

\* IInv is inductive: whatever the driver is asked to do and whichever of its
\* CLI calls fail, the flags of an ODBCStmt tell who refers to it.
THEOREM Inductive == Spec => []IInv
  <1>1. Init => IInv
    BY InitState, IInvEquiv
  <1>2. IInv' <=> StateInv' /\ CountInv'
    BY IInvEquiv, PTL
  <1>3. IInv /\ [Next]_vars => IInv'
    BY <1>2, NextStep, CountInvStep, IInvEquiv
  <1> QED BY <1>1, <1>3, PTL DEF Spec

\* Every variable keeps its type, and Stats.StmtCount is never negative.
THEOREM TypeCorrect == Spec => []TypeOK
  <1>1. IInv => TypeOK
    BY DEF IInv
  <1> QED BY <1>1, Inductive, PTL

\* No call of a Stmt or a Rows passes a freed handle to the CLI library.
THEOREM OwnersSafe == Spec => []OwnersHoldLiveHandle
  <1>1. IInv => OwnersHoldLiveHandle
    BY DEF IInv, TypeOK, Object, OpenHasHandle, OwnersHoldLiveHandle, FlagsTell,
           FlagsTellOf, StmtHolds, RowsHolds
  <1> QED BY <1>1, Inductive, PTL

\* Two open Stmts never share a handle, nor do two open Rows.
THEOREM NoSharing == Spec => []NoSharedHandle
  <1>1. IInv => NoSharedHandle
    BY DEF IInv
  <1> QED BY <1>1, Inductive, PTL

\* The only handles the driver forgets are those its error returns dropped.
THEOREM OnlyKnownLeaks == Spec => []LeaksExplained
  <1>1. IInv => LeaksExplained
    BY DEF IInv, LeaksExplained, FlagsTell, FlagsTellOf, Usable
  <1> QED BY <1>1, Inductive, PTL

\* Stats.StmtCount is the number of handles allocated and not released, on
\* every path.
THEOREM CountCorrect == Spec => []StmtCountExact
  <1>1. IInv => StmtCountExact
    BY DEF IInv, CountInv
  <1> QED BY <1>1, Inductive, PTL

------------------------------------------------------------------------------
\* A Move of the fields is a step of HandleOwnership or none.
LEMMA MoveRefines ==
  ASSUME NEW x \in ODBCStmts, Move(x)
  PROVE  \/ /\ Phase(x) = "unused" /\ Phase(x)' = "held"
            /\ Users(x)' \in {{"stmt"}, {"rows"}, {"stmt", "rows"}}
         \/ /\ Phase(x) = "unused" /\ Phase(x)' = "gone" /\ Users(x)' = {}
         \/ /\ Phase(x) = "held" /\ Users(x) = {"stmt"}
            /\ Phase(x)' = "held" /\ Users(x)' = {"stmt", "rows"}
         \/ /\ Phase(x) = "held" /\ \E u \in Users(x) : Users(x)' = Users(x) \ {u}
            /\ Phase(x)' = IF Users(x)' = {} THEN "gone" ELSE "held"
         \/ Phase(x) = "held" /\ Phase(x)' = "gone" /\ Users(x)' = Users(x)
         \/ Phase(x)' = Phase(x) /\ Users(x)' = Users(x)
  <1>1. /\ Fresh(x) => Phase(x) = "unused"
        /\ Usable(x) => Phase(x) = "held"
        /\ ~Fresh(x) /\ ~Usable(x) => Phase(x) = "gone"
        /\ ~(Fresh(x) /\ Usable(x))
    BY DEF Phase, Fresh, Usable
  <1>2. /\ Fresh(x)' => Phase(x)' = "unused"
        /\ Usable(x)' => Phase(x)' = "held"
        /\ ~Fresh(x)' /\ ~Usable(x)' => Phase(x)' = "gone"
        /\ ~(Fresh(x)' /\ Usable(x)')
    BY DEF Phase, Fresh, Usable
  <1>3. CASE (Fresh(x)' <=> Fresh(x)) /\ (Usable(x)' <=> Usable(x)) /\ SameFlags(x)
    <2>1. Users(x)' = Users(x)
      BY <1>3 DEF SameFlags, Users
    <2> QED BY <1>1, <1>2, <1>3, <2>1
  <1>4. CASE Fresh(x) /\ Usable(x)' /\ ~NoFlags(x)'
    <2>1. Users(x)' \in {{"stmt"}, {"rows"}, {"stmt", "rows"}}
      BY <1>4 DEF NoFlags, Users
    <2> QED BY <1>1, <1>2, <1>4, <2>1
  <1>5. CASE Fresh(x) /\ ~Fresh(x)' /\ ~Usable(x)' /\ NoFlags(x)'
    <2>1. Users(x)' = {}
      BY <1>5 DEF NoFlags, Users
    <2> QED BY <1>1, <1>2, <1>5, <2>1
  <1>6. CASE /\ Usable(x) /\ os[x].usedByStmt /\ ~os[x].usedByRows
             /\ Usable(x)' /\ os'[x].usedByStmt /\ os'[x].usedByRows
    <2>1. Users(x) = {"stmt"} /\ Users(x)' = {"stmt", "rows"}
      BY <1>6 DEF Users
    <2> QED BY <1>1, <1>2, <1>6, <2>1
  <1>7. CASE /\ Usable(x) /\ os[x].usedByStmt /\ os[x].usedByRows
             /\ Usable(x)' /\ (os'[x].usedByStmt <=> ~os'[x].usedByRows)
    <2>1. Users(x) = {"stmt", "rows"} /\ Users(x)' \in {{"stmt"}, {"rows"}}
      BY <1>7 DEF Users
    <2>2. \E u \in Users(x) : Users(x)' = Users(x) \ {u}
      BY <2>1
    <2>3. Users(x)' # {}
      BY <2>1
    <2> QED BY <1>1, <1>2, <1>7, <2>2, <2>3
  <1>8. CASE /\ Usable(x) /\ (os[x].usedByStmt <=> ~os[x].usedByRows)
             /\ ~Fresh(x)' /\ ~Usable(x)' /\ NoFlags(x)'
    <2>1. Users(x) \in {{"stmt"}, {"rows"}} /\ Users(x)' = {}
      BY <1>8 DEF Users, NoFlags
    <2>2. \E u \in Users(x) : Users(x)' = Users(x) \ {u}
      BY <2>1
    <2> QED BY <1>1, <1>2, <1>8, <2>1, <2>2
  <1>9. CASE Usable(x) /\ ~Fresh(x)' /\ ~Usable(x)' /\ SameFlags(x)
    <2>1. Users(x)' = Users(x)
      BY <1>9 DEF SameFlags, Users
    <2> QED BY <1>1, <1>2, <1>9, <2>1
  <1> QED BY <1>3, <1>4, <1>5, <1>6, <1>7, <1>8, <1>9 DEF Move

\* The driver implements HandleOwnership: every handle it allocates is released
\* at most once, by its last user, and not used again.
THEOREM Refinement == Spec => OwnershipSpec
  <1>1. Init => Ownership!Init
    <2> SUFFICES ASSUME Init PROVE Ownership!Init
      OBVIOUS
    <2>1. \A x \in ODBCStmts : Phase(x) = "unused" /\ Users(x) = {}
      BY DEF Init, NotAllocated, Phase, Users
    <2> QED BY <2>1 DEF Ownership!Init
  <1>2. IInv /\ [Next]_vars => [Ownership!Next]_Ownership!vars
    <2> SUFFICES ASSUME IInv, [Next]_vars PROVE Ownership!Next
      OBVIOUS
    <2>1. \A x \in ODBCStmts : Move(x)
      BY NextStep, IInvEquiv DEF Moves
    <2>2. \A x \in ODBCStmts :
            /\ Phase(x)' \in {"unused", "held", "gone"}
            /\ Users(x)' \in SUBSET {"stmt", "rows"}
      BY DEF Phase, Users
    <2>3. /\ [x \in ODBCStmts |-> Phase(x)]' \in [ODBCStmts -> {"unused", "held", "gone"}]
          /\ [x \in ODBCStmts |-> Users(x)]' \in [ODBCStmts -> SUBSET Ownership!Roles]
      BY <2>2 DEF Ownership!Roles
    <2>4. ASSUME NEW x \in ODBCStmts
          PROVE  \/ Ownership!Acquire(x) \/ Ownership!Reject(x)
                 \/ Ownership!Share(x) \/ Ownership!Leave(x)
                 \/ Ownership!Drop(x) \/ Ownership!Same(x)
      BY <2>1, MoveRefines
      DEF Ownership!Acquire, Ownership!Reject, Ownership!Share, Ownership!Leave,
          Ownership!Drop, Ownership!Same, Ownership!Roles
    <2> QED BY <2>3, <2>4 DEF Ownership!Next
  <1> QED BY <1>1, <1>2, Inductive, PTL DEF Spec, OwnershipSpec, Ownership!Spec
------------------------------------------------------------------------------
\* What a function leaves of the cursor when it succeeds.
LEMMA NewHandleCursor ==
  ASSUME NEW p \in NewHandle, p.ok
  PROVE  p.os = Allocated
  <1>1. CASE p = Outcome(NotAllocated, 0, FALSE)
    BY <1>1 DEF Outcome
  <1>2. CASE p = Outcome(Allocated, 1, TRUE)
    BY <1>2 DEF Outcome
  <1>3. ASSUME NEW o \in releaseHandle(Allocated),
               p = Outcome(o.os, 1 + o.n, FALSE)
        PROVE  FALSE
    <2>1. p.ok = FALSE
      BY <1>3 DEF Outcome
    <2> QED BY <2>1
  <1> QED BY <1>1, <1>2, <1>3 DEF NewHandle

LEMMA PrepareCursor ==
  ASSUME NEW p \in PrepareODBCStmt, p.ok
  PROVE  p.os \in ODBCStmt /\ ~p.os.cursor
  <1>1. PICK o \in NewHandle : p = [o EXCEPT !.os.usedByStmt = o.ok]
    BY DEF PrepareODBCStmt
  <1>o. o = Outcome(o.os, o.n, o.ok)
    BY NewHandleOutcome
  <1>2. p.os = [o.os EXCEPT !.usedByStmt = o.ok] /\ p.ok = o.ok
    BY <1>1, <1>o DEF Outcome
  <1>3. o.os = Allocated
    BY <1>2, NewHandleCursor
  <1>4. p.os.cursor = Allocated.cursor
    BY <1>2, <1>3 DEF Allocated, NotAllocated
  <1> QED BY <1>4, PrepareOutcome DEF Allocated, NotAllocated

LEMMA ExecLoopCursor ==
  ASSUME NEW r \in ODBCStmt, NEW e \in exec(r), e.ok
  PROVE  ~e.os.cursor
  <1>1. PICK d \in Exec(r) : e \in IF d.ok THEN RowCounts(d.os) ELSE {d}
    BY DEF exec
  <1>2. d.ok
    BY <1>1
  <1>3. d.os \in ODBCStmt /\ e \in RowCounts(d.os)
    BY <1>1, <1>2, ExecKeeps DEF Kept
  <1>4. CASE e = Outcome([d.os EXCEPT !.cursor = FALSE], 0, TRUE)
    <2>1. e.os = [d.os EXCEPT !.cursor = FALSE]
      BY <1>4 DEF Outcome
    <2> QED BY <1>3, <2>1 DEF ODBCStmt
  <1>5. ASSUME NEW c \in BOOLEAN, e = Outcome([d.os EXCEPT !.cursor = c], 0, FALSE)
        PROVE  FALSE
    <2>1. e.ok = FALSE
      BY <1>5 DEF Outcome
    <2> QED BY <2>1
  <1> QED BY <1>3, <1>4, <1>5 DEF RowCounts

\* closeByStmt leaves the cursor of a Rows alone.
LEMMA CloseByStmtCursor ==
  ASSUME NEW r \in ODBCStmt, NEW c \in closeByStmt(r), r.usedByRows
  PROVE  c.os.cursor = r.cursor
  <1>1. c = Outcome([r EXCEPT !.usedByStmt = FALSE], 0, TRUE)
    BY DEF closeByStmt
  <1>2. c.os = [r EXCEPT !.usedByStmt = FALSE]
    BY <1>1 DEF Outcome
  <1> QED BY <1>2 DEF ODBCStmt

\* closeByRows closes the cursor, or gives up the handle.
LEMMA CloseByRowsCursor ==
  ASSUME NEW r \in ODBCStmt, r.usedByRows, NEW c \in closeByRows(r), c.ok
  PROVE  ~(c.os.cursor /\ c.os.h)
  <1>1. CASE r.usedByStmt
    <2>1. PICK o \in SQLCloseCursor(r) : c = [o EXCEPT !.os.usedByRows = FALSE]
      BY <1>1 DEF closeByRows
    <2>2. PICK closed \in BOOLEAN :
            o = Outcome([r EXCEPT !.cursor = r.cursor /\ ~closed], 0, closed)
      BY DEF SQLCloseCursor
    <2>3. /\ c.os = [r EXCEPT !.cursor = r.cursor /\ ~closed, !.usedByRows = FALSE]
          /\ c.ok = closed
      BY <2>1, <2>2 DEF Outcome, ODBCStmt
    <2>4. c.os = [r EXCEPT !.cursor = FALSE, !.usedByRows = FALSE]
      BY <2>3
    <2> QED BY <2>4 DEF ODBCStmt
  <1>2. CASE ~r.usedByStmt
    BY <1>2, CloseByRowsOutcome
  <1> QED BY <1>1, <1>2

\* A call that failed, or left x alone or without a cursor that no Rows reads.
Tidy(x) == os'[x] # os[x] /\ Idle(os'[x]) => ~os'[x].cursor

LEMMA TidyStep ==
  ASSUME StateInv, Next, ok', NEW z \in ODBCStmts
  PROVE  Tidy(z)
  <1> USE DEF Tidy, Idle
  <1>0. os \in [ODBCStmts -> ODBCStmt] /\ Types
    BY DEF StateInv, Types
  <1>1. ASSUME NEW s \in Stmts, NEW x \in ODBCStmts, Prepare(s, x)
        PROVE  Tidy(z)
    <2>1. PICK p \in PrepareODBCStmt : p.ok /\ os' = [os EXCEPT ![x] = p.os]
      BY <1>1 DEF Prepare, Return
    <2>2. ~p.os.cursor
      BY <2>1, PrepareCursor
    <2> QED BY <1>0, <2>1, <2>2
  <1>2. ASSUME NEW s \in Stmts, NEW x \in ODBCStmts, ExecRenew(s, x)
        PROVE  Tidy(z)
    <2> DEFINE y == stmt[s].os
    <2>1. y \in ODBCStmts /\ os[y] \in ODBCStmt /\ os[y].usedByStmt /\ os[y].usedByRows
      BY <1>2, StmtRefers DEF ExecRenew
    <2>2. PICK c \in closeByStmt(os[y]), p \in PrepareODBCStmt :
            \E e \in IF p.ok THEN exec(p.os) ELSE { Outcome(p.os, 0, FALSE) } :
              os' = [os EXCEPT ![y] = c.os, ![x] = e.os] /\ ok' = e.ok
      BY <1>2 DEF ExecRenew, Return
    <2>3. PICK e \in IF p.ok THEN exec(p.os) ELSE { Outcome(p.os, 0, FALSE) } :
            os' = [os EXCEPT ![y] = c.os, ![x] = e.os] /\ e.ok
      BY <2>2
    <2>4. p.ok /\ e \in exec(p.os)
      BY <2>3 DEF Outcome
    <2>5. ~e.os.cursor
      BY <2>3, <2>4, PrepareCursor, ExecLoopCursor
    <2>6. c.os.usedByRows
      BY <2>1, CloseByStmtOutcome
    <2>7. os'[z] = IF z = x THEN e.os ELSE IF z = y THEN c.os ELSE os[z]
      BY <1>0, <2>1, <2>3
    <2> QED BY <2>5, <2>6, <2>7
  <1>3. ASSUME NEW s \in Stmts, ExecReuse(s)
        PROVE  Tidy(z)
    <2> DEFINE y == stmt[s].os
    <2>1. y \in ODBCStmts /\ os[y] \in ODBCStmt
      BY <1>3, StmtRefers DEF ExecReuse
    <2>2. PICK e \in exec(os[y]) : os' = [os EXCEPT ![y] = e.os] /\ e.ok
      BY <1>3 DEF ExecReuse, Return
    <2>3. ~e.os.cursor
      BY <2>1, <2>2, ExecLoopCursor
    <2> QED BY <1>0, <2>1, <2>2, <2>3
  <1>4. ASSUME NEW s \in Stmts, UseWithoutHandle(s)
        PROVE  Tidy(z)
    BY <1>4 DEF UseWithoutHandle
  <1>5. ASSUME NEW s \in Stmts, StmtClose(s)
        PROVE  Tidy(z)
    <2> DEFINE y == stmt[s].os
    <2>1. CASE y = None
      BY <1>5, <2>1 DEF StmtClose
    <2>2. CASE y # None
      <3>1. y \in ODBCStmts /\ os[y] \in ODBCStmt /\ os[y].usedByStmt
        BY <1>5, <2>2, StmtRefers DEF StmtClose
      <3>2. PICK c \in closeByStmt(os[y]) : os' = [os EXCEPT ![y] = c.os]
        BY <1>5, <2>2 DEF StmtClose
      <3>3. c.os.usedByRows \/ ~c.os.h
        BY <3>1, CloseByStmtOutcome
      <3> QED BY <1>0, <3>1, <3>2, <3>3
    <2> QED BY <2>1, <2>2
  <1>6. ASSUME NEW s \in Stmts, NEW w \in RowSets, QueryReuse(s, w)
        PROVE  Tidy(z)
    <2> DEFINE y == stmt[s].os
    <2>1. y \in ODBCStmts /\ os[y] \in ODBCStmt /\ ~os[y].usedByRows
      BY <1>6, StmtRefers DEF QueryReuse
    <2>2. PICK q \in query1(os[y]) : os' = [os EXCEPT ![y] = q.os] /\ q.ok
      BY <1>6 DEF QueryReuse, ReturnRows
    <2>3. q.os.usedByRows
      BY <2>1, <2>2, QueryKeeps
    <2> QED BY <1>0, <2>1, <2>2, <2>3
  <1>7. ASSUME NEW s \in Stmts, NEW w \in RowSets, NEW x \in ODBCStmts,
               QueryRenew(s, w, x)
        PROVE  Tidy(z)
    <2> DEFINE y == stmt[s].os
    <2>1. y \in ODBCStmts /\ os[y] \in ODBCStmt /\ os[y].usedByStmt /\ os[y].usedByRows
      BY <1>7, StmtRefers DEF QueryRenew
    <2>2. PICK c \in closeByStmt(os[y]), p \in PrepareODBCStmt :
            \E q \in IF p.ok THEN query1(p.os) ELSE { Outcome(p.os, 0, FALSE) } :
              os' = [os EXCEPT ![y] = c.os, ![x] = q.os] /\ q.ok
      BY <1>7 DEF QueryRenew, ReturnRows
    <2>3. PICK q \in IF p.ok THEN query1(p.os) ELSE { Outcome(p.os, 0, FALSE) } :
            os' = [os EXCEPT ![y] = c.os, ![x] = q.os] /\ q.ok
      BY <2>2
    <2>4. p.ok /\ q \in query1(p.os)
      BY <2>3 DEF Outcome
    <2>5. q.os.usedByRows
      BY <2>3, <2>4, PrepareOutcome, QueryKeeps
    <2>6. c.os.usedByRows
      BY <2>1, CloseByStmtOutcome
    <2>7. os'[z] = IF z = x THEN q.os ELSE IF z = y THEN c.os ELSE os[z]
      BY <1>0, <2>1, <2>3
    <2> QED BY <2>5, <2>6, <2>7
  <1>8. ASSUME NEW w \in RowSets, NextResultSet(w)
        PROVE  Tidy(z)
    <2> DEFINE y == rows[w].os
    <2>1. y \in ODBCStmts /\ os[y] \in ODBCStmt /\ os[y].usedByRows
      BY <1>8, RowsRefers DEF NextResultSet
    <2>2. PICK m \in MoreResults(os[y]) : os' = [os EXCEPT ![y] = m.os]
      BY <1>8 DEF NextResultSet
    <2>3. m.os.usedByRows
      BY <2>1, MoreResultsKeeps
    <2> QED BY <1>0, <2>1, <2>2, <2>3
  <1>9. ASSUME NEW w \in RowSets, RowsClose(w)
        PROVE  Tidy(z)
    <2> DEFINE y == rows[w].os
    <2>1. y \in ODBCStmts /\ os[y] \in ODBCStmt /\ os[y].usedByRows
      BY <1>9, RowsRefers DEF RowsClose
    <2>2. PICK c \in closeByRows(os[y]) : os' = [os EXCEPT ![y] = c.os] /\ c.ok
      BY <1>9 DEF RowsClose, Return
    <2>3. ~(c.os.cursor /\ c.os.h)
      BY <2>1, <2>2, CloseByRowsCursor
    <2> QED BY <1>0, <2>1, <2>2, <2>3
  <1>10. ASSUME NEW w \in RowSets, NEW x \in ODBCStmts, ConnQuery(w, x)
         PROVE  Tidy(z)
    <2>1. PICK p \in NewHandle, cur \in BOOLEAN :
            \E b \in IF p.ok
                     THEN BindColumns([p.os EXCEPT !.usedByRows = TRUE, !.cursor = cur])
                     ELSE { Outcome(p.os, 0, FALSE) } :
              os' = [os EXCEPT ![x] = b.os] /\ b.ok
      BY <1>10 DEF ConnQuery, Return
    <2> DEFINE r == [p.os EXCEPT !.usedByRows = TRUE, !.cursor = cur]
    <2>2. PICK b \in IF p.ok THEN BindColumns(r) ELSE { Outcome(p.os, 0, FALSE) } :
            os' = [os EXCEPT ![x] = b.os] /\ b.ok
      BY <2>1
    <2>3. r \in ODBCStmt /\ r.usedByRows
      BY NewHandleOutcome DEF ODBCStmt
    <2>4. b \in BindColumns(r)
      BY <2>2 DEF Outcome
    <2> HIDE DEF r
    <2>5. b.os = r
      BY <2>3, <2>4, BindColumnsKeeps
    <2> QED BY <1>0, <2>2, <2>3, <2>5
  <1>11. ASSUME NEW w \in RowSets, NEW x \in ODBCStmts, QueryBatch(w, x)
         PROVE  Tidy(z)
    <2>1. PICK p \in PrepareODBCStmt :
            \E q \in IF p.ok THEN query1([p.os EXCEPT !.usedByStmt = FALSE])
                     ELSE { Outcome(p.os, 0, FALSE) } :
            \E f \in IF p.ok /\ ~q.ok THEN releaseHandle(q.os)
                     ELSE { Outcome(q.os, 0, TRUE) } :
              os' = [os EXCEPT ![x] = f.os] /\ q.ok
      BY <1>11 DEF QueryBatch, Return
    <2> DEFINE r == [p.os EXCEPT !.usedByStmt = FALSE]
    <2>2. PICK q \in IF p.ok THEN query1(r) ELSE { Outcome(p.os, 0, FALSE) } :
            q.ok /\ os' = [os EXCEPT ![x] = Outcome(q.os, 0, TRUE).os]
      BY <2>1
    <2>3. r \in ODBCStmt /\ ~r.usedByRows
      BY PrepareOutcome DEF ODBCStmt
    <2>4. q \in query1(r)
      BY <2>2 DEF Outcome
    <2> HIDE DEF r
    <2>5. q.os.usedByRows
      BY <2>2, <2>3, <2>4, QueryKeeps
    <2>o. Outcome(q.os, 0, TRUE).os = q.os
      BY DEF Outcome
    <2>6. os' = [os EXCEPT ![x] = q.os]
      BY <2>2, <2>o
    <2> QED BY <1>0, <2>5, <2>6
  <1>12. CASE ConnClose
    <2>1. CASE os' = os
      BY <2>1
    <2>2. CASE os' = [x \in ODBCStmts |->
                        IF os[x].hstmt = "live"
                        THEN [os[x] EXCEPT !.hstmt = "dropped", !.cursor = FALSE]
                        ELSE os[x]]
      <3>1. os'[z] = IF os[z].hstmt = "live"
                     THEN [os[z] EXCEPT !.hstmt = "dropped", !.cursor = FALSE]
                     ELSE os[z]
        BY <2>2
      <3> QED BY <1>0, <3>1 DEF ODBCStmt
    <2> QED BY <1>12, <2>1, <2>2 DEF ConnClose
  <1> QED BY <1>1, <1>2, <1>3, <1>4, <1>5, <1>6, <1>7, <1>8, <1>9, <1>10, <1>11, <1>12
          DEF Next

\* A call that succeeds never leaves an ODBCStmt that no Rows uses with a
\* cursor on which every later call would fail.
THEOREM NoStrayCursor == Spec => SuccessLeavesNoStrayCursor
  <1>1. IInv /\ [Next]_vars
          => [ ok' => \A x \in ODBCStmts :
                 os'[x] # os[x] /\ Idle(os'[x]) => ~os'[x].cursor ]_vars
    <2> SUFFICES ASSUME IInv, Next, ok', NEW x \in ODBCStmts PROVE Tidy(x)
      BY DEF Tidy, vars
    <2> QED BY IInvEquiv, TidyStep
  <1> QED BY <1>1, Inductive, PTL DEF Spec, SuccessLeavesNoStrayCursor

\* A step leaves the cursor of the open Rows w where it is, or is its own
\* NextResultSet.
KeepsCursor(w) ==
  \/ os'[rows[w].os].cursor = os[rows[w].os].cursor
  \/ \E m \in MoreResults(os[rows[w].os]) : os' = [os EXCEPT ![rows[w].os] = m.os]

\* A Stmt executed again or closed while the Rows w reads.
LEMMA StmtLetsRead ==
  ASSUME StateInv, NEW w \in RowSets, rows[w].state = "open",
         NEW s \in Stmts, stmt[s].state = "open", stmt[s].os # None,
         NEW c \in closeByStmt(os[stmt[s].os]), stmt[s].os = rows[w].os
  PROVE  c.os.cursor = os[rows[w].os].cursor
  BY RowsRefers, CloseByStmtCursor

LEMMA KeepsCursorStep ==
  ASSUME StateInv, Next, NEW w \in RowSets,
         rows[w].state = "open", rows'[w].state = "open"
  PROVE  KeepsCursor(w)
  <1> DEFINE z == rows[w].os
  <1>0. /\ z \in ODBCStmts /\ os[z].usedByRows /\ RowsHolds(w, z)
        /\ os \in [ODBCStmts -> ODBCStmt] /\ rows \in [RowSets -> Object]
    BY RowsRefers DEF StateInv, Types
  <1>f. \A x \in ODBCStmts : Fresh(x) => x # z
    BY <1>0, FreshIsUnused
  <1>s. ASSUME os'[z] = os[z] PROVE KeepsCursor(w)
    BY <1>s DEF KeepsCursor
  <1>1. ASSUME NEW s \in Stmts, NEW x \in ODBCStmts, Prepare(s, x)
        PROVE  KeepsCursor(w)
    BY <1>0, <1>f, <1>s, <1>1 DEF Prepare
  <1>2. ASSUME NEW s \in Stmts, NEW x \in ODBCStmts, stmt[s].state = "open",
               stmt[s].os # None, Fresh(x), NEW c \in closeByStmt(os[stmt[s].os]),
               NEW r, os' = [os EXCEPT ![stmt[s].os] = c.os, ![x] = r]
        PROVE  KeepsCursor(w)
    <2>1. x # z
      BY <1>2, <1>f
    <2>2. stmt[s].os \in ODBCStmts
      BY <1>2, StmtRefers
    <2>3. os'[z] = IF stmt[s].os = z THEN c.os ELSE os[z]
      BY <1>0, <1>2, <2>1, <2>2
    <2>4. stmt[s].os = z => c.os.cursor = os[z].cursor
      BY <1>2, StmtLetsRead
    <2> QED BY <2>3, <2>4 DEF KeepsCursor
  <1>3. ASSUME NEW s \in Stmts, NEW x \in ODBCStmts, ExecRenew(s, x)
        PROVE  KeepsCursor(w)
    <2>1. PICK c \in closeByStmt(os[stmt[s].os]), p \in PrepareODBCStmt :
            \E e \in IF p.ok THEN exec(p.os) ELSE { Outcome(p.os, 0, FALSE) } :
              os' = [os EXCEPT ![stmt[s].os] = c.os, ![x] = e.os]
      BY <1>3 DEF ExecRenew
    <2>2. PICK r : os' = [os EXCEPT ![stmt[s].os] = c.os, ![x] = r]
      BY <2>1
    <2> QED BY <1>2, <1>3, <2>2 DEF ExecRenew
  <1>4. ASSUME NEW s \in Stmts, ExecReuse(s)
        PROVE  KeepsCursor(w)
    BY <1>0, <1>s, <1>4 DEF ExecReuse
  <1>5. ASSUME NEW s \in Stmts, UseWithoutHandle(s)
        PROVE  KeepsCursor(w)
    BY <1>s, <1>5 DEF UseWithoutHandle
  <1>6. ASSUME NEW s \in Stmts, StmtClose(s)
        PROVE  KeepsCursor(w)
    <2>1. CASE stmt[s].os = None
      BY <1>s, <1>6, <2>1 DEF StmtClose
    <2>2. CASE stmt[s].os # None
      <3>1. PICK c \in closeByStmt(os[stmt[s].os]) :
              os' = [os EXCEPT ![stmt[s].os] = c.os]
        BY <1>6, <2>2 DEF StmtClose
      <3>2. stmt[s].state = "open" /\ stmt[s].os \in ODBCStmts
        BY <1>6, <2>2, StmtRefers DEF StmtClose
      <3>3. stmt[s].os = z => c.os.cursor = os[z].cursor
        BY <2>2, <3>2, StmtLetsRead
      <3>4. os'[z] = IF stmt[s].os = z THEN c.os ELSE os[z]
        BY <1>0, <3>1
      <3> QED BY <3>3, <3>4 DEF KeepsCursor
    <2> QED BY <2>1, <2>2
  <1>7. ASSUME NEW s \in Stmts, NEW v \in RowSets, QueryReuse(s, v)
        PROVE  KeepsCursor(w)
    BY <1>0, <1>s, <1>7 DEF QueryReuse
  <1>8. ASSUME NEW s \in Stmts, NEW v \in RowSets, NEW x \in ODBCStmts,
               QueryRenew(s, v, x)
        PROVE  KeepsCursor(w)
    <2>1. PICK c \in closeByStmt(os[stmt[s].os]), p \in PrepareODBCStmt :
            \E q \in IF p.ok THEN query1(p.os) ELSE { Outcome(p.os, 0, FALSE) } :
              os' = [os EXCEPT ![stmt[s].os] = c.os, ![x] = q.os]
      BY <1>8 DEF QueryRenew
    <2>2. PICK r : os' = [os EXCEPT ![stmt[s].os] = c.os, ![x] = r]
      BY <2>1
    <2> QED BY <1>2, <1>8, <2>2 DEF QueryRenew
  <1>9. ASSUME NEW v \in RowSets, NextResultSet(v)
        PROVE  KeepsCursor(w)
    <2>1. CASE v = w
      BY <1>9, <2>1 DEF NextResultSet, KeepsCursor
    <2>2. CASE v # w
      <3>1. RowsHolds(v, rows[v].os)
        BY <1>9 DEF NextResultSet, RowsHolds
      <3>2. rows[v].os # z
        BY <1>0, <2>2, <3>1 DEF StateInv, NoSharedHandle
      <3> QED BY <1>0, <1>s, <1>9, <3>2 DEF NextResultSet
    <2> QED BY <2>1, <2>2
  <1>10. ASSUME NEW v \in RowSets, RowsClose(v)
         PROVE  KeepsCursor(w)
    <2>1. v # w
      BY <1>0, <1>10 DEF RowsClose, Closed
    <2>2. RowsHolds(v, rows[v].os)
      BY <1>10 DEF RowsClose, RowsHolds
    <2>3. rows[v].os # z
      BY <1>0, <2>1, <2>2 DEF StateInv, NoSharedHandle
    <2> QED BY <1>0, <1>s, <1>10, <2>3 DEF RowsClose
  <1>11. ASSUME NEW v \in RowSets, NEW x \in ODBCStmts,
                ConnQuery(v, x) \/ QueryBatch(v, x)
         PROVE  KeepsCursor(w)
    <2>1. x # z
      BY <1>11, <1>f DEF ConnQuery, QueryBatch
    <2>2. CASE ConnQuery(v, x)
      BY <1>0, <1>s, <2>1, <2>2 DEF ConnQuery
    <2>3. CASE QueryBatch(v, x)
      BY <1>0, <1>s, <2>1, <2>3 DEF QueryBatch
    <2> QED BY <1>11, <2>2, <2>3
  <1>12. ~ConnClose
    BY DEF ConnClose
  <1> HIDE DEF z
  <1> QED BY <1>1, <1>3, <1>4, <1>5, <1>6, <1>7, <1>8, <1>9, <1>10, <1>11, <1>12
          DEF Next

\* While a Rows is open nothing but its own NextResultSet moves its cursor.
THEOREM CursorKept == Spec => RowsKeepTheirCursor
  <1>1. IInv /\ [Next]_vars
          => [ \A w \in RowSets :
                 rows[w].state = "open" /\ rows'[w].state = "open"
                   => \/ os'[rows[w].os].cursor = os[rows[w].os].cursor
                      \/ \E m \in MoreResults(os[rows[w].os]) :
                           os' = [os EXCEPT ![rows[w].os] = m.os] ]_vars
    <2> SUFFICES ASSUME IInv, Next, NEW w \in RowSets,
                        rows[w].state = "open", rows'[w].state = "open"
                 PROVE  KeepsCursor(w)
      BY DEF KeepsCursor
    <2> QED BY IInvEquiv, KeepsCursorStep
  <1> QED BY <1>1, Inductive, PTL DEF Spec, RowsKeepTheirCursor
==============================================================================
