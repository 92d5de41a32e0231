----------------------------- MODULE ExecResults -----------------------------
(***************************************************************************)
(* Executing a statement for its Result: Stmt.exec with its loop over the  *)
(* row counts (stmt.go), the errors made of diagnostic records (error.go), *)
(* and the Result (result.go).  Around it stands DB.Exec of database/sql,  *)
(* which on driver.ErrBadConn takes another connection and tries again.    *)
(*                                                                         *)
(* A query is a batch of statements that the server runs one by one: the   *)
(* first when the query is executed, each other one when SQLMoreResults    *)
(* asks for its result.  Connections may be lost at any of these calls,    *)
(* before or after the server has done the work.                           *)
(***************************************************************************)
EXTENDS Integers, Sequences, FiniteSets

CONSTANTS Clients,     \* goroutines that call DB.Exec
          Conns,       \* driver connections, one for each client at least
          None,        \* no connection, no client, no row
          Batches,     \* sequences over Statements
          MaxCalls,    \* bound: calls of Exec per client
          MaxLosses    \* bound: connections that are lost

Statements == {"insert",   \* adds a row with an identity value, count 1
               "select",   \* changes nothing, count -1
               "fails"}    \* SQL error

ASSUME ExecResultsAssumption ==
  /\ None \notin Conns \cup Clients \cup (Clients \X Nat \X Nat)
  /\ Batches \subseteq Seq(Statements) \ {<< >>}
  /\ IsFiniteSet(Clients) /\ IsFiniteSet(Conns)
  /\ Cardinality(Conns) >= Cardinality(Clients)
  /\ MaxCalls \in Nat /\ MaxLosses \in Nat

VARIABLES conn,        \* [Conns -> connection]
          call,        \* [Clients -> the client's current or last call]
          losses       \* connections lost so far

vars == <<conn, call, losses>>

\* A row is known by the client, call and statement that inserted it; the other
\* answers of LastInsertId.
Row(k, n, i) == <<k, n, i>>
Failure == <<"error">>
Panic == <<"panic">>

\* link: is there a connection, and does it work?  user: the client whose
\* call holds it.  identity: the row of IDENTITY_VAL_LOCAL().
NoConnection == [link |-> "none", user |-> None, identity |-> None]

\* at: the statement whose result is current, past the last after SQL_NO_DATA.  history: counted, what the
\* statements of this attempt changed; failed, has one after the first
\* failed; worked, the attempts in which the server did work; lost, was the
\* connection lost in this call; shared, has another call used the
\* connection since this one returned?
NoCall == [n |-> 0, pc |-> "idle", conn |-> None, attempt |-> 0,
           batch |-> << >>, at |-> 0, sum |-> 0, answer |-> "none",
           lastId |-> None, counted |-> 0, failed |-> FALSE, worked |-> {},
           lost |-> FALSE, shared |-> FALSE]

Init == /\ conn = [c \in Conns |-> NoConnection]
        /\ call = [k \in Clients |-> NoCall]
        /\ losses = 0

------------------------------------------------------------------------------
Count(s) == IF s = "insert" THEN 1 ELSE -1

\* Fault variant: any error lets database/sql try again.
NewErrorBad(records) == "badConn"

\* What becomes of the diagnostic records of a failed call: CLI0106E, CLI0107E
\* or CLI0108E in any of them says that the connection is of no use.
NewError(records) == IF "lost" \in records THEN "badConn" ELSE "error"

SqlError == {"sql"}

\* The first call on a connection that is lost may be told so with an error of
\* the server (SQL30081N) alone; later ones have CLI0106E or CLI0108E.
LossRecords(first) == {{"lost"}, {"lost", "sql"}} \cup (IF first THEN {SqlError} ELSE {})

Up(k) == conn[call[k].conn].link = "up"

\* What Conn.Close leaves to results that still refer to the connection.
Forget(c, f) == [k \in Clients |->
  IF f[k].conn = c /\ f[k].pc = "done" THEN [f[k] EXCEPT !.conn = None] ELSE f[k]]

\* database/sql: a bad connection is closed and the call tried again, twice
\* at most; any other answer is returned and the connection is free again.
Return(k, answer, cs, r) ==
  LET c == call[k].conn IN
  IF answer = "badConn"
  THEN /\ conn' = [conn EXCEPT ![c] = NoConnection]
       /\ call' = Forget(c, [call EXCEPT ![k] =
            IF r.attempt < 3
            THEN [r EXCEPT !.pc = "grab", !.conn = None, !.attempt = @ + 1]
            ELSE [r EXCEPT !.pc = "done", !.conn = None, !.answer = "error"]])
  ELSE /\ conn' = [cs EXCEPT ![c].user = None]
       /\ call' = [call EXCEPT ![k] = [r EXCEPT !.pc = "done", !.answer = answer]]

------------------------------------------------------------------------------
Call(k) ==
  /\ call[k].pc \in {"idle", "done"} /\ call[k].n < MaxCalls
  /\ \E b \in Batches :
       call' = [call EXCEPT ![k] = [NoCall EXCEPT !.n = call[k].n + 1, !.pc = "grab",
                                                  !.attempt = 1, !.batch = b]]
  /\ UNCHANGED <<conn, losses>>

\* DB.conn: the first two attempts take a free connection if there is one,
\* which may have been lost without anyone having noticed; the third opens a
\* new one, here in the place of one that is free.
Grab(k) ==
  /\ call[k].pc = "grab"
  /\ LET free == {c \in Conns : conn[c].user = None}
         cached == {c \in free : conn[c].link /= "none"}
         old == call[k].attempt < 3 /\ cached /= {}
     IN \E c \in IF old THEN cached ELSE free :
          /\ conn' = [conn EXCEPT ![c] =
               IF old THEN [@ EXCEPT !.user = k]
               ELSE [NoConnection EXCEPT !.link = "up", !.user = k]]
          /\ call' = [j \in Clients |->
               IF j = k
               THEN [call[k] EXCEPT !.pc = "execute", !.conn = c, !.sum = 0,
                                    !.at = 0, !.counted = 0, !.failed = FALSE]
               ELSE IF call[j].conn /= c THEN call[j]
               ELSE IF old THEN [call[j] EXCEPT !.shared = TRUE]
               ELSE [call[j] EXCEPT !.conn = None]]
  /\ UNCHANGED losses

\* The server runs statement i: what it leaves on the connection and in the
\* history of the call.
Ran(k, i) ==
  IF call[k].batch[i] = "insert"
  THEN [conn EXCEPT ![call[k].conn].identity = Row(k, call[k].n, i)] ELSE conn

History(k, i) ==
  [call[k] EXCEPT !.at = i,
     !.counted = @ + Count(call[k].batch[i]),
     !.worked = IF call[k].batch[i] = "insert" THEN @ \cup {call[k].attempt} ELSE @]

\* The connection is found lost, or lost now with the work of statement i done
\* or not; r is the call if the driver is then to fail with these records.
Lose(k, cs, r, records) ==
  /\ losses' = losses + 1
  /\ Return(k, NewError(records),
            [cs EXCEPT ![call[k].conn].link = "down"], [r EXCEPT !.lost = TRUE])

\* ODBCStmt.Exec, with the preparation before it, runs the first statement.
Execute(k) ==
  /\ call[k].pc = "execute"
  /\ \/ /\ Up(k) /\ call[k].batch[1] /= "fails"
        /\ conn' = Ran(k, 1)
        /\ call' = [call EXCEPT ![k] = [History(k, 1) EXCEPT !.pc = "rowCount"]]
        /\ UNCHANGED losses
     \/ /\ Up(k) /\ call[k].batch[1] = "fails"
        /\ Return(k, NewError(SqlError), conn, call[k])
        /\ UNCHANGED losses
     \/ /\ Up(k) /\ losses < MaxLosses
        /\ \E records \in LossRecords(TRUE) :
             \/ Lose(k, conn, call[k], records)
             \/ call[k].batch[1] /= "fails" /\ Lose(k, conn, History(k, 1), records)
     \/ /\ ~Up(k)
        /\ \E records \in LossRecords(FALSE) : Return(k, NewError(records), conn, call[k])
        /\ UNCHANGED losses

\* SQLRowCount: the count of the current statement.  When the last
\* SQLMoreResults failed there is none, which is an error, or -1; on a
\* connection that is lost it is an error, unless the CLI answers without the
\* server and leaves the count 0.
RowCount(k) ==
  /\ call[k].pc = "rowCount"
  /\ LET current == IF call[k].at <= Len(call[k].batch)
                    THEN call[k].batch[call[k].at] ELSE "none"
         Counted(n) == /\ call' = [call EXCEPT ![k].pc = "moreResults", ![k].sum = @ + n]
                       /\ UNCHANGED conn
     IN \/ Up(k) /\ current \in {"insert", "select"} /\ Counted(Count(current))
        \/ Up(k) /\ current = "fails" /\ Counted(-1)
        \/ Up(k) /\ current = "fails" /\ Return(k, NewError(SqlError), conn, call[k])
        \/ ~Up(k) /\ \E records \in LossRecords(FALSE) :
                       Return(k, NewError(records), conn, call[k])
        \/ (~Up(k) \/ current = "none") /\ Counted(0)
  /\ UNCHANGED losses

\* Fault variants: the loop is left only by an error, or at once.
LastResultError(ret) == ret = "error"
LastResultFirst(ret) == TRUE

LastResult(ret) == ret = "noData"

\* The end of the loop, where the context may be found done.
Loop(k, ret, cs, r) ==
  IF LastResult(ret)
  THEN \E answer \in {"ok", "error"} : Return(k, answer, cs, r)
  ELSE conn' = cs /\ call' = [call EXCEPT ![k] = [r EXCEPT !.pc = "rowCount"]]

\* SQLMoreResults runs the next statement.  An error of it, or of the
\* connection, is not looked at.
MoreResults(k) ==
  /\ call[k].pc = "moreResults"
  /\ LET r == call[k]
         i == r.at + 1
     IN \/ /\ Up(k) /\ i > Len(r.batch)
           /\ Loop(k, "noData", conn, [r EXCEPT !.at = Len(r.batch) + 1])
           /\ UNCHANGED losses
        \/ /\ Up(k) /\ i <= Len(r.batch) /\ r.batch[i] /= "fails"
           /\ Loop(k, "success", Ran(k, i), History(k, i))
           /\ UNCHANGED losses
        \/ /\ Up(k) /\ i <= Len(r.batch) /\ r.batch[i] = "fails"
           /\ Loop(k, "error", conn, [r EXCEPT !.at = i, !.failed = TRUE])
           /\ UNCHANGED losses
        \/ /\ Up(k) /\ i <= Len(r.batch) /\ losses < MaxLosses
           /\ \E done \in IF r.batch[i] = "fails" THEN {FALSE} ELSE BOOLEAN :
                Loop(k, "error",
                     [conn EXCEPT ![r.conn].link = "down"],
                     [IF done THEN History(k, i) ELSE r EXCEPT !.lost = TRUE])
           /\ losses' = losses + 1
        \/ /\ ~Up(k)
           /\ Loop(k, "error", conn, r)
           /\ UNCHANGED losses

\* Fault variant: the identity is asked on any free connection.
LastInsertIdConnAny(k) == {c \in Conns : conn[c].link = "up"}

LastInsertIdConn(k) == {call[k].conn}

\* Result.LastInsertId prepares, runs and reads a query on the connection of
\* the Result, once no call is using it.  On a connection that has been closed
\* SQLAllocHandle fails on a null handle, SQLGetDiagRec, too, and NewError
\* panics, unless it was SQLDisconnect that failed.
LastInsertId(k) ==
  /\ call[k].pc = "done" /\ call[k].answer = "ok" /\ call[k].lastId = None
  /\ \/ /\ call[k].conn = None
        /\ \E id \in {Panic, Failure} : call' = [call EXCEPT ![k].lastId = id]
     \/ /\ call[k].conn /= None
        /\ \E c \in LastInsertIdConn(k) :
             /\ conn[c].user = None
             /\ call' = [call EXCEPT ![k].lastId =
                  IF conn[c].link = "down" \/ conn[c].identity = None THEN Failure
                  ELSE conn[c].identity]
  /\ UNCHANGED <<conn, losses>>

\* A connection that no call uses is lost, or closed by database/sql for its age.
Idle(c) ==
  /\ conn[c].user = None /\ conn[c].link = "up"
  /\ \/ /\ losses < MaxLosses /\ losses' = losses + 1
        /\ conn' = [conn EXCEPT ![c].link = "down"]
        /\ UNCHANGED call
     \/ /\ conn' = [conn EXCEPT ![c] = NoConnection]
        /\ call' = Forget(c, call)
        /\ UNCHANGED losses

Step(k) == Grab(k) \/ Execute(k) \/ RowCount(k) \/ MoreResults(k)

Next == \/ \E k \in Clients : Call(k) \/ Step(k) \/ LastInsertId(k)
        \/ \E c \in Conns : Idle(c)

\* A goroutine in a call goes on, and the CLI answers.
Spec == Init /\ [][Next]_vars /\ \A k \in Clients : WF_vars(Step(k))

------------------------------------------------------------------------------
\* The work of a call is done once, although database/sql repeats it; except
\* that a call whose connection was lost after the server had done the work is
\* repeated in full.
AppliedOnce ==
  \A k \in Clients : Cardinality(call[k].worked) > 1 => call[k].lost

\* A Result carries the sum of what SQLRowCount says of all statements of the
\* batch, in the attempt that succeeded; that of a select is -1, which the code
\* adds like any other.  Except that statements that fail after the first one,
\* or are lost, are taken for statements without a count.
CountExact ==
  \A k \in Clients : call[k].answer = "ok" =>
    \/ call[k].failed
    \/ /\ call[k].at > Len(call[k].batch)
       /\ call[k].sum = call[k].counted

\* What LastInsertId returns is a row inserted by the call the Result is of;
\* except when the connection has been used by another call since, or the call
\* inserted nothing.  It fails only when the connection is gone or there is no
\* row, and panics only when the connection is closed.
LastInsertIdOwn ==
  \A k \in Clients :
    LET r == call[k]
        own == {i \in DOMAIN r.batch : r.batch[i] = "insert"}
    IN r.lastId /= None =>
         \/ \E i \in own : /\ r.lastId = Row(k, r.n, i)
                           /\ \A j \in own : j <= i
         \/ r.shared
         \/ own = {}
         \/ r.lastId = Failure /\ (r.conn = None \/ losses > 0)
         \/ r.lastId = Panic /\ r.conn = None

\* A call of Exec returns: neither the loop over row counts nor the repetition
\* goes on for ever; except that the loop never ends on a lost connection for
\* which SQLRowCount reports no error, since that of SQLMoreResults is dropped.
ExecReturns ==
  \A k \in Clients :
    call[k].pc /= "idle" ~> \/ call[k].pc = "done"
                            \/ call[k].conn /= None /\ ~Up(k)
==============================================================================
