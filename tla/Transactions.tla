---------------------------- MODULE Transactions ----------------------------
(***************************************************************************)
(* The connections of go_ibm_db and their transactions (conn.go, tx.go),   *)
(* the functions of database.go, and the connection counters of stats.go.  *)
(* Begin turns autocommit off, Commit and Rollback end the transaction and *)
(* turn it on again; each of these may fail half-way.  Clients use the     *)
(* connections through database/sql: a transaction has its connection to   *)
(* itself, any other statement takes whichever is free, and a connection   *)
(* goes back to the pool also after an error.  A work is what one          *)
(* statement changes in the database.                                      *)
(***************************************************************************)
EXTENDS Integers, FiniteSets

CONSTANTS Conns,       \* the Conn objects
          Works,       \* changes made by statements
          None,        \* no connection
          MaxDb        \* bound: calls of CreateDb and DropDb

ASSUME TransactionsAssumption ==
  None \notin Conns /\ IsFiniteSet(Conns) /\ MaxDb \in Nat

VARIABLES conn,        \* [Conns -> Conn]
          work,        \* [Works -> Work]
          envCount, connCount,   \* drv.Stats.EnvCount, ConnCount
          db           \* history: how the calls of database.go ended

vars == <<conn, work, envCount, connCount, db>>

\* hdbc: the handle is live when it is "connected" or "leaked": its owner has
\* forgotten it.  tx: is the field tx set?  failed, history: has Commit or
\* Rollback returned an error on this connection?
Conn == [hdbc : {"none", "connected", "leaked", "freed"}, tx : BOOLEAN,
         autocommit : BOOLEAN, failed : BOOLEAN]

\* asked: how the client wanted it, err: was it told that this went wrong?
Work == [state : {"none", "pending", "committed", "undone"},
         conn : Conns \cup {None},
         asked : {"auto", "tx", "commit", "rollback"}, err : BOOLEAN]

Init == /\ conn = [c \in Conns |-> [hdbc |-> "none", tx |-> FALSE,
                                    autocommit |-> TRUE, failed |-> FALSE]]
        /\ work = [w \in Works |-> [state |-> "none", conn |-> None,
                                    asked |-> "auto", err |-> FALSE]]
        /\ envCount = 1 /\ connCount = 0
        /\ db = [noConn |-> 0, refused |-> 0, connected |-> 0]

------------------------------------------------------------------------------
Pending(c) == { w \in Works : work[w].state = "pending" /\ work[w].conn = c }

\* Fault variant: a connection is not counted.
OpenUncounted(c) ==
  /\ conn[c].hdbc = "none"
  /\ conn' = [conn EXCEPT ![c].hdbc = "connected"]
  /\ UNCHANGED <<work, envCount, connCount, db>>

\* Driver.Open: SQLDriverConnect fails and the handle is freed or, when that
\* fails, too, forgotten; or it connects.  A failing SQLAllocHandle leaves
\* nothing.
Open(c) ==
  /\ conn[c].hdbc = "none"
  /\ \/ conn' = [conn EXCEPT ![c].hdbc = "connected"] /\ connCount' = connCount + 1
     \/ conn' = [conn EXCEPT ![c].hdbc = "leaked"] /\ connCount' = connCount + 1
     \/ conn' = [conn EXCEPT ![c].hdbc = "freed"] /\ UNCHANGED connCount
  /\ UNCHANGED <<work, envCount, db>>

\* Begin, when database/sql has the connection free.  tx may not be set.
Begin(c) ==
  /\ conn[c].hdbc = "connected" /\ ~conn[c].tx
  /\ conn' = [conn EXCEPT ![c].autocommit = FALSE, ![c].tx = TRUE]
  /\ UNCHANGED <<work, envCount, connCount, db>>

\* A statement that succeeds: with autocommit it is committed at once.
Exec(c, w) ==
  /\ conn[c].hdbc = "connected" /\ work[w].state = "none"
  /\ work' = [work EXCEPT ![w] =
                [state |-> IF conn[c].autocommit THEN "committed" ELSE "pending",
                 conn |-> c, asked |-> IF conn[c].tx THEN "tx" ELSE "auto",
                 err |-> FALSE]]
  /\ UNCHANGED <<conn, envCount, connCount, db>>

\* What the client learns of the works of its transaction, and what becomes of
\* all that is pending on the connection.
Ended(c, how, err, outcome) ==
  work' = [w \in Works |->
             IF w \notin Pending(c) THEN work[w]
             ELSE [work[w] EXCEPT !.state = outcome,
                                  !.asked = IF @ = "tx" THEN how ELSE @,
                                  !.err = IF work[w].asked = "tx" THEN err ELSE @]]

Done(how) == IF how = "commit" THEN "committed" ELSE "undone"

\* Fault variants: autocommit comes back before the transaction is ended,
\* which commits it; it comes back also when ending failed; an error of
\* SQLEndTran is dropped.
endTxAutoFirst(c, how) ==
  /\ conn[c].hdbc = "connected" /\ conn[c].tx
  /\ conn' = [conn EXCEPT ![c].tx = FALSE, ![c].autocommit = TRUE]
  /\ Ended(c, how, FALSE, "committed")
  /\ UNCHANGED <<envCount, connCount, db>>
endTxAutoAlways(c, how) ==
  /\ conn[c].hdbc = "connected" /\ conn[c].tx
  /\ conn' = [conn EXCEPT ![c].tx = FALSE, ![c].autocommit = TRUE, ![c].failed = TRUE]
  /\ Ended(c, how, TRUE, "pending")
  /\ UNCHANGED <<envCount, connCount, db>>
endTxUnchecked(c, how) ==
  /\ conn[c].hdbc = "connected" /\ conn[c].tx
  /\ conn' = [conn EXCEPT ![c].tx = FALSE]
  /\ \E outcome \in {"pending", Done(how)} : Ended(c, how, FALSE, outcome)
  /\ UNCHANGED <<envCount, connCount, db>>

\* endTx clears tx first.  SQLEndTran may fail, the transaction being left as
\* it is or rolled back by the server; then turning autocommit on may fail.
endTx(c, how) ==
  /\ conn[c].hdbc = "connected" /\ conn[c].tx
  /\ \/ /\ conn' = [conn EXCEPT ![c].tx = FALSE, ![c].failed = TRUE]
        /\ \E outcome \in {"pending", "undone", Done(how)} : Ended(c, how, TRUE, outcome)
     \/ /\ conn' = [conn EXCEPT ![c].tx = FALSE, ![c].autocommit = TRUE]
        /\ Ended(c, how, FALSE, Done(how))
  /\ UNCHANGED <<envCount, connCount, db>>

Commit(c) == endTx(c, "commit")
Rollback(c) == endTx(c, "rollback")

\* Fault variant: a handle that could not be freed is counted as freed.
CloseOvercount(c) ==
  /\ conn[c].hdbc = "connected" /\ ~conn[c].tx
  /\ \E h \in {"leaked", "freed"} : conn' = [conn EXCEPT ![c].hdbc = h]
  /\ connCount' = connCount - 1
  /\ UNCHANGED <<work, envCount, db>>

\* Conn.Close: SQLDisconnect refuses a connection with work pending (25000)
\* and may fail otherwise; SQLFreeHandle may fail.  database/sql rolls a
\* transaction back before it closes the connection.
Close(c) ==
  /\ conn[c].hdbc = "connected" /\ ~conn[c].tx
  /\ \/ conn' = [conn EXCEPT ![c].hdbc = "leaked"] /\ UNCHANGED connCount
     \/ /\ Pending(c) = {}
        /\ conn' = [conn EXCEPT ![c].hdbc = "freed"] /\ connCount' = connCount - 1
  /\ UNCHANGED <<work, envCount, db>>

\* createDatabase and dropDatabase take an environment and a connection
\* handle that they do not count.  The connection handle cannot be allocated:
\* the environment is freed, and counted as freed.
DbNoConn ==
  /\ db.noConn + db.refused + db.connected < MaxDb
  /\ db' = [db EXCEPT !.noConn = @ + 1]
  /\ envCount' = envCount - 1
  /\ UNCHANGED <<conn, work, connCount>>

\* The server is not reached: the connection handle is freed, and counted.
DbRefused ==
  /\ db.noConn + db.refused + db.connected < MaxDb
  /\ db' = [db EXCEPT !.refused = @ + 1]
  /\ connCount' = connCount - 1
  /\ UNCHANGED <<conn, work, envCount>>

\* Once connected the handle is not disconnected, and SQLFreeHandle refuses
\* it (HY010), whatever became of the database.
DbConnected ==
  /\ db.noConn + db.refused + db.connected < MaxDb
  /\ db' = [db EXCEPT !.connected = @ + 1]
  /\ UNCHANGED <<conn, work, envCount, connCount>>

Next == \/ \E c \in Conns : \/ Open(c) \/ Begin(c) \/ Commit(c) \/ Rollback(c) \/ Close(c)
                            \/ \E w \in Works : Exec(c, w)
        \/ DbNoConn \/ DbRefused \/ DbConnected

Spec == Init /\ [][Next]_vars

------------------------------------------------------------------------------
\* The variables have their types.
TypeOK == /\ conn \in [Conns -> Conn]
          /\ work \in [Works -> Work]
          /\ envCount \in 1 - MaxDb .. 1
          /\ connCount \in -MaxDb .. Cardinality(Conns)
          /\ db \in [noConn : 0 .. MaxDb, refused : 0 .. MaxDb, connected : 0 .. MaxDb]

\* Inside a transaction nothing is committed on its own, and as soon as a
\* connection commits on its own nothing older is pending on it: work never
\* slips from one mode into the other.
ModesApart ==
  \A c \in Conns : /\ conn[c].tx => ~conn[c].autocommit
                   /\ conn[c].autocommit => Pending(c) = {}

\* What a client was told is so, whatever failed before on the connection: a
\* Commit or Rollback that returned nil did what it says to every work of the
\* transaction.  A statement outside a transaction is committed, except on a
\* connection where ending an earlier transaction failed.
ToldTruly ==
  \A w \in Works :
    LET k == work[w]
    IN  k.state /= "none" =>
          /\ k.asked = "commit" /\ ~k.err => k.state = "committed"
          /\ k.asked = "rollback" /\ ~k.err => k.state = "undone"
          /\ k.asked = "auto" => k.state = "committed" \/ conn[k.conn].failed

\* Work is forgotten on a connection, neither committed nor undone and locked
\* on the server, only after the end of a transaction failed on it.
PendingExplained ==
  \A c \in Conns : Pending(c) /= {} => conn[c].tx \/ conn[c].failed

\* The work of one transaction is never committed by another one, unless its
\* own end failed.
NoForeignCommit ==
  [][\A w \in Works :
       work[w].state = "pending" /\ work'[w].state = "committed"
         => \/ work[w].asked = "tx" /\ work'[w].asked = "commit"
            \/ conn[work[w].conn].failed]_vars

LiveHandles == { c \in Conns : conn[c].hdbc \in {"connected", "leaked"} }

\* Stats.ConnCount is the number of live connection handles of Open, less the
\* calls of database.go whose connection was refused; Stats.EnvCount is 1 less
\* those that got no connection handle.
CountsExplained ==
  /\ connCount = Cardinality(LiveHandles) - db.refused
  /\ envCount = 1 - db.noConn

\* The inductive invariant.  A connection has autocommit on, a transaction, or
\* a failed end of one behind it, as has every work whose client was told of
\* an error.
IInv == /\ TypeOK /\ ModesApart /\ ToldTruly /\ PendingExplained /\ CountsExplained
        /\ \A c \in Conns : conn[c].autocommit \/ conn[c].tx \/ conn[c].failed
        /\ \A w \in Works :
             work[w].state /= "none" => /\ work[w].conn \in Conns
                                        /\ work[w].err => conn[work[w].conn].failed
==============================================================================
