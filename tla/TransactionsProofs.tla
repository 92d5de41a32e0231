------------------------- MODULE TransactionsProofs -------------------------
(***************************************************************************)
(* Proofs about Transactions, for any finite set of connections and any    *)
(* works: what clients are told is true, and the counters are explained.   *)
(* The part of the invariant about work and the part about counters are    *)
(* kept by different arguments and are proved apart.                       *)
(***************************************************************************)
EXTENDS Transactions, FiniteSetTheorems, TLAPS

\* What IInv says of one connection and of one work.
ConnInv(c) == /\ conn[c] \in Conn
              /\ conn[c].tx => ~conn[c].autocommit
              /\ conn[c].autocommit \/ conn[c].tx \/ conn[c].failed

WorkInv(w) ==
  /\ work[w] \in Work
  /\ work[w].state /= "none" => work[w].conn \in Conns
  /\ work[w].state /= "none" /\ work[w].err => conn[work[w].conn].failed
  /\ work[w].state = "pending" => /\ ~conn[work[w].conn].autocommit
                                  /\ conn[work[w].conn].tx \/ conn[work[w].conn].failed
  /\ work[w].state /= "none" =>
       /\ work[w].asked = "commit" /\ ~work[w].err => work[w].state = "committed"
       /\ work[w].asked = "rollback" /\ ~work[w].err => work[w].state = "undone"
       /\ work[w].asked = "auto" => work[w].state = "committed" \/ conn[work[w].conn].failed

StateInv == /\ conn = [c \in Conns |-> conn[c]] /\ work = [w \in Works |-> work[w]]
            /\ \A c \in Conns : ConnInv(c)
            /\ \A w \in Works : WorkInv(w)

CountInv == /\ db \in [noConn : 0 .. MaxDb, refused : 0 .. MaxDb, connected : 0 .. MaxDb]
            /\ CountsExplained

\* The conjuncts of IInv, sorted by what they are about.
LEMMA IInvParts == IInv <=> StateInv /\ CountInv
  <1>1. IInv => StateInv
    BY DEF IInv, TypeOK, ModesApart, ToldTruly, PendingExplained, Pending, StateInv,
           ConnInv, WorkInv
  <1>2. IInv => CountInv
    BY DEF IInv, TypeOK, CountInv
  <1>3. ASSUME StateInv, CountInv PROVE IInv
    <2>1. conn \in [Conns -> Conn] /\ work \in [Works -> Work]
      BY <1>3 DEF StateInv, ConnInv, WorkInv
    <2>2. /\ ModesApart /\ ToldTruly /\ PendingExplained
          /\ \A c \in Conns : conn[c].autocommit \/ conn[c].tx \/ conn[c].failed
          /\ \A w \in Works :
               work[w].state /= "none" => /\ work[w].conn \in Conns
                                          /\ work[w].err => conn[work[w].conn].failed
      BY <1>3 DEF StateInv, ConnInv, WorkInv, ModesApart, ToldTruly, PendingExplained, Pending
    <2>3. LiveHandles \subseteq Conns
      BY DEF LiveHandles
    <2>4. Cardinality(LiveHandles) \in Nat /\ Cardinality(Conns) \in Nat
          /\ Cardinality(LiveHandles) <= Cardinality(Conns)
      BY <2>3, FS_Subset, FS_CardinalityType, TransactionsAssumption
    <2>5. /\ envCount \in 1 - MaxDb .. 1
          /\ connCount \in -MaxDb .. Cardinality(Conns)
      BY <1>3, <2>4, TransactionsAssumption DEF CountInv, CountsExplained
    <2> QED BY <1>3, <2>1, <2>2, <2>5 DEF IInv, TypeOK, CountInv
  <1> QED BY <1>1, <1>2, <1>3

------------------------------------------------------------------------------
\* What a step that leaves work alone may do to a connection: it keeps the
\* invariant if no connection recovers from a failure, none that has work
\* pending turns autocommit on, and none leaves a transaction.
LEMMA ConnStep ==
  ASSUME StateInv, NEW c \in Conns, NEW r \in Conn, UNCHANGED work,
         conn' = [conn EXCEPT ![c] = r],
         r.tx => ~r.autocommit, r.autocommit \/ r.tx \/ r.failed,
         conn[c].failed => r.failed, conn[c].tx => r.tx,
         r.autocommit => conn[c].autocommit
  PROVE  StateInv'
  <1>1. \A d \in Conns : conn'[d] = IF d = c THEN r ELSE conn[d]
    BY DEF StateInv
  <1>2. conn' = [d \in Conns |-> conn'[d]] /\ work' = [w \in Works |-> work'[w]]
    BY DEF StateInv
  <1>3. \A d \in Conns : ConnInv(d)'
    BY <1>1 DEF StateInv, ConnInv
  <1>4. ASSUME NEW w \in Works PROVE WorkInv(w)'
    <2>1. WorkInv(w) /\ work'[w] = work[w]
      BY DEF StateInv
    <2>2. CASE work[w].state = "none"
      BY <2>1, <2>2 DEF WorkInv
    <2>3. CASE work[w].state /= "none" /\ work[w].conn = c
      BY <1>1, <2>1, <2>3 DEF WorkInv
    <2>4. CASE work[w].state /= "none" /\ work[w].conn /= c
      BY <1>1, <2>1, <2>4 DEF WorkInv
    <2> QED BY <2>2, <2>3, <2>4
  <1> QED BY <1>2, <1>3, <1>4 DEF StateInv

LEMMA OpenStep ==
  ASSUME StateInv, NEW c \in Conns, Open(c)
  PROVE  StateInv'
  <1>1. PICK h \in {"connected", "leaked", "freed"} : conn' = [conn EXCEPT ![c].hdbc = h]
    BY DEF Open
  <1>2. ConnInv(c) /\ UNCHANGED work
    BY DEF StateInv, Open
  <1>3. [conn[c] EXCEPT !.hdbc = h] \in Conn
    BY <1>2 DEF ConnInv, Conn
  <1> QED BY <1>1, <1>2, <1>3, ConnStep DEF ConnInv, Conn

LEMMA CloseStep ==
  ASSUME StateInv, NEW c \in Conns, Close(c)
  PROVE  StateInv'
  <1>1. PICK h \in {"leaked", "freed"} : conn' = [conn EXCEPT ![c].hdbc = h]
    BY DEF Close
  <1>2. ConnInv(c) /\ UNCHANGED work
    BY DEF StateInv, Close
  <1>3. [conn[c] EXCEPT !.hdbc = h] \in Conn
    BY <1>2 DEF ConnInv, Conn
  <1> QED BY <1>1, <1>2, <1>3, ConnStep DEF ConnInv, Conn

LEMMA BeginStep ==
  ASSUME StateInv, NEW c \in Conns, Begin(c)
  PROVE  StateInv'
  <1> DEFINE r == [conn[c] EXCEPT !.autocommit = FALSE, !.tx = TRUE]
  <1>1. conn' = [conn EXCEPT ![c] = r] /\ UNCHANGED work
    BY DEF Begin, StateInv
  <1>2. ConnInv(c)
    BY DEF StateInv
  <1>3. r \in Conn /\ r.tx /\ ~r.autocommit /\ (r.failed <=> conn[c].failed)
    BY <1>2 DEF ConnInv, Conn
  <1> QED BY <1>1, <1>2, <1>3, ConnStep DEF ConnInv

LEMMA ExecStep ==
  ASSUME StateInv, NEW c \in Conns, NEW w \in Works, Exec(c, w)
  PROVE  StateInv'
  <1> DEFINE k == [state |-> IF conn[c].autocommit THEN "committed" ELSE "pending",
                   conn |-> c, asked |-> IF conn[c].tx THEN "tx" ELSE "auto",
                   err |-> FALSE]
  <1>1. work' = [work EXCEPT ![w] = k] /\ conn' = conn
    BY DEF Exec
  <1>2. ConnInv(c) /\ k \in Work
    BY DEF StateInv, Work
  <1>3. /\ conn' = [d \in Conns |-> conn'[d]]
        /\ work' = [v \in Works |-> work'[v]]
        /\ \A v \in Works : v /= w => work'[v] = work[v]
        /\ work'[w] = k
    BY <1>1 DEF StateInv
  <1>4. \A d \in Conns : ConnInv(d)'
    BY <1>1 DEF StateInv, ConnInv
  <1>5. ASSUME NEW v \in Works, v /= w PROVE WorkInv(v)'
    BY <1>1, <1>3, <1>5 DEF StateInv, WorkInv
  <1>6. WorkInv(w)'
    BY <1>1, <1>2, <1>3 DEF ConnInv, WorkInv
  <1> QED BY <1>3, <1>4, <1>5, <1>6 DEF StateInv

\* What Ended does to each work, field by field.
LEMMA EndedOutcome ==
  ASSUME StateInv, NEW c \in Conns, NEW how \in {"commit", "rollback"}, NEW err \in BOOLEAN,
         NEW outcome \in {"pending", "undone", "committed"}, Ended(c, how, err, outcome),
         NEW w \in Works
  PROVE  \/ ~(work[w].state = "pending" /\ work[w].conn = c) /\ work'[w] = work[w]
         \/ /\ work[w].state = "pending" /\ work[w].conn = c
            /\ work'[w] \in Work /\ work'[w].state = outcome /\ work'[w].conn = c
            /\ work[w].asked = "tx" => work'[w].asked = how /\ (work'[w].err <=> err)
            /\ work[w].asked /= "tx" => /\ work'[w].asked = work[w].asked
                                        /\ work'[w].err <=> work[w].err
  <1>1. WorkInv(w)
    BY DEF StateInv
  <1>2. CASE w \notin Pending(c)
    BY <1>2 DEF Ended, Pending
  <1>3. CASE w \in Pending(c)
    <2> DEFINE k == [work[w] EXCEPT !.state = outcome,
                                    !.asked = IF @ = "tx" THEN how ELSE @,
                                    !.err = IF work[w].asked = "tx" THEN err ELSE @]
    <2>1. work'[w] = k /\ work[w].state = "pending" /\ work[w].conn = c
      BY <1>3 DEF Ended, Pending
    <2>2. work[w] \in Work
      BY <1>1 DEF WorkInv
    <2>3. k \in Work /\ k.state = outcome /\ k.conn = c
      BY <2>1, <2>2 DEF Work
    <2>4. k.asked = IF work[w].asked = "tx" THEN how ELSE work[w].asked
      BY <2>2 DEF Work
    <2>5. work[w].asked = "tx" => (k.err <=> err)
      BY <2>2, Zenon DEF Work
    <2>6. work[w].asked /= "tx" => (k.err <=> work[w].err)
      BY <2>2, Zenon DEF Work
    <2> HIDE DEF k
    <2> QED BY <2>1, <2>3, <2>4, <2>5, <2>6
  <1> QED BY <1>2, <1>3

\* Both ways of endTx to end: with an error, leaving autocommit off, or with
\* the outcome that was asked for.
LEMMA EndedStep ==
  ASSUME StateInv, NEW c \in Conns, NEW how \in {"commit", "rollback"}, NEW err \in BOOLEAN,
         NEW outcome \in {"pending", "undone", "committed"}, NEW r \in Conn,
         conn' = [conn EXCEPT ![c] = r], Ended(c, how, err, outcome), ~r.tx,
         conn[c].failed => r.failed,
         err => r.failed /\ ~r.autocommit,
         ~err => r.autocommit /\ outcome = Done(how)
  PROVE  StateInv'
  <1>1. /\ conn' = [d \in Conns |-> conn'[d]]
        /\ \A d \in Conns : d /= c => conn'[d] = conn[d]
        /\ conn'[c] = r
    BY DEF StateInv
  <1>2. work' = [w \in Works |-> work'[w]]
    BY DEF Ended
  <1>3. \A d \in Conns : ConnInv(d)'
    BY <1>1 DEF StateInv, ConnInv
  <1>4. ASSUME NEW w \in Works PROVE WorkInv(w)'
    <2>1. WorkInv(w)
      BY DEF StateInv
    <2>2. CASE ~(work[w].state = "pending" /\ work[w].conn = c) /\ work'[w] = work[w]
      <3>1. CASE work[w].state = "none" \/ work[w].conn /= c
        BY <1>1, <2>1, <2>2, <3>1 DEF WorkInv
      <3>2. CASE work[w].state /= "none" /\ work[w].conn = c
        BY <1>1, <2>1, <2>2, <3>2 DEF WorkInv
      <3> QED BY <3>1, <3>2
    <2>3. CASE /\ work[w].state = "pending" /\ work[w].conn = c
               /\ work'[w] \in Work /\ work'[w].state = outcome /\ work'[w].conn = c
               /\ work[w].asked = "tx" => work'[w].asked = how /\ (work'[w].err <=> err)
               /\ work[w].asked /= "tx" => /\ work'[w].asked = work[w].asked
                                           /\ work'[w].err <=> work[w].err
      <3>1. CASE err
        BY <1>1, <2>1, <2>3, <3>1 DEF WorkInv, Work
      <3>2. CASE ~err
        BY <1>1, <2>1, <2>3, <3>2 DEF WorkInv, Work, Done
      <3> QED BY <3>1, <3>2
    <2> QED BY <2>2, <2>3, EndedOutcome
  <1> QED BY <1>1, <1>2, <1>3, <1>4 DEF StateInv

LEMMA endTxStep ==
  ASSUME StateInv, NEW c \in Conns, NEW how \in {"commit", "rollback"}, endTx(c, how)
  PROVE  StateInv'
  <1>1. ConnInv(c) /\ conn \in [Conns -> Conn]
    BY DEF StateInv, ConnInv
  <1>2. Done(how) \in {"undone", "committed"}
    BY DEF Done
  <1>3. CASE /\ conn' = [conn EXCEPT ![c].tx = FALSE, ![c].failed = TRUE]
             /\ \E outcome \in {"pending", "undone", Done(how)} : Ended(c, how, TRUE, outcome)
    <2> DEFINE r == [conn[c] EXCEPT !.tx = FALSE, !.failed = TRUE]
    <2>1. PICK outcome \in {"pending", "undone", "committed"} : Ended(c, how, TRUE, outcome)
      BY <1>2, <1>3
    <2>2. conn' = [conn EXCEPT ![c] = r]
      BY <1>1, <1>3
    <2>3. r \in Conn /\ ~r.tx /\ r.failed /\ ~r.autocommit
      BY <1>1 DEF endTx, ConnInv, Conn
    <2> HIDE DEF r
    <2> QED BY <2>1, <2>2, <2>3, EndedStep
  <1>4. CASE /\ conn' = [conn EXCEPT ![c].tx = FALSE, ![c].autocommit = TRUE]
             /\ Ended(c, how, FALSE, Done(how))
    <2> DEFINE r == [conn[c] EXCEPT !.tx = FALSE, !.autocommit = TRUE]
    <2>1. conn' = [conn EXCEPT ![c] = r]
      BY <1>1, <1>4
    <2>2. r \in Conn /\ ~r.tx /\ r.autocommit /\ (r.failed <=> conn[c].failed)
      BY <1>1 DEF ConnInv, Conn
    <2>3. PICK outcome \in {"pending", "undone", "committed"} :
            outcome = Done(how) /\ Ended(c, how, FALSE, outcome)
      BY <1>2, <1>4
    <2> HIDE DEF r
    <2> QED BY <2>1, <2>2, <2>3, EndedStep
  <1> QED BY <1>3, <1>4 DEF endTx

LEMMA InitState == Init => StateInv /\ CountInv
  <1> SUFFICES ASSUME Init PROVE StateInv /\ CountInv
    OBVIOUS
  <1>1. /\ \A c \in Conns : conn[c] = [hdbc |-> "none", tx |-> FALSE,
                                        autocommit |-> TRUE, failed |-> FALSE]
        /\ \A w \in Works : work[w] = [state |-> "none", conn |-> None,
                                        asked |-> "auto", err |-> FALSE]
        /\ conn = [c \in Conns |-> conn[c]] /\ work = [w \in Works |-> work[w]]
    BY DEF Init
  <1>2. \A c \in Conns : ConnInv(c)
    <2> DEFINE r == [hdbc |-> "none", tx |-> FALSE, autocommit |-> TRUE, failed |-> FALSE]
    <2>1. r \in Conn /\ ~r.tx /\ r.autocommit
      BY DEF Conn
    <2>2. \A c \in Conns : conn[c] = r
      BY <1>1
    <2> HIDE DEF r
    <2>3. \A c \in Conns : conn[c] \in Conn /\ ~conn[c].tx /\ conn[c].autocommit
      BY <2>1, <2>2
    <2> QED BY <2>3 DEF ConnInv
  <1>3. \A w \in Works : WorkInv(w)
    <2> DEFINE k == [state |-> "none", conn |-> None, asked |-> "auto", err |-> FALSE]
    <2>1. k \in Work /\ k.state = "none"
      BY DEF Work
    <2>2. \A w \in Works : work[w] = k
      BY <1>1
    <2> HIDE DEF k
    <2>3. \A w \in Works : work[w] \in Work /\ work[w].state = "none"
      BY <2>1, <2>2
    <2> QED BY <2>3 DEF WorkInv
  <1>4. LiveHandles = {}
    BY <1>1 DEF LiveHandles
  <1>5. CountInv
    BY <1>4, FS_EmptySet, TransactionsAssumption DEF Init, CountInv, CountsExplained
  <1> QED BY <1>1, <1>2, <1>3, <1>5 DEF StateInv

LEMMA StateStep ==
  ASSUME StateInv, [Next]_vars
  PROVE  StateInv'
  <1>1. CASE \E c \in Conns : Open(c) \/ Begin(c) \/ Close(c)
    BY <1>1, OpenStep, BeginStep, CloseStep
  <1>2. CASE \E c \in Conns : Commit(c) \/ Rollback(c)
    BY <1>2, endTxStep DEF Commit, Rollback
  <1>3. CASE \E c \in Conns, w \in Works : Exec(c, w)
    BY <1>3, ExecStep
  <1>4. CASE UNCHANGED vars \/ DbNoConn \/ DbRefused \/ DbConnected
    <2>1. UNCHANGED <<conn, work>>
      BY <1>4 DEF vars, DbNoConn, DbRefused, DbConnected
    <2> QED BY <2>1 DEF StateInv, ConnInv, WorkInv
  <1> QED BY <1>1, <1>2, <1>3, <1>4 DEF Next

------------------------------------------------------------------------------
\* A step that changes no handle, or one, and the counters with it.
LEMMA SameHandles ==
  ASSUME \A c \in Conns : conn'[c].hdbc = conn[c].hdbc
  PROVE  LiveHandles' = LiveHandles
  BY DEF LiveHandles

LEMMA LiveFinite == /\ IsFiniteSet(LiveHandles)
                    /\ Cardinality(LiveHandles) \in Nat
  <1>1. LiveHandles \subseteq Conns
    BY DEF LiveHandles
  <1> QED BY <1>1, FS_Subset, FS_CardinalityType, TransactionsAssumption

LEMMA CountStep ==
  ASSUME StateInv, CountInv, [Next]_vars
  PROVE  CountInv'
  <1>1. conn \in [Conns -> Conn]
    BY DEF StateInv, ConnInv
  <1>2. ASSUME NEW c \in Conns, Open(c) PROVE CountInv'
    <2>1. /\ conn[c].hdbc = "none" /\ UNCHANGED <<envCount, db>>
          /\ \A d \in Conns : d /= c => conn'[d].hdbc = conn[d].hdbc
          /\ \/ conn'[c].hdbc \in {"connected", "leaked"} /\ connCount' = connCount + 1
             \/ conn'[c].hdbc = "freed" /\ connCount' = connCount
      BY <1>1, <1>2 DEF Open, Conn
    <2>2. CASE conn'[c].hdbc \in {"connected", "leaked"} /\ connCount' = connCount + 1
      <3>1. c \notin LiveHandles /\ LiveHandles' = LiveHandles \cup {c}
        BY <2>1, <2>2 DEF LiveHandles
      <3>2. Cardinality(LiveHandles)' = Cardinality(LiveHandles) + 1
        BY <3>1, LiveFinite, FS_AddElement
      <3> QED BY <2>1, <2>2, <3>2, LiveFinite DEF CountInv, CountsExplained
    <2>3. CASE conn'[c].hdbc = "freed" /\ connCount' = connCount
      <3>1. LiveHandles' = LiveHandles
        BY <2>1, <2>3 DEF LiveHandles
      <3> QED BY <2>1, <2>3, <3>1 DEF CountInv, CountsExplained
    <2> QED BY <2>1, <2>2, <2>3
  <1>3. ASSUME NEW c \in Conns, Close(c) PROVE CountInv'
    <2>1. /\ conn[c].hdbc = "connected" /\ UNCHANGED <<envCount, db>>
          /\ \A d \in Conns : d /= c => conn'[d].hdbc = conn[d].hdbc
          /\ \/ conn'[c].hdbc = "leaked" /\ connCount' = connCount
             \/ conn'[c].hdbc = "freed" /\ connCount' = connCount - 1
      BY <1>1, <1>3 DEF Close, Conn
    <2>2. CASE conn'[c].hdbc = "leaked" /\ connCount' = connCount
      <3>1. LiveHandles' = LiveHandles
        BY <2>1, <2>2 DEF LiveHandles
      <3> QED BY <2>1, <2>2, <3>1 DEF CountInv, CountsExplained
    <2>3. CASE conn'[c].hdbc = "freed" /\ connCount' = connCount - 1
      <3>1. c \in LiveHandles /\ LiveHandles' = LiveHandles \ {c}
        BY <2>1, <2>3 DEF LiveHandles
      <3>2. Cardinality(LiveHandles)' = Cardinality(LiveHandles) - 1
        BY <3>1, LiveFinite, FS_RemoveElement
      <3> QED BY <2>1, <2>3, <3>2, LiveFinite DEF CountInv, CountsExplained
    <2> QED BY <2>1, <2>2, <2>3
  <1>4. CASE \/ UNCHANGED vars
             \/ \E c \in Conns : \/ Begin(c) \/ Commit(c) \/ Rollback(c)
                                 \/ \E w \in Works : Exec(c, w)
    <2>1. \A c \in Conns : conn'[c].hdbc = conn[c].hdbc
      <3>1. CASE conn' = conn
        BY <3>1
      <3>2. ASSUME NEW c \in Conns, Begin(c)
            PROVE  \A d \in Conns : conn'[d].hdbc = conn[d].hdbc
        BY <1>1, <3>2 DEF Begin, Conn
      <3>3. ASSUME NEW c \in Conns, NEW how \in {"commit", "rollback"}, endTx(c, how)
            PROVE  \A d \in Conns : conn'[d].hdbc = conn[d].hdbc
        <4>1. CASE conn' = [conn EXCEPT ![c].tx = FALSE, ![c].failed = TRUE]
          BY <1>1, <4>1 DEF Conn
        <4>2. CASE conn' = [conn EXCEPT ![c].tx = FALSE, ![c].autocommit = TRUE]
          BY <1>1, <4>2 DEF Conn
        <4> QED BY <3>3, <4>1, <4>2 DEF endTx
      <3> QED BY <1>4, <3>1, <3>2, <3>3 DEF vars, Commit, Rollback, Exec
    <2>2. UNCHANGED <<envCount, connCount, db>>
      BY <1>4 DEF vars, Begin, Commit, Rollback, endTx, Exec
    <2> QED BY <2>1, <2>2, SameHandles DEF CountInv, CountsExplained
  <1>5. CASE DbNoConn \/ DbRefused \/ DbConnected
    <2>1. LiveHandles' = LiveHandles
      BY <1>5 DEF DbNoConn, DbRefused, DbConnected, LiveHandles
    <2>2. db' \in [noConn : 0 .. MaxDb, refused : 0 .. MaxDb, connected : 0 .. MaxDb]
      BY <1>5, TransactionsAssumption DEF CountInv, DbNoConn, DbRefused, DbConnected
    <2>3. CASE DbNoConn
      BY <2>1, <2>2, <2>3, LiveFinite DEF CountInv, CountsExplained, DbNoConn
    <2>4. CASE DbRefused
      BY <2>1, <2>2, <2>4, LiveFinite DEF CountInv, CountsExplained, DbRefused
    <2>5. CASE DbConnected
      BY <2>1, <2>2, <2>5 DEF CountInv, CountsExplained, DbConnected
    <2> QED BY <1>5, <2>3, <2>4, <2>5
  <1> QED BY <1>2, <1>3, <1>4, <1>5 DEF Next

------------------------------------------------------------------------------
\* IInv is inductive: whichever step of Begin, endTx, Open or Close fails, what
\* is pending on a connection, its mode and what its clients were told fit.
THEOREM Inductive == Spec => []IInv
  <1>1. Init => IInv
    BY InitState, IInvParts
  <1>2. IInv' <=> StateInv' /\ CountInv'
    BY IInvParts, PTL
  <1>3. IInv /\ [Next]_vars => IInv'
    BY <1>2, IInvParts, StateStep, CountStep
  <1> QED BY <1>1, <1>3, PTL DEF Spec

\* Every variable keeps its type, and the counters their bounds.
THEOREM TypeCorrect == Spec => []TypeOK
  <1>1. IInv => TypeOK
    BY DEF IInv
  <1> QED BY <1>1, Inductive, PTL

\* A connection in a transaction commits nothing on its own, and one that
\* commits on its own has nothing pending.
THEOREM ModesStayApart == Spec => []ModesApart
  <1>1. IInv => ModesApart
    BY DEF IInv
  <1> QED BY <1>1, Inductive, PTL

\* What Commit and Rollback report is what happened to the work of the
\* transaction; other work is committed unless a failure went before.
THEOREM ClientsToldTruly == Spec => []ToldTruly
  <1>1. IInv => ToldTruly
    BY DEF IInv
  <1> QED BY <1>1, Inductive, PTL

\* Work is left pending outside a transaction only by a failed end of one.
THEOREM PendingHasReason == Spec => []PendingExplained
  <1>1. IInv => PendingExplained
    BY DEF IInv
  <1> QED BY <1>1, Inductive, PTL

\* Stats.ConnCount and Stats.EnvCount differ from the handles by the calls of
\* CreateDb and DropDb that failed early, and by nothing else.
THEOREM CountsCorrect == Spec => []CountsExplained
  <1>1. IInv => CountsExplained
    BY DEF IInv
  <1> QED BY <1>1, Inductive, PTL

\* Pending work is committed by the Commit of its own transaction, or on a
\* connection where ending a transaction had failed.
THEOREM OwnCommitOnly == Spec => NoForeignCommit
  <1> DEFINE Own == \A w \in Works :
                      work[w].state = "pending" /\ work'[w].state = "committed"
                        => \/ work[w].asked = "tx" /\ work'[w].asked = "commit"
                           \/ conn[work[w].conn].failed
  <1>1. ASSUME IInv, [Next]_vars PROVE [Own]_vars
    <2>1. StateInv
      BY <1>1, IInvParts
    <2>2. CASE work' = work
      BY <2>2
    <2>3. ASSUME NEW c \in Conns, NEW w \in Works, Exec(c, w) PROVE Own
      BY <2>1, <2>3 DEF Exec, StateInv
    <2>4. ASSUME NEW c \in Conns, NEW how \in {"commit", "rollback"}, endTx(c, how)
          PROVE  Own
      <3> SUFFICES ASSUME NEW w \in Works,
                          work[w].state = "pending", work'[w].state = "committed"
                   PROVE  \/ work[w].asked = "tx" /\ work'[w].asked = "commit"
                          \/ conn[work[w].conn].failed
        OBVIOUS
      <3>1. WorkInv(w)
        BY <2>1 DEF StateInv
      <3>2. CASE work[w].asked /= "tx"
        BY <3>1, <3>2 DEF WorkInv, Work
      <3>3. CASE work[w].asked = "tx"
        <4>1. /\ Done(how) \in {"undone", "committed"}
              /\ Done(how) = "committed" => how = "commit"
          BY DEF Done
        <4>2. PICK err \in BOOLEAN, outcome \in {"pending", "undone", "committed"} :
                Ended(c, how, err, outcome) /\ outcome \in {"pending", "undone", Done(how)}
          BY <2>4, <4>1 DEF endTx
        <4>3. work'[w].asked = how /\ outcome = "committed"
          BY <2>1, <3>3, <4>2, EndedOutcome
        <4> QED BY <3>3, <4>1, <4>2, <4>3
      <3> QED BY <3>2, <3>3
    <2>5. \/ work' = work \/ \E c \in Conns : \E w \in Works : Exec(c, w)
          \/ \E c \in Conns : \E how \in {"commit", "rollback"} : endTx(c, how)
      BY <1>1 DEF Next, vars, Open, Begin, Close, DbNoConn, DbRefused, DbConnected,
                  Commit, Rollback
    <2> QED BY <2>2, <2>3, <2>4, <2>5
  <1> QED BY <1>1, Inductive, PTL DEF Spec, NoForeignCommit
==============================================================================
