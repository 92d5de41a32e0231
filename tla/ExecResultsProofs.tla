-------------------------- MODULE ExecResultsProofs --------------------------
(***************************************************************************)
(* Proofs about ExecResults, for any clients, connections, batches and     *)
(* bounds: what a Result says, and that the work behind it is done once.   *)
(* That a call returns is for TLC.                                         *)
(***************************************************************************)
EXTENDS ExecResults, FiniteSetTheorems, TLAPS

Ids == Clients \X Nat \X Nat

ConnRec == [link : {"none", "up", "down"}, user : Clients \cup {None},
            identity : Ids \cup {None}]

CallRec == [n : Nat, pc : {"idle", "grab", "execute", "rowCount", "moreResults", "done"},
            conn : Conns \cup {None}, attempt : Nat, batch : Seq(Statements),
            at : Nat, sum : Int, answer : {"none", "ok", "error"},
            lastId : Ids \cup {None, Panic, Failure}, counted : Int, failed : BOOLEAN,
            worked : SUBSET Nat, lost : BOOLEAN, shared : BOOLEAN]

Running(r) == r.pc \in {"rowCount", "moreResults"}
Busy(r) == r.pc = "execute" \/ Running(r)

\* A connection that a call uses knows it; a call that has not returned has
\* told nothing.
UseInv(k, r, cs) ==
  /\ Busy(r) => r.conn \in Conns /\ cs[r.conn].user = k
  /\ r.pc \in {"idle", "grab"} => r.conn = None
  /\ r.pc /= "done" => r.answer = "none" /\ r.lastId = None
  /\ r.pc /= "idle" => r.batch /= << >>

\* Without a loss, only the current attempt has done work, and a connection on
\* which it did still works.
WorkedInv(r, cs) ==
  ~r.lost => /\ r.worked \subseteq {r.attempt}
             /\ r.pc \in {"grab", "execute"} => r.worked = {}
             /\ Running(r) => cs[r.conn].link = "up"

\* The part of the work whose count has yet to be asked for.
Uncounted(r) == IF r.pc = "rowCount" THEN Count(r.batch[r.at]) ELSE 0

CountInv(r, cs) ==
  /\ r.pc = "execute" => r.counted = r.sum
  /\ Running(r) =>
       /\ r.at \in 1..Len(r.batch)
       /\ cs[r.conn].link = "up" /\ ~r.failed =>
            /\ r.batch[r.at] /= "fails"
            /\ r.counted = r.sum + Uncounted(r)
  /\ r.answer = "ok" => r.failed \/ (r.at > Len(r.batch) /\ r.sum = r.counted)

\* id is the row of the last insert among the first m statements of batch b,
\* executed by client k in its call n, if there is one.
Newest(k, n, b, m, id) ==
  \/ \A j \in 1..m : b[j] /= "insert"
  \/ \E i \in 1..m : /\ b[i] = "insert" /\ id = Row(k, n, i)
                     /\ \A j \in 1..m : b[j] = "insert" => j <= i

\* The connection remembers the row the call inserted last, until another
\* call takes it.
IdInv(k, r, cs) ==
  /\ Running(r) /\ cs[r.conn].link = "up" =>
       Newest(k, r.n, r.batch, r.at, cs[r.conn].identity)
  /\ r.pc = "done" /\ r.answer = "ok" /\ ~r.shared /\ r.conn /= None =>
       /\ cs[r.conn].user = None
       /\ Newest(k, r.n, r.batch, Len(r.batch), cs[r.conn].identity)

LastIdInv(k, r, ls) ==
  r.lastId /= None =>
    \/ \E i \in 1..Len(r.batch) : /\ r.batch[i] = "insert" /\ r.lastId = Row(k, r.n, i)
                                  /\ \A j \in 1..Len(r.batch) : r.batch[j] = "insert" => j <= i
    \/ r.shared
    \/ \A i \in 1..Len(r.batch) : r.batch[i] /= "insert"
    \/ (r.lastId = Failure /\ (r.conn = None \/ ls > 0))
    \/ (r.lastId = Panic /\ r.conn = None)

CallInv(k, r, cs, ls) ==
  /\ r \in CallRec
  /\ UseInv(k, r, cs) /\ WorkedInv(r, cs) /\ CountInv(r, cs) /\ IdInv(k, r, cs)
  /\ LastIdInv(k, r, ls)

\* The inductive invariant.
IInv ==
  /\ conn \in [Conns -> ConnRec] /\ losses \in Nat
  /\ call = [k \in Clients |-> call[k]]
  /\ \A c \in Conns : conn[c].link = "down" => losses > 0
  /\ \A k \in Clients : CallInv(k, call[k], conn, losses)

------------------------------------------------------------------------------
LEMMA NoneElse ==
  /\ None \notin Conns /\ None \notin Clients /\ None \notin Ids
  /\ \A k \in Clients, n \in Nat, i \in Nat : Row(k, n, i) \in Ids
  BY ExecResultsAssumption DEF Ids, Row

\* What a record loses when its connection is shared or closed.
LEMMA ShareFacts ==
  ASSUME NEW r \in CallRec
  PROVE  LET s == [r EXCEPT !.shared = TRUE] IN
         /\ s \in CallRec /\ s.shared
         /\ s.pc = r.pc /\ s.conn = r.conn /\ s.n = r.n /\ s.attempt = r.attempt
         /\ s.batch = r.batch /\ s.at = r.at /\ s.sum = r.sum /\ s.answer = r.answer
         /\ s.lastId = r.lastId /\ s.counted = r.counted /\ s.failed = r.failed
         /\ s.worked = r.worked /\ s.lost = r.lost
  BY DEF CallRec

LEMMA ForgetFacts ==
  ASSUME NEW r \in CallRec
  PROVE  LET s == [r EXCEPT !.conn = None] IN
         /\ s \in CallRec /\ s.conn = None
         /\ s.pc = r.pc /\ s.shared = r.shared /\ s.n = r.n /\ s.attempt = r.attempt
         /\ s.batch = r.batch /\ s.at = r.at /\ s.sum = r.sum /\ s.answer = r.answer
         /\ s.lastId = r.lastId /\ s.counted = r.counted /\ s.failed = r.failed
         /\ s.worked = r.worked /\ s.lost = r.lost
  BY DEF CallRec

\* What a step on connection c may do to the call of a client who does not use
\* it: nothing, unless it has returned.
Undisturbed(r, s, c, y) ==
  \/ /\ s = r
     /\ \/ r.conn /= c
        \/ conn[c].user /= None
        \/ y.identity = conn[c].identity /\ y.user = None
  \/ /\ r.pc = "done" /\ s = [r EXCEPT !.shared = TRUE]
  \/ /\ r.pc = "done" /\ s = [r EXCEPT !.conn = None]

LEMMA OthersKeep ==
  ASSUME IInv, NEW j \in Clients, NEW c \in Conns, NEW y \in ConnRec, NEW s, NEW cs,
         cs = [conn EXCEPT ![c] = y], conn[c].user /= j,
         NEW ls \in Nat, ls >= losses, Undisturbed(call[j], s, c, y)
  PROVE  CallInv(j, s, cs, ls)
  <1> DEFINE r == call[j]
  <1>1. CallInv(j, r, conn, losses)
    BY DEF IInv
  <1>2. /\ cs[c] = y /\ \A d \in Conns \ {c} : cs[d] = conn[d]
        /\ r \in CallRec /\ losses \in Nat /\ r.conn \in Conns \cup {None}
    BY <1>1 DEF IInv, CallInv, CallRec
  <1> HIDE DEF r
  <1>3. CASE s = r /\ r.conn /= c
    <2>1. Busy(r) => cs[r.conn] = conn[r.conn]
      BY <1>1, <1>2, <1>3 DEF CallInv, UseInv
    <2>2. r.conn /= None => cs[r.conn] = conn[r.conn]
      BY <1>2, <1>3
    <2> QED BY <1>1, <1>2, <1>3, <2>1, <2>2
            DEF CallInv, UseInv, WorkedInv, CountInv, IdInv, LastIdInv, Busy
  <1>4. CASE s = r /\ r.conn = c
    <2>1. ~Busy(r)
      BY <1>1, <1>4 DEF CallInv, UseInv
    <2>2. IdInv(j, r, cs)
      BY <1>1, <1>2, <1>4, <2>1, NoneElse DEF CallInv, IdInv, Busy, Undisturbed, CallRec, r
    <2> QED BY <1>1, <1>2, <1>4, <2>1, <2>2
            DEF CallInv, UseInv, WorkedInv, CountInv, LastIdInv, Busy
  <1>5. CASE r.pc = "done" /\ s = [r EXCEPT !.shared = TRUE]
    BY <1>1, <1>2, <1>5, ShareFacts
       DEF CallInv, UseInv, WorkedInv, CountInv, IdInv, LastIdInv, Busy, Running
  <1>6. CASE r.pc = "done" /\ s = [r EXCEPT !.conn = None]
    BY <1>1, <1>2, <1>6, ForgetFacts
       DEF CallInv, UseInv, WorkedInv, CountInv, IdInv, LastIdInv, Busy, Running
  <1> QED BY <1>3, <1>4, <1>5, <1>6 DEF Undisturbed, r

\* A step of client k on connection c keeps the invariant if it does for k.
LEMMA OneStep ==
  ASSUME IInv, NEW k \in Clients, NEW c \in Conns, NEW y \in ConnRec,
         conn' = [conn EXCEPT ![c] = y], conn[c].user \in {k, None},
         losses' \in Nat, losses' >= losses, y.link = "down" => losses' > 0,
         call' = [j \in Clients |-> call'[j]],
         CallInv(k, call'[k], conn', losses'),
         \A j \in Clients \ {k} : Undisturbed(call[j], call'[j], c, y)
  PROVE  IInv'
  <1>1. conn' \in [Conns -> ConnRec]
    BY DEF IInv
  <1>2. \A d \in Conns : conn'[d].link = "down" => losses' > 0
    BY DEF IInv
  <1>3. ASSUME NEW j \in Clients PROVE CallInv(j, call'[j], conn', losses')
    <2>1. CASE j = k
      BY <2>1
    <2>2. CASE j /= k
      <3>1. conn[c].user /= j
        BY <2>2, NoneElse
      <3>2. Undisturbed(call[j], call'[j], c, y)
        BY <2>2
      <3> QED BY <3>1, <3>2, OthersKeep
    <2> QED BY <2>1, <2>2
  <1> QED BY <1>1, <1>2, <1>3 DEF IInv

\* The connection of a call that goes on is in no other call.
LEMMA CallFacts ==
  ASSUME IInv, NEW k \in Clients
  PROVE  /\ CallInv(k, call[k], conn, losses) /\ call[k] \in CallRec
         /\ Busy(call[k]) =>
              /\ call[k].conn \in Conns /\ conn[call[k].conn].user = k
              /\ conn[call[k].conn] \in ConnRec
              /\ conn = [conn EXCEPT ![call[k].conn] = conn[call[k].conn]]
  BY DEF IInv, CallInv, UseInv

\* A step within a call: it may change its own connection.
LEMMA MoveKeeps ==
  ASSUME IInv, NEW k \in Clients, Busy(call[k]), NEW y \in ConnRec,
         conn' = [conn EXCEPT ![call[k].conn] = y],
         losses' \in Nat, losses' >= losses, y.link = "down" => losses' > 0,
         NEW x, call' = [call EXCEPT ![k] = x],
         CallInv(k, x, conn', losses')
  PROVE  IInv'
  <1> DEFINE c == call[k].conn
  <1>1. c \in Conns /\ conn[c].user = k /\ k /= None
    BY CallFacts, NoneElse
  <1>2. /\ call' = [j \in Clients |-> call'[j]]
        /\ call'[k] = x /\ \A j \in Clients \ {k} : call'[j] = call[j]
    BY DEF IInv
  <1>3. \A j \in Clients \ {k} : Undisturbed(call[j], call'[j], c, y)
    BY <1>1, <1>2 DEF Undisturbed
  <1> HIDE DEF c
  <1> QED BY <1>1, <1>2, <1>3, OneStep DEF c

\* A bad connection is closed.
LEMMA CloseKeeps ==
  ASSUME IInv, NEW k \in Clients, Busy(call[k]),
         conn' = [conn EXCEPT ![call[k].conn] = NoConnection],
         losses' \in Nat, losses' >= losses,
         NEW x, x.conn = None, call' = Forget(call[k].conn, [call EXCEPT ![k] = x]),
         CallInv(k, x, conn', losses')
  PROVE  IInv'
  <1> DEFINE c == call[k].conn
             g == [call EXCEPT ![k] = x]
  <1>1. c \in Conns /\ conn[c].user = k /\ c /= None /\ k /= None
    BY CallFacts, NoneElse
  <1>2. g[k] = x /\ \A j \in Clients \ {k} : g[j] = call[j]
    BY DEF IInv
  <1>3. call' = [j \in Clients |-> call'[j]] /\ call'[k] = x
    BY <1>1, <1>2 DEF Forget
  <1>4. \A j \in Clients \ {k} :
          call'[j] = IF call[j].conn = c /\ call[j].pc = "done"
                     THEN [call[j] EXCEPT !.conn = None] ELSE call[j]
    BY <1>2 DEF Forget
  <1> HIDE DEF g
  <1>5. \A j \in Clients \ {k} : Undisturbed(call[j], call'[j], c, NoConnection)
    BY <1>1, <1>4 DEF Undisturbed
  <1>6. NoConnection \in ConnRec /\ NoConnection.link /= "down"
    BY DEF NoConnection, ConnRec
  <1> HIDE DEF c
  <1> QED BY <1>1, <1>3, <1>5, <1>6, OneStep DEF c

------------------------------------------------------------------------------
\* r is the call of client k, in the middle of a step.
InStep(k, r) ==
  /\ r \in CallRec /\ r.batch /= << >> /\ r.answer = "none" /\ r.lastId = None
  /\ r.conn = call[k].conn

LEMMA ReturnBad ==
  ASSUME IInv, NEW k \in Clients, Busy(call[k]), NEW r, InStep(k, r), NEW cs,
         ~r.lost => r.worked = {}, losses' \in Nat, losses' >= losses,
         Return(k, "badConn", cs, r)
  PROVE  IInv'
  <1> DEFINE x == IF r.attempt < 3
                  THEN [r EXCEPT !.pc = "grab", !.conn = None, !.attempt = @ + 1]
                  ELSE [r EXCEPT !.pc = "done", !.conn = None, !.answer = "error"]
  <1>1. /\ conn' = [conn EXCEPT ![call[k].conn] = NoConnection]
        /\ call' = Forget(call[k].conn, [call EXCEPT ![k] = x])
    BY DEF Return
  <1>2. /\ x \in CallRec /\ x.conn = None /\ x.lost = r.lost /\ x.worked = r.worked
        /\ x.pc \in {"grab", "done"} /\ x.lastId = None /\ x.batch = r.batch
        /\ x.answer /= "ok" /\ (x.pc /= "done" => x.answer = "none")
    <2>1. CASE r.attempt < 3
      <3>1. r.attempt + 1 \in Nat
        BY DEF InStep, CallRec
      <3> DEFINE a == r.attempt + 1
      <3>2. x = [r EXCEPT !.pc = "grab", !.conn = None, !.attempt = a]
        BY <2>1
      <3> HIDE DEF x, a
      <3>3. a \in Nat
        BY <3>1 DEF a
      <3> QED BY <3>2, <3>3 DEF InStep, CallRec
    <2>2. CASE ~(r.attempt < 3)
      BY <2>2 DEF InStep, CallRec
    <2> QED BY <2>1, <2>2
  <1> HIDE DEF x
  <1>3. CallInv(k, x, conn', losses')
    BY <1>2 DEF CallInv, UseInv, WorkedInv, CountInv, IdInv, LastIdInv, Busy, Running, InStep
  <1> QED BY <1>1, <1>2, <1>3, CloseKeeps

LEMMA ReturnOther ==
  ASSUME IInv, NEW k \in Clients, Busy(call[k]), NEW r, InStep(k, r),
         NEW y \in ConnRec, y.link = "down" => losses' > 0,
         ~r.lost => r.worked \subseteq {r.attempt},
         NEW answer \in {"ok", "error"},
         answer = "ok" =>
           /\ r.failed \/ (r.at > Len(r.batch) /\ r.sum = r.counted)
           /\ Newest(k, r.n, r.batch, Len(r.batch), y.identity),
         losses' \in Nat, losses' >= losses,
         Return(k, answer, [conn EXCEPT ![call[k].conn] = y], r)
  PROVE  IInv'
  <1> DEFINE x == [r EXCEPT !.pc = "done", !.answer = answer]
             z == [y EXCEPT !.user = None]
  <1>1. call[k].conn \in Conns
    BY CallFacts
  <1>2. /\ conn' = [conn EXCEPT ![call[k].conn] = z]
        /\ call' = [call EXCEPT ![k] = x]
    BY <1>1 DEF Return, IInv
  <1>3. /\ z \in ConnRec /\ z.link = y.link /\ z.identity = y.identity /\ z.user = None
    BY DEF ConnRec
  <1>4. /\ x \in CallRec /\ x.conn = r.conn /\ x.lost = r.lost /\ x.worked = r.worked
        /\ x.attempt = r.attempt /\ x.n = r.n /\ x.at = r.at /\ x.sum = r.sum
        /\ x.counted = r.counted /\ x.failed = r.failed
        /\ x.pc = "done" /\ x.lastId = None /\ x.batch = r.batch /\ x.answer = answer
    BY DEF InStep, CallRec
  <1>5. conn'[x.conn] = z
    BY <1>1, <1>2, <1>4 DEF InStep, IInv
  <1> HIDE DEF x, z
  <1>6. CallInv(k, x, conn', losses')
    BY <1>3, <1>4, <1>5
       DEF CallInv, UseInv, WorkedInv, CountInv, IdInv, LastIdInv, Busy, Running, InStep
  <1> QED BY <1>2, <1>3, <1>6, MoveKeeps

\* An error that is returned, or makes database/sql try again.
LEMMA FailKeeps ==
  ASSUME IInv, NEW k \in Clients, Busy(call[k]), NEW r, InStep(k, r),
         NEW y \in ConnRec, y.link = "down" => losses' > 0,
         ~r.lost => r.worked = {}, losses' \in Nat, losses' >= losses,
         NEW records, Return(k, NewError(records), [conn EXCEPT ![call[k].conn] = y], r)
  PROVE  IInv'
  <1>1. CASE NewError(records) = "badConn"
    BY <1>1, ReturnBad
  <1>2. CASE NewError(records) = "error"
    <2>1. ~r.lost => r.worked \subseteq {r.attempt}
      OBVIOUS
    <2>2. Return(k, "error", [conn EXCEPT ![call[k].conn] = y], r)
      BY <1>2
    <2> HIDE DEF InStep
    <2> QED BY <2>1, <2>2, ReturnOther
  <1> QED BY <1>1, <1>2 DEF NewError

LEMMA RanFacts ==
  ASSUME IInv, NEW k \in Clients, Busy(call[k]), NEW i \in Nat
  PROVE  \E y \in ConnRec :
           /\ Ran(k, i) = [conn EXCEPT ![call[k].conn] = y]
           /\ y.link = conn[call[k].conn].link /\ y.user = k
           /\ y.identity = IF call[k].batch[i] = "insert"
                           THEN Row(k, call[k].n, i) ELSE conn[call[k].conn].identity
  <1> DEFINE c == call[k].conn
             y == IF call[k].batch[i] = "insert"
                  THEN [conn[c] EXCEPT !.identity = Row(k, call[k].n, i)] ELSE conn[c]
  <1>1. /\ c \in Conns /\ conn[c] \in ConnRec /\ conn[c].user = k
        /\ conn = [conn EXCEPT ![c] = conn[c]]
    BY CallFacts
  <1>2. call[k].n \in Nat
    BY CallFacts DEF CallRec
  <1>3. Row(k, call[k].n, i) \in Ids
    BY <1>2, NoneElse
  <1> HIDE DEF c
  <1>4. /\ y \in ConnRec /\ y.link = conn[c].link /\ y.user = k
        /\ y.identity = IF call[k].batch[i] = "insert"
                        THEN Row(k, call[k].n, i) ELSE conn[c].identity
    BY <1>1, <1>3 DEF ConnRec
  <1>5. Ran(k, i) = [conn EXCEPT ![c] = y]
    BY <1>1 DEF Ran, c
  <1> HIDE DEF y
  <1> QED BY <1>4, <1>5 DEF c

LEMMA HistoryFacts ==
  ASSUME IInv, NEW k \in Clients, NEW i \in 1..Len(call[k].batch)
  PROVE  LET r == call[k]
             h == History(k, i)
         IN /\ h \in CallRec /\ h.at = i
            /\ h.counted = r.counted + Count(r.batch[i])
            /\ h.worked \subseteq r.worked \cup {r.attempt}
            /\ h.pc = r.pc /\ h.conn = r.conn /\ h.n = r.n /\ h.attempt = r.attempt
            /\ h.batch = r.batch /\ h.sum = r.sum /\ h.answer = r.answer
            /\ h.lastId = r.lastId /\ h.failed = r.failed
            /\ h.lost = r.lost /\ h.shared = r.shared
  <1> DEFINE r == call[k]
             a == r.counted + Count(r.batch[i])
             w == IF r.batch[i] = "insert" THEN r.worked \cup {r.attempt} ELSE r.worked
  <1>1. r \in CallRec
    BY CallFacts
  <1>2. a \in Int /\ i \in Nat
    BY <1>1 DEF CallRec, Count
  <1>3. w \in SUBSET Nat /\ w \subseteq r.worked \cup {r.attempt}
    BY <1>1 DEF CallRec
  <1>4. History(k, i) = [r EXCEPT !.at = i, !.counted = a, !.worked = w]
    BY DEF History
  <1> HIDE DEF r, a, w
  <1>5. LET h == [r EXCEPT !.at = i, !.counted = a, !.worked = w] IN
        /\ h \in CallRec /\ h.at = i /\ h.counted = a /\ h.worked = w
        /\ h.pc = r.pc /\ h.conn = r.conn /\ h.n = r.n /\ h.attempt = r.attempt
        /\ h.batch = r.batch /\ h.sum = r.sum /\ h.answer = r.answer
        /\ h.lastId = r.lastId /\ h.failed = r.failed
        /\ h.lost = r.lost /\ h.shared = r.shared
    BY <1>1, <1>2, <1>3 DEF CallRec
  <1>6. a = call[k].counted + Count(call[k].batch[i]) /\ r = call[k]
    BY DEF a, r
  <1> QED BY <1>3, <1>4, <1>5, <1>6

LEMMA NewestStep ==
  ASSUME NEW k, NEW n, NEW b, NEW i \in Nat \ {0}, NEW id, NEW id2,
         Newest(k, n, b, i - 1, id),
         id2 = IF b[i] = "insert" THEN Row(k, n, i) ELSE id
  PROVE  Newest(k, n, b, i, id2)
  <1>1. CASE b[i] = "insert"
    <2>1. i \in 1..i /\ \A j \in 1..i : j <= i
      OBVIOUS
    <2> QED BY <1>1, <2>1 DEF Newest
  <1>2. CASE b[i] /= "insert"
    <2>1. \A j \in 1..i : j = i \/ j \in 1..(i - 1)
      OBVIOUS
    <2>2. \A j \in 1..(i - 1) : j \in 1..i
      OBVIOUS
    <2>3. CASE \A j \in 1..(i - 1) : b[j] /= "insert"
      BY <1>2, <2>1, <2>3 DEF Newest
    <2>4. CASE \E m \in 1..(i - 1) : /\ b[m] = "insert" /\ id = Row(k, n, m)
                                     /\ \A j \in 1..(i - 1) : b[j] = "insert" => j <= m
      <3>1. PICK m \in 1..(i - 1) : /\ b[m] = "insert" /\ id = Row(k, n, m)
                                    /\ \A j \in 1..(i - 1) : b[j] = "insert" => j <= m
        BY <2>4
      <3>2. \A j \in 1..i : b[j] = "insert" => j <= m
        BY <1>2, <2>1, <3>1
      <3> QED BY <1>2, <2>2, <3>1, <3>2 DEF Newest
    <2> QED BY <2>3, <2>4 DEF Newest
  <1> QED BY <1>1, <1>2

\* The connection works and the server runs statement i.
LEMMA RunKeeps ==
  ASSUME IInv, NEW k \in Clients, Busy(call[k]), Up(k),
         NEW i \in 1..Len(call[k].batch), call[k].batch[i] /= "fails",
         ~call[k].failed => call[k].counted = call[k].sum,
         Newest(k, call[k].n, call[k].batch, i - 1, conn[call[k].conn].identity),
         conn' = Ran(k, i),
         call' = [call EXCEPT ![k] = [History(k, i) EXCEPT !.pc = "rowCount"]],
         UNCHANGED losses
  PROVE  IInv'
  <1> DEFINE r == call[k]
             h == History(k, i)
             x == [h EXCEPT !.pc = "rowCount"]
  <1>1. CallInv(k, r, conn, losses) /\ r \in CallRec /\ r.conn \in Conns
    BY CallFacts
  <1>2. PICK y \in ConnRec :
           /\ conn' = [conn EXCEPT ![r.conn] = y]
           /\ y.link = conn[r.conn].link /\ y.user = k
           /\ y.identity = IF r.batch[i] = "insert"
                           THEN Row(k, r.n, i) ELSE conn[r.conn].identity
    BY RanFacts
  <1>3. Newest(k, r.n, r.batch, i, y.identity)
    <2>1. i \in Nat \ {0}
      BY <1>1 DEF CallRec
    <2> HIDE DEF r
    <2>2. Newest(k, r.n, r.batch, i - 1, conn[r.conn].identity)
      BY DEF r
    <2> QED BY <1>2, <2>1, <2>2, NewestStep
  <1>4. /\ h \in CallRec /\ h.at = i
        /\ h.counted = r.counted + Count(r.batch[i])
        /\ h.worked \subseteq r.worked \cup {r.attempt}
        /\ h.conn = r.conn /\ h.n = r.n /\ h.attempt = r.attempt
        /\ h.batch = r.batch /\ h.sum = r.sum /\ h.answer = r.answer
        /\ h.lastId = r.lastId /\ h.failed = r.failed
        /\ h.lost = r.lost /\ h.shared = r.shared
    BY HistoryFacts
  <1> HIDE DEF h
  <1>5. /\ x \in CallRec /\ x.at = i /\ x.pc = "rowCount"
        /\ x.counted = h.counted /\ x.worked = h.worked
        /\ x.conn = h.conn /\ x.n = h.n /\ x.attempt = h.attempt
        /\ x.batch = h.batch /\ x.sum = h.sum /\ x.answer = h.answer
        /\ x.lastId = h.lastId /\ x.failed = h.failed
        /\ x.lost = h.lost /\ x.shared = h.shared
    BY <1>4 DEF CallRec
  <1>6. call' = [call EXCEPT ![k] = x]
    BY DEF h
  <1> HIDE DEF x
  <1>7. conn'[x.conn] = y /\ y.link = "up"
    BY <1>1, <1>2, <1>4, <1>5 DEF Up, IInv
  <1>8. UseInv(k, x, conn')
    BY <1>1, <1>2, <1>4, <1>5, <1>7 DEF CallInv, UseInv, Busy, Running
  <1>9. WorkedInv(x, conn')
    BY <1>1, <1>4, <1>5, <1>7 DEF CallInv, WorkedInv, Busy, Running
  <1>10. CountInv(x, conn')
    <2>1. x.batch[x.at] /= "fails" /\ x.at \in 1..Len(x.batch) /\ x.answer /= "ok"
      BY <1>1, <1>4, <1>5 DEF CallInv, UseInv, Busy, Running
    <2>2. Uncounted(x) = Count(r.batch[i])
      BY <1>4, <1>5 DEF Uncounted
    <2>3. ~x.failed => x.counted = x.sum + Uncounted(x)
      BY <1>4, <1>5, <2>2
    <2> QED BY <1>5, <2>1, <2>3 DEF CountInv
  <1>11. IdInv(k, x, conn') /\ LastIdInv(k, x, losses')
    BY <1>1, <1>3, <1>4, <1>5, <1>7 DEF CallInv, UseInv, IdInv, LastIdInv, Busy, Running
  <1>12. CallInv(k, x, conn', losses')
    BY <1>5, <1>8, <1>9, <1>10, <1>11 DEF CallInv
  <1>13. losses' \in Nat /\ losses' >= losses /\ y.link /= "down"
    BY <1>7 DEF IInv
  <1> HIDE DEF r
  <1> QED BY <1>2, <1>6, <1>12, <1>13, MoveKeeps DEF r

LEMMA StepBegins ==
  ASSUME IInv, NEW k \in Clients, Busy(call[k])
  PROVE  /\ InStep(k, call[k])
         /\ \A i \in 1..Len(call[k].batch) : InStep(k, History(k, i))
  <1>1. CallInv(k, call[k], conn, losses)
    BY CallFacts
  <1>2. InStep(k, call[k])
    BY <1>1 DEF InStep, CallInv, UseInv, Busy, Running
  <1>3. ASSUME NEW i \in 1..Len(call[k].batch) PROVE InStep(k, History(k, i))
    BY <1>2, HistoryFacts DEF InStep
  <1> QED BY <1>2, <1>3

LEMMA LoseKeeps ==
  ASSUME IInv, NEW k \in Clients, Busy(call[k]), NEW r, InStep(k, r),
         NEW records, Lose(k, conn, r, records)
  PROVE  IInv'
  <1> DEFINE c == call[k].conn
             y == [conn[c] EXCEPT !.link = "down"]
             x == [r EXCEPT !.lost = TRUE]
  <1>1. c \in Conns /\ conn[c] \in ConnRec
    BY CallFacts
  <1>2. losses' \in Nat /\ losses' >= losses /\ losses' > 0
    BY DEF Lose, IInv
  <1>3. y \in ConnRec
    BY <1>1 DEF ConnRec
  <1>4. InStep(k, x) /\ x.lost
    BY DEF InStep, CallRec
  <1>5. Return(k, NewError(records), [conn EXCEPT ![c] = y], x)
    BY DEF Lose
  <1> HIDE DEF x, y, c
  <1> QED BY <1>1, <1>2, <1>3, <1>4, <1>5, FailKeeps DEF c

\* A step in the loop over the row counts.
LEMMA LoopKeeps ==
  ASSUME IInv, NEW k \in Clients, Running(call[k]), NEW y \in ConnRec, y.user = k,
         NEW x \in CallRec, Running(x), x.conn = call[k].conn, x.n = call[k].n,
         x.batch = call[k].batch, x.answer = call[k].answer, x.lastId = call[k].lastId,
         x.at \in 1..Len(x.batch),
         ~x.lost => x.worked \subseteq {x.attempt} /\ y.link = "up",
         y.link = "up" => Newest(k, x.n, x.batch, x.at, y.identity),
         y.link = "up" /\ ~x.failed =>
           x.batch[x.at] /= "fails" /\ x.counted = x.sum + Uncounted(x),
         losses' \in Nat, losses' >= losses, y.link = "down" => losses' > 0,
         conn' = [conn EXCEPT ![call[k].conn] = y], call' = [call EXCEPT ![k] = x]
  PROVE  IInv'
  <1>1. Busy(call[k])
    BY DEF Busy
  <1>2. CallInv(k, call[k], conn, losses) /\ call[k].conn \in Conns
    BY <1>1, CallFacts
  <1>3. conn'[x.conn] = y
    BY <1>2 DEF IInv
  <1>4. UseInv(k, x, conn')
    BY <1>2, <1>3 DEF CallInv, UseInv, Busy, Running
  <1>5. WorkedInv(x, conn')
    BY <1>3 DEF WorkedInv, Running
  <1>6. CountInv(x, conn')
    BY <1>2, <1>3 DEF CallInv, UseInv, CountInv, Running
  <1>7. IdInv(k, x, conn') /\ LastIdInv(k, x, losses')
    BY <1>2, <1>3 DEF CallInv, UseInv, IdInv, LastIdInv, Running
  <1>8. CallInv(k, x, conn', losses')
    BY <1>4, <1>5, <1>6, <1>7 DEF CallInv
  <1> QED BY <1>1, <1>8, MoveKeeps

------------------------------------------------------------------------------
LEMMA ExecuteKeeps ==
  ASSUME IInv, NEW k \in Clients, Execute(k)
  PROVE  IInv'
  <1> DEFINE r == call[k]
             c == r.conn
  <1>1. r.pc = "execute" /\ Busy(r)
    BY DEF Execute, Busy
  <1>2. /\ CallInv(k, r, conn, losses) /\ r \in CallRec /\ c \in Conns /\ conn[c] \in ConnRec
        /\ conn = [conn EXCEPT ![c] = conn[c]]
    BY <1>1, CallFacts
  <1>3. /\ 1 \in 1..Len(r.batch) /\ r.counted = r.sum
        /\ ~r.lost => r.worked = {}
        /\ losses \in Nat /\ (conn[c].link = "down" => losses > 0)
    <2>1. r.batch \in Seq(Statements) /\ r.batch /= << >>
      BY <1>1, <1>2 DEF CallRec, CallInv, UseInv
    <2>2. Len(r.batch) \in Nat /\ Len(r.batch) /= 0
      BY <2>1
    <2> QED BY <1>1, <1>2, <2>2 DEF CallInv, CountInv, WorkedInv, IInv
  <1>4. InStep(k, r) /\ InStep(k, History(k, 1))
    BY <1>1, <1>3, StepBegins
  <1>5. CASE /\ Up(k) /\ r.batch[1] /= "fails" /\ conn' = Ran(k, 1)
             /\ call' = [call EXCEPT ![k] = [History(k, 1) EXCEPT !.pc = "rowCount"]]
             /\ UNCHANGED losses
    <2>1. Newest(k, r.n, r.batch, 1 - 1, conn[c].identity)
      BY DEF Newest
    <2> QED BY <1>1, <1>3, <1>5, <2>1, RunKeeps
  <1>6. CASE \E records : /\ Return(k, NewError(records), conn, r)
                          /\ UNCHANGED losses
    <2>1. PICK records : Return(k, NewError(records), conn, r) /\ UNCHANGED losses
      BY <1>6
    <2>2. Return(k, NewError(records), [conn EXCEPT ![c] = conn[c]], r)
      BY <1>2, <2>1
    <2>3. losses' \in Nat /\ losses' >= losses /\ (conn[c].link = "down" => losses' > 0)
      BY <1>3, <2>1
    <2> HIDE DEF r
    <2> QED BY <1>1, <1>2, <1>3, <1>4, <2>2, <2>3, FailKeeps DEF r
  <1>7. CASE \E records : Lose(k, conn, r, records) \/ Lose(k, conn, History(k, 1), records)
    BY <1>1, <1>4, <1>7, LoseKeeps
  <1> QED BY <1>5, <1>6, <1>7 DEF Execute

LEMMA RowCountKeeps ==
  ASSUME IInv, NEW k \in Clients, RowCount(k)
  PROVE  IInv'
  <1> DEFINE r == call[k]
             c == r.conn
             Counted(n) == /\ call' = [call EXCEPT ![k].pc = "moreResults", ![k].sum = @ + n]
                           /\ UNCHANGED conn
  <1>1. r.pc = "rowCount" /\ Running(r) /\ Busy(r) /\ UNCHANGED losses
    BY DEF RowCount, Running, Busy
  <1>2. /\ CallInv(k, r, conn, losses) /\ r \in CallRec /\ c \in Conns /\ conn[c] \in ConnRec
        /\ conn = [conn EXCEPT ![c] = conn[c]] /\ conn[c].user = k
    BY <1>1, CallFacts
  <1>3. /\ losses' \in Nat /\ losses' >= losses /\ (conn[c].link = "down" => losses' > 0)
    BY <1>1, <1>2 DEF IInv
  <1>4. /\ r.at \in 1..Len(r.batch)
        /\ ~r.lost => r.worked \subseteq {r.attempt} /\ conn[c].link = "up"
        /\ conn[c].link = "up" => Newest(k, r.n, r.batch, r.at, conn[c].identity)
        /\ conn[c].link = "up" /\ ~r.failed =>
             /\ r.batch[r.at] /= "fails"
             /\ r.counted = r.sum + Count(r.batch[r.at])
    BY <1>1, <1>2 DEF CallInv, CountInv, WorkedInv, IdInv, Uncounted
  <1>5. InStep(k, r)
    BY <1>1, StepBegins
  <1>6. r.at <= Len(r.batch) /\ r.at \in Nat /\ r.sum \in Int
    BY <1>2, <1>4 DEF CallRec
  <1>7. ASSUME NEW n \in Int, Counted(n),
               Up(k) => n = Count(r.batch[r.at]) \/ r.batch[r.at] = "fails"
        PROVE  IInv'
    <2> DEFINE a == r.sum + n
               x == [r EXCEPT !.pc = "moreResults", !.sum = a]
    <2>1. call' = [call EXCEPT ![k] = x] /\ conn' = [conn EXCEPT ![c] = conn[c]]
      BY <1>2, <1>7
    <2>2. a \in Int
      BY <1>6, <1>7
    <2>3. conn[c].link = "up" /\ ~r.failed => r.counted = a
      BY <1>4, <1>7 DEF Up
    <2> HIDE DEF a
    <2>4. /\ x \in CallRec /\ x.pc = "moreResults" /\ x.sum = a
          /\ x.conn = r.conn /\ x.n = r.n /\ x.attempt = r.attempt /\ x.at = r.at
          /\ x.batch = r.batch /\ x.answer = r.answer /\ x.counted = r.counted
          /\ x.lastId = r.lastId /\ x.failed = r.failed /\ x.worked = r.worked
          /\ x.lost = r.lost /\ x.shared = r.shared
      BY <1>2, <2>2 DEF CallRec
    <2> HIDE DEF x
    <2>5. Running(x) /\ Uncounted(x) = 0
      BY <2>4 DEF Running, Uncounted
    <2>6. conn[c].link = "up" /\ ~x.failed =>
            x.batch[x.at] /= "fails" /\ x.counted = x.sum + Uncounted(x)
      <3>1. a = a + 0
        BY <2>2
      <3> QED BY <1>4, <2>3, <2>4, <2>5, <3>1
    <2> HIDE DEF r
    <2>7. /\ x.at \in 1..Len(x.batch)
          /\ ~x.lost => x.worked \subseteq {x.attempt} /\ conn[c].link = "up"
          /\ conn[c].link = "up" => Newest(k, x.n, x.batch, x.at, conn[c].identity)
      BY <1>4, <2>4
    <2> QED BY <1>1, <1>2, <1>3, <2>1, <2>4, <2>5, <2>6, <2>7, LoopKeeps DEF r
  <1>8. CASE Up(k) /\ r.batch[r.at] = "fails" /\ Return(k, NewError(SqlError), conn, r)
    <2>1. NewError(SqlError) = "error"
      BY DEF NewError, SqlError
    <2>2. Return(k, "error", [conn EXCEPT ![c] = conn[c]], r)
      BY <1>2, <1>8, <2>1
    <2> HIDE DEF r
    <2> QED BY <1>1, <1>2, <1>3, <1>4, <1>5, <2>2, ReturnOther DEF r
  <1>9. CASE ~Up(k) /\ \E records \in LossRecords(FALSE) : Return(k, NewError(records), conn, r)
    <2>1. PICK records : Return(k, NewError(records), conn, r)
      BY <1>9
    <2>2. Return(k, NewError(records), [conn EXCEPT ![c] = conn[c]], r)
      BY <1>2, <2>1
    <2>3. r.lost
      BY <1>2, <1>4, <1>9 DEF Up, CallRec
    <2> HIDE DEF r
    <2> QED BY <1>1, <1>2, <1>3, <1>5, <2>2, <2>3, FailKeeps DEF r
  <1>10. \/ Up(k) /\ r.batch[r.at] \in {"insert", "select"} /\ Counted(Count(r.batch[r.at]))
         \/ Up(k) /\ r.batch[r.at] = "fails" /\ Counted(-1)
         \/ Up(k) /\ r.batch[r.at] = "fails" /\ Return(k, NewError(SqlError), conn, r)
         \/ ~Up(k) /\ \E records \in LossRecords(FALSE) : Return(k, NewError(records), conn, r)
         \/ (~Up(k) \/ r.batch[r.at] = "none") /\ Counted(0)
    <2> DEFINE current == IF r.at <= Len(r.batch) THEN r.batch[r.at] ELSE "none"
    <2>1. current = r.batch[r.at]
      BY <1>6
    <2>2. \/ Up(k) /\ current \in {"insert", "select"} /\ Counted(Count(current))
          \/ Up(k) /\ current = "fails" /\ Counted(-1)
          \/ Up(k) /\ current = "fails" /\ Return(k, NewError(SqlError), conn, r)
          \/ ~Up(k) /\ \E records \in LossRecords(FALSE) : Return(k, NewError(records), conn, r)
          \/ (~Up(k) \/ current = "none") /\ Counted(0)
      BY ZenonT(60) DEF RowCount
    <2> HIDE DEF current, Counted
    <2> QED BY <2>1, <2>2
  <1>11. r.batch[r.at] /= "none"
    BY <1>2, <1>4 DEF CallRec, Statements
  <1> HIDE DEF Counted
  <1>12. CASE Up(k) /\ r.batch[r.at] \in {"insert", "select"} /\ Counted(Count(r.batch[r.at]))
    <2>1. Count(r.batch[r.at]) \in Int
      BY DEF Count
    <2> QED BY <1>7, <1>12, <2>1
  <1>13. CASE Up(k) /\ r.batch[r.at] = "fails" /\ Counted(-1)
    BY <1>7, <1>13
  <1>14. CASE ~Up(k) /\ Counted(0)
    BY <1>7, <1>14
  <1> QED BY <1>8, <1>9, <1>10, <1>11, <1>12, <1>13, <1>14

LEMMA MoreResultsKeeps ==
  ASSUME IInv, NEW k \in Clients, MoreResults(k)
  PROVE  IInv'
  <1> DEFINE r == call[k]
             c == r.conn
             i == r.at + 1
             down == [conn[c] EXCEPT !.link = "down"]
  <1>1. r.pc = "moreResults" /\ Running(r) /\ Busy(r)
    BY DEF MoreResults, Running, Busy
  <1>2. /\ CallInv(k, r, conn, losses) /\ r \in CallRec /\ c \in Conns /\ conn[c] \in ConnRec
        /\ conn = [conn EXCEPT ![c] = conn[c]] /\ conn[c].user = k
    BY <1>1, CallFacts
  <1>3. losses \in Nat /\ (conn[c].link = "down" => losses > 0)
    BY <1>1, <1>2 DEF IInv
  <1>4. /\ r.at \in 1..Len(r.batch)
        /\ ~r.lost => r.worked \subseteq {r.attempt} /\ conn[c].link = "up"
        /\ conn[c].link = "up" => Newest(k, r.n, r.batch, r.at, conn[c].identity)
        /\ conn[c].link = "up" /\ ~r.failed => r.counted = r.sum
    <2>1. conn[c].link = "up" /\ ~r.failed => r.counted = r.sum + 0
      BY <1>1, <1>2 DEF CallInv, CountInv, Uncounted
    <2>2. r.sum \in Int
      BY <1>2 DEF CallRec
    <2> QED BY <1>1, <1>2, <2>1, <2>2 DEF CallInv, CountInv, WorkedInv, IdInv
  <1>5. InStep(k, r)
    BY <1>1, StepBegins
  <1>6. i \in Nat \ {0} /\ i - 1 = r.at /\ Len(r.batch) \in Nat /\ r.at \in Nat
    BY <1>2, <1>4 DEF CallRec
  <1>7. CASE /\ Up(k) /\ i > Len(r.batch)
             /\ Loop(k, "noData", conn, [r EXCEPT !.at = Len(r.batch) + 1])
             /\ UNCHANGED losses
    <2> DEFINE a == Len(r.batch) + 1
               x == [r EXCEPT !.at = a]
    <2>1. PICK answer \in {"ok", "error"} : Return(k, answer, [conn EXCEPT ![c] = conn[c]], x)
      BY <1>2, <1>7 DEF Loop, LastResult
    <2>2. a \in Nat /\ a > Len(r.batch) /\ Len(r.batch) = r.at
      BY <1>4, <1>6, <1>7
    <2> HIDE DEF a
    <2>3. /\ InStep(k, x) /\ x.at = a /\ x.sum = r.sum /\ x.counted = r.counted
          /\ x.failed = r.failed /\ x.worked = r.worked /\ x.attempt = r.attempt
          /\ x.lost = r.lost /\ x.batch = r.batch /\ x.n = r.n
      BY <1>5, <2>2 DEF InStep, CallRec
    <2> HIDE DEF x
    <2>4. /\ x.failed \/ (x.at > Len(x.batch) /\ x.sum = x.counted)
          /\ Newest(k, x.n, x.batch, Len(x.batch), conn[c].identity)
          /\ ~x.lost => x.worked \subseteq {x.attempt}
      BY <1>4, <1>7, <2>2, <2>3 DEF Up, CallRec
    <2>5. losses' \in Nat /\ losses' >= losses /\ (conn[c].link = "down" => losses' > 0)
      BY <1>3, <1>7
    <2> HIDE DEF r
    <2> QED BY <1>1, <1>2, <2>1, <2>3, <2>4, <2>5, ReturnOther DEF r
  <1>8. CASE /\ Up(k) /\ i <= Len(r.batch) /\ r.batch[i] /= "fails"
             /\ Loop(k, "success", Ran(k, i), History(k, i))
             /\ UNCHANGED losses
    <2>1. /\ conn' = Ran(k, i)
          /\ call' = [call EXCEPT ![k] = [History(k, i) EXCEPT !.pc = "rowCount"]]
      BY <1>8 DEF Loop, LastResult
    <2>2. i \in 1..Len(r.batch)
      BY <1>6, <1>8
    <2>3. Newest(k, r.n, r.batch, i - 1, conn[c].identity)
      BY <1>4, <1>6, <1>8 DEF Up
    <2>4. ~r.failed => r.counted = r.sum
      BY <1>4, <1>8 DEF Up
    <2> HIDE DEF i
    <2> QED BY <1>1, <1>8, <2>1, <2>2, <2>3, <2>4, RunKeeps
  \* The loop goes on after an error.
  <1>9. ASSUME NEW y \in ConnRec, y.user = k, y.link = "down" => losses' > 0,
               NEW h, InStep(k, h), h.n = r.n, h.batch = r.batch,
               h.at \in 1..Len(h.batch),
               ~h.lost => h.worked \subseteq {h.attempt} /\ y.link = "up",
               y.link = "up" => h.failed /\ Newest(k, h.n, h.batch, h.at, y.identity),
               losses' \in Nat, losses' >= losses,
               Loop(k, "error", [conn EXCEPT ![c] = y], h)
        PROVE  IInv'
    <2> DEFINE x == [h EXCEPT !.pc = "rowCount"]
    <2>1. conn' = [conn EXCEPT ![c] = y] /\ call' = [call EXCEPT ![k] = x]
      BY <1>9 DEF Loop, LastResult
    <2>2. /\ x \in CallRec /\ x.pc = "rowCount"
          /\ x.conn = h.conn /\ x.n = h.n /\ x.attempt = h.attempt /\ x.at = h.at
          /\ x.batch = h.batch /\ x.answer = h.answer
          /\ x.lastId = h.lastId /\ x.failed = h.failed /\ x.worked = h.worked
          /\ x.lost = h.lost
      BY <1>9 DEF InStep, CallRec
    <2> HIDE DEF x
    <2>3. /\ Running(x) /\ x.conn = c /\ x.answer = r.answer /\ x.lastId = r.lastId
          /\ x.n = r.n /\ x.batch = r.batch
      BY <1>5, <1>9, <2>2 DEF Running, InStep
    <2>4. y.link = "up" /\ ~x.failed =>
            x.batch[x.at] /= "fails" /\ x.counted = x.sum + Uncounted(x)
      BY <1>9, <2>2 DEF CallRec
    <2> HIDE DEF r
    <2>5. /\ x.at \in 1..Len(x.batch)
          /\ ~x.lost => x.worked \subseteq {x.attempt} /\ y.link = "up"
          /\ y.link = "up" => Newest(k, x.n, x.batch, x.at, y.identity)
      BY <1>9, <2>2
    <2>6. /\ y.user = k /\ (y.link = "down" => losses' > 0)
          /\ losses' \in Nat /\ losses' >= losses /\ x \in CallRec
      BY <1>9, <2>2
    <2>7. r = call[k]
      BY DEF r
    <2> QED BY <1>1, <2>1, <2>3, <2>4, <2>5, <2>6, <2>7, LoopKeeps
  <1>10. CASE /\ Up(k) /\ i <= Len(r.batch) /\ r.batch[i] = "fails"
              /\ Loop(k, "error", conn, [r EXCEPT !.at = i, !.failed = TRUE])
              /\ UNCHANGED losses
    <2> DEFINE h == [r EXCEPT !.at = i, !.failed = TRUE]
    <2>1. Loop(k, "error", [conn EXCEPT ![c] = conn[c]], h)
      BY <1>2, <1>10
    <2>2. i \in 1..Len(r.batch) /\ conn[c].link = "up"
      BY <1>6, <1>10 DEF Up
    <2>3. Newest(k, r.n, r.batch, i, conn[c].identity)
      <3>1. Newest(k, r.n, r.batch, i - 1, conn[c].identity)
        BY <1>4, <1>6, <2>2
      <3>2. i \in Nat \ {0} /\ r.batch[i] /= "insert"
        BY <1>6, <1>10
      <3> DEFINE id == conn[c].identity
      <3> HIDE DEF i, id
      <3>3. id = IF r.batch[i] = "insert" THEN Row(k, r.n, i) ELSE id
        BY <3>2
      <3> HIDE DEF r
      <3>4. Newest(k, r.n, r.batch, i - 1, id)
        BY <3>1 DEF id
      <3>5. Newest(k, r.n, r.batch, i, id)
        BY <3>2, <3>3, <3>4, NewestStep
      <3> QED BY <3>5 DEF id
    <2> HIDE DEF i
    <2>4. /\ InStep(k, h) /\ h.at = i /\ h.failed /\ h.worked = r.worked
          /\ h.attempt = r.attempt /\ h.lost = r.lost /\ h.batch = r.batch /\ h.n = r.n
      BY <1>5, <1>6, <2>2 DEF InStep, CallRec
    <2> HIDE DEF h
    <2>5. losses' \in Nat /\ losses' >= losses /\ (conn[c].link = "down" => losses' > 0)
      BY <1>3, <1>10
    <2>6. ~h.lost => h.worked \subseteq {h.attempt} /\ conn[c].link = "up"
      BY <1>4, <2>2, <2>4
    <2>7. h.at \in 1..Len(h.batch) /\ Newest(k, h.n, h.batch, h.at, conn[c].identity)
      BY <2>2, <2>3, <2>4
    <2> QED BY <1>2, <1>9, <2>1, <2>4, <2>5, <2>6, <2>7
  <1>11. CASE /\ Up(k) /\ i <= Len(r.batch)
              /\ \E done \in IF r.batch[i] = "fails" THEN {FALSE} ELSE BOOLEAN :
                   Loop(k, "error", [conn EXCEPT ![c].link = "down"],
                        [IF done THEN History(k, i) ELSE r EXCEPT !.lost = TRUE])
              /\ losses' = losses + 1
    <2>1. PICK g \in {r, History(k, i)} :
            Loop(k, "error", [conn EXCEPT ![c] = down], [g EXCEPT !.lost = TRUE])
      BY <1>11
    <2>2. i \in 1..Len(r.batch)
      BY <1>6, <1>11
    <2>3. /\ InStep(k, g) /\ g.n = r.n /\ g.batch = r.batch /\ g.at \in 1..Len(r.batch)
      <3>1. CASE g = r
        BY <1>4, <1>5, <3>1
      <3>2. CASE g = History(k, i)
        <4> HIDE DEF i
        <4>1. InStep(k, History(k, i))
          BY <1>1, <2>2, StepBegins
        <4>2. /\ History(k, i).n = r.n /\ History(k, i).batch = r.batch
              /\ History(k, i).at = i
          BY <2>2, HistoryFacts
        <4> QED BY <2>2, <3>2, <4>1, <4>2
      <3> QED BY <3>1, <3>2
    <2> DEFINE h == [g EXCEPT !.lost = TRUE]
    <2>4. /\ InStep(k, h) /\ h.at = g.at /\ h.lost /\ h.batch = g.batch /\ h.n = g.n
      BY <2>3 DEF InStep, CallRec
    <2>5. /\ down \in ConnRec /\ down.user = k /\ down.link = "down"
      BY <1>2 DEF ConnRec
    <2>6. losses' \in Nat /\ losses' >= losses /\ losses' > 0
      BY <1>3, <1>11
    <2> HIDE DEF h, down, i
    <2>7. Loop(k, "error", [conn EXCEPT ![c] = down], h)
      BY <2>1 DEF h
    <2>8. h.at \in 1..Len(h.batch) /\ h.n = r.n /\ h.batch = r.batch
      BY <2>3, <2>4
    <2> QED BY <1>9, <2>4, <2>5, <2>6, <2>7, <2>8
  <1>12. CASE ~Up(k) /\ Loop(k, "error", conn, r) /\ UNCHANGED losses
    <2>1. Loop(k, "error", [conn EXCEPT ![c] = conn[c]], r)
      BY <1>2, <1>12
    <2>2. conn[c].link /= "up"
      BY <1>12 DEF Up
    <2>3. losses' \in Nat /\ losses' >= losses /\ (conn[c].link = "down" => losses' > 0)
      BY <1>3, <1>12
    <2> QED BY <1>2, <1>4, <1>5, <1>9, <2>1, <2>2, <2>3
  <1> QED BY <1>7, <1>8, <1>10, <1>11, <1>12 DEF MoreResults

LEMMA CallKeeps ==
  ASSUME IInv, NEW k \in Clients, Call(k)
  PROVE  IInv'
  <1>1. PICK b \in Batches :
          call' = [call EXCEPT ![k] = [NoCall EXCEPT !.n = call[k].n + 1, !.pc = "grab",
                                                     !.attempt = 1, !.batch = b]]
    BY DEF Call
  <1>2. UNCHANGED <<conn, losses>>
    BY DEF Call
  <1> DEFINE m == call[k].n + 1
             x == [NoCall EXCEPT !.n = m, !.pc = "grab", !.attempt = 1, !.batch = b]
  <1>3. b \in Seq(Statements) /\ b /= << >> /\ m \in Nat
    BY CallFacts, ExecResultsAssumption DEF CallRec
  <1> HIDE DEF m
  <1>4. x \in CallRec /\ x.pc = "grab" /\ x.conn = None /\ x.answer = "none" /\ x.lastId = None
        /\ x.batch = b /\ x.worked = {}
    <2>1. NoCall \in CallRec
      BY DEF NoCall, CallRec
    <2>2. /\ NoCall.conn = None /\ NoCall.answer = "none" /\ NoCall.lastId = None
          /\ NoCall.worked = {}
      BY DEF NoCall
    <2> QED BY <1>3, <2>1, <2>2 DEF CallRec
  <1> HIDE DEF x
  <1>5. CallInv(k, x, conn', losses')
    BY <1>3, <1>4 DEF CallInv, UseInv, WorkedInv, CountInv, IdInv, LastIdInv, Busy, Running
  <1>6. call' = [call EXCEPT ![k] = x]
    BY <1>1 DEF x, m
  <1>7. ASSUME NEW j \in Clients PROVE CallInv(j, call'[j], conn', losses')
    <2>1. CallInv(j, call[j], conn', losses')
      BY <1>2 DEF IInv
    <2> QED BY <1>5, <1>6, <2>1 DEF IInv
  <1> QED BY <1>2, <1>6, <1>7 DEF IInv

LEMMA GrabKeeps ==
  ASSUME IInv, NEW k \in Clients, Grab(k)
  PROVE  IInv'
  <1> DEFINE free == {c \in Conns : conn[c].user = None}
             cached == {c \in free : conn[c].link /= "none"}
             old == call[k].attempt < 3 /\ cached /= {}
  <1>1. PICK c \in IF old THEN cached ELSE free :
          /\ conn' = [conn EXCEPT ![c] =
               IF old THEN [@ EXCEPT !.user = k]
               ELSE [NoConnection EXCEPT !.link = "up", !.user = k]]
          /\ call' = [j \in Clients |->
               IF j = k
               THEN [call[k] EXCEPT !.pc = "execute", !.conn = c, !.sum = 0,
                                    !.at = 0, !.counted = 0, !.failed = FALSE]
               ELSE IF call[j].conn /= c THEN call[j]
               ELSE IF old THEN [call[j] EXCEPT !.shared = TRUE]
               ELSE [call[j] EXCEPT !.conn = None]]
    BY DEF Grab
  <1>2. call[k].pc = "grab" /\ losses' = losses
    BY DEF Grab
  <1>3. c \in Conns /\ conn[c].user = None
    BY <1>1
  <1> HIDE DEF old
  <1> DEFINE y == IF old THEN [conn[c] EXCEPT !.user = k]
                  ELSE [NoConnection EXCEPT !.link = "up", !.user = k]
             x == [call[k] EXCEPT !.pc = "execute", !.conn = c, !.sum = 0,
                                  !.at = 0, !.counted = 0, !.failed = FALSE]
  <1>4. conn' = [conn EXCEPT ![c] = y] /\ call'[k] = x /\ call' = [j \in Clients |-> call'[j]]
    BY <1>1, <1>3
  <1>5. y \in ConnRec /\ y.user = k /\ (y.link = "down" => losses' > 0)
    BY <1>2, <1>3 DEF IInv, ConnRec, NoConnection
  <1>6. CallInv(k, call[k], conn, losses) /\ call[k] \in CallRec
    BY CallFacts
  <1>7. /\ x \in CallRec /\ x.pc = "execute" /\ x.conn = c /\ x.sum = 0 /\ x.counted = 0
        /\ x.answer = call[k].answer /\ x.lastId = call[k].lastId /\ x.batch = call[k].batch
        /\ x.worked = call[k].worked /\ x.lost = call[k].lost
    <2> DEFINE zero == 0
    <2>1. zero \in Nat /\ zero \in Int /\ FALSE \in BOOLEAN
      OBVIOUS
    <2> HIDE DEF zero
    <2>2. LET s == [call[k] EXCEPT !.pc = "execute", !.conn = c, !.sum = zero,
                                   !.at = zero, !.counted = zero, !.failed = FALSE]
          IN /\ s \in CallRec /\ s.pc = "execute" /\ s.conn = c
             /\ s.sum = zero /\ s.counted = zero
             /\ s.answer = call[k].answer /\ s.lastId = call[k].lastId
             /\ s.batch = call[k].batch /\ s.worked = call[k].worked /\ s.lost = call[k].lost
      BY <1>3, <1>6, <2>1 DEF CallRec
    <2> QED BY <2>2 DEF zero
  <1>8. \A j \in Clients \ {k} : Undisturbed(call[j], call'[j], c, y)
    <2> SUFFICES ASSUME NEW j \in Clients \ {k} PROVE Undisturbed(call[j], call'[j], c, y)
      OBVIOUS
    <2>1. call'[j] = IF call[j].conn /= c THEN call[j]
                     ELSE IF old THEN [call[j] EXCEPT !.shared = TRUE]
                     ELSE [call[j] EXCEPT !.conn = None]
      BY <1>1
    <2>2. call[j].conn = c => call[j].pc = "done"
      <3>1. CallInv(j, call[j], conn, losses)
        BY CallFacts
      <3> QED BY <1>3, <3>1, NoneElse DEF CallInv, UseInv, Busy, Running, CallRec
    <2> QED BY <2>1, <2>2 DEF Undisturbed
  <1> HIDE DEF x, y
  <1>9. conn'[c] = y
    BY <1>3, <1>4 DEF IInv
  <1>10. CallInv(k, x, conn', losses')
    BY <1>2, <1>3, <1>5, <1>6, <1>7, <1>9
       DEF CallInv, UseInv, WorkedInv, CountInv, IdInv, LastIdInv, Busy, Running
  <1>11. losses' \in Nat /\ losses' >= losses
    BY <1>2 DEF IInv
  <1> QED BY <1>3, <1>4, <1>5, <1>8, <1>10, <1>11, OneStep

LEMMA IdleKeeps ==
  ASSUME IInv, NEW c \in Conns, Idle(c)
  PROVE  IInv'
  <1>1. conn[c].user = None /\ conn[c] \in ConnRec
    BY DEF Idle, IInv
  <1>2. \E y \in ConnRec :
          /\ conn' = [conn EXCEPT ![c] = y] /\ (y.link = "down" => losses' > 0)
          /\ losses' \in Nat /\ losses' >= losses
          /\ call' = [j \in Clients |-> call'[j]]
          /\ \A j \in Clients : Undisturbed(call[j], call'[j], c, y)
    <2>1. CASE /\ losses' = losses + 1
               /\ conn' = [conn EXCEPT ![c].link = "down"]
               /\ UNCHANGED call
      <3> DEFINE y == [conn[c] EXCEPT !.link = "down"]
      <3>1. y \in ConnRec /\ y.identity = conn[c].identity /\ y.user = None
        BY <1>1 DEF ConnRec
      <3>2. conn' = [conn EXCEPT ![c] = y]
        BY <2>1
      <3> HIDE DEF y
      <3>3. \A j \in Clients : Undisturbed(call[j], call'[j], c, y)
        BY <1>1, <2>1, <3>1 DEF Undisturbed
      <3>4. losses' \in Nat /\ losses' >= losses /\ losses' > 0
        BY <2>1 DEF IInv
      <3>5. call' = [j \in Clients |-> call'[j]]
        BY <2>1 DEF IInv
      <3> QED BY <3>1, <3>2, <3>3, <3>4, <3>5
    <2>2. CASE /\ conn' = [conn EXCEPT ![c] = NoConnection]
               /\ call' = Forget(c, call)
               /\ UNCHANGED losses
      <3>1. NoConnection \in ConnRec /\ NoConnection.link /= "down"
        BY DEF NoConnection, ConnRec
      <3>2. call' = [j \in Clients |-> call'[j]]
        BY <2>2 DEF Forget
      <3>3. ASSUME NEW j \in Clients PROVE Undisturbed(call[j], call'[j], c, NoConnection)
        <4>1. call'[j] = IF call[j].conn = c /\ call[j].pc = "done"
                         THEN [call[j] EXCEPT !.conn = None] ELSE call[j]
          BY <2>2 DEF Forget
        <4>2. call[j].conn = c => call[j].pc = "done"
          <5>1. CallInv(j, call[j], conn, losses)
            BY CallFacts
          <5> QED BY <1>1, <5>1, NoneElse DEF CallInv, UseInv, Busy, Running, CallRec
        <4> QED BY <4>1, <4>2 DEF Undisturbed
      <3>4. losses' \in Nat /\ losses' >= losses
        BY <2>2 DEF IInv
      <3> QED BY <2>2, <3>1, <3>2, <3>3, <3>4
    <2> QED BY <2>1, <2>2 DEF Idle
  <1>3. PICK y \in ConnRec :
          /\ conn' = [conn EXCEPT ![c] = y] /\ (y.link = "down" => losses' > 0)
          /\ losses' \in Nat /\ losses' >= losses
          /\ call' = [j \in Clients |-> call'[j]]
          /\ \A j \in Clients : Undisturbed(call[j], call'[j], c, y)
    BY <1>2
  <1>4. ASSUME NEW j \in Clients PROVE CallInv(j, call'[j], conn', losses')
    <2>1. conn[c].user /= j /\ Undisturbed(call[j], call'[j], c, y)
      BY <1>1, <1>3, NoneElse
    <2> QED BY <1>3, <2>1, OthersKeep
  <1>5. conn' \in [Conns -> ConnRec] /\ \A d \in Conns : conn'[d].link = "down" => losses' > 0
    BY <1>3 DEF IInv
  <1> QED BY <1>3, <1>4, <1>5 DEF IInv

LEMMA LastInsertIdKeeps ==
  ASSUME IInv, NEW k \in Clients, LastInsertId(k)
  PROVE  IInv'
  <1> DEFINE r == call[k]
  <1>1. r.pc = "done" /\ r.answer = "ok" /\ r.lastId = None /\ UNCHANGED <<conn, losses>>
    BY DEF LastInsertId
  <1>2. CallInv(k, r, conn, losses) /\ r \in CallRec
    BY CallFacts
  <1>3. \E id \in Ids \cup {Panic, Failure} :
          /\ call' = [call EXCEPT ![k] = [r EXCEPT !.lastId = id]]
          /\ \/ r.conn = None /\ id \in {Panic, Failure}
             \/ /\ r.conn \in Conns
                /\ \/ id = conn[r.conn].identity
                   \/ id = Failure /\ (conn[r.conn].link = "down" \/ conn[r.conn].identity = None)
    <2>1. CASE \E id \in {Panic, Failure} : r.conn = None /\ call' = [call EXCEPT ![k].lastId = id]
      BY <2>1
    <2>2. CASE /\ r.conn /= None
               /\ call' = [call EXCEPT ![k].lastId =
                     IF conn[r.conn].link = "down" \/ conn[r.conn].identity = None THEN Failure
                     ELSE conn[r.conn].identity]
      <3>1. r.conn \in Conns /\ conn[r.conn] \in ConnRec
        BY <1>2, <2>2 DEF CallRec, IInv
      <3>2. conn[r.conn].identity \in Ids \cup {None}
        BY <3>1 DEF ConnRec
      <3> QED BY <2>2, <3>1, <3>2
    <2> QED BY <2>1, <2>2 DEF LastInsertId, LastInsertIdConn
  <1>4. PICK id \in Ids \cup {Panic, Failure} :
          /\ call' = [call EXCEPT ![k] = [r EXCEPT !.lastId = id]]
          /\ \/ r.conn = None /\ id \in {Panic, Failure}
             \/ /\ r.conn \in Conns
                /\ \/ id = conn[r.conn].identity
                   \/ id = Failure /\ (conn[r.conn].link = "down" \/ conn[r.conn].identity = None)
    BY <1>3
  <1> DEFINE x == [r EXCEPT !.lastId = id]
  <1>5. /\ x \in CallRec /\ x.pc = r.pc /\ x.lastId = id
        /\ x.conn = r.conn /\ x.n = r.n /\ x.attempt = r.attempt /\ x.at = r.at
        /\ x.batch = r.batch /\ x.answer = r.answer /\ x.counted = r.counted
        /\ x.failed = r.failed /\ x.worked = r.worked /\ x.sum = r.sum
        /\ x.lost = r.lost /\ x.shared = r.shared
    BY <1>2 DEF CallRec
  <1>6. call' = [call EXCEPT ![k] = x]
    BY <1>4
  <1> HIDE DEF x
  <1>7. /\ UseInv(k, x, conn) /\ WorkedInv(x, conn) /\ CountInv(x, conn) /\ IdInv(k, x, conn)
    BY <1>1, <1>2, <1>5 DEF CallInv, UseInv, WorkedInv, CountInv, IdInv, Busy, Running
  <1>8. LastIdInv(k, x, losses)
    <2>1. CASE r.conn = None
      BY <1>4, <1>5, <2>1, NoneElse DEF LastIdInv
    <2>2. CASE r.shared
      BY <1>5, <2>2 DEF LastIdInv
    <2>3. CASE r.conn /= None /\ ~r.shared
      <3>1. Newest(k, r.n, r.batch, Len(r.batch), conn[r.conn].identity)
        BY <1>1, <1>2, <2>3 DEF CallInv, IdInv
      <3>2. CASE \A i \in 1..Len(r.batch) : r.batch[i] /= "insert"
        BY <1>5, <3>2 DEF LastIdInv
      <3>3. CASE \E i \in 1..Len(r.batch) :
                   /\ r.batch[i] = "insert" /\ conn[r.conn].identity = Row(k, r.n, i)
                   /\ \A j \in 1..Len(r.batch) : r.batch[j] = "insert" => j <= i
        <4>1. CASE id = conn[r.conn].identity
          BY <1>5, <3>3, <4>1 DEF LastIdInv
        <4>2. CASE id = Failure /\ conn[r.conn].link = "down"
          <5>1. losses > 0
            BY <1>4, <2>3, <4>2 DEF IInv
          <5> QED BY <1>5, <4>2, <5>1 DEF LastIdInv
        <4>3. conn[r.conn].identity /= None
          <5>1. r.n \in Nat /\ \A i \in 1..Len(r.batch) : i \in Nat
            BY <1>2 DEF CallRec
          <5> HIDE DEF r
          <5> QED BY <3>3, <5>1, NoneElse
        <4> QED BY <1>4, <2>3, <4>1, <4>2, <4>3
      <3> QED BY <3>1, <3>2, <3>3 DEF Newest
    <2> QED BY <2>1, <2>2, <2>3
  <1>9. ASSUME NEW j \in Clients PROVE CallInv(j, call'[j], conn', losses')
    <2>1. CallInv(j, call[j], conn, losses) /\ call'[j] = IF j = k THEN x ELSE call[j]
      BY <1>6 DEF IInv
    <2>2. CallInv(k, x, conn, losses)
      BY <1>5, <1>7, <1>8 DEF CallInv
    <2> QED BY <1>1, <2>1, <2>2
  <1> QED BY <1>1, <1>6, <1>9 DEF IInv

------------------------------------------------------------------------------
\* The invariant is inductive: it holds before the first call of DB.Exec, and
\* each step of a call, of LastInsertId and of an idle connection keeps it.
THEOREM Inductive == Spec => []IInv
  <1>1. Init => IInv
    <2> SUFFICES ASSUME Init PROVE IInv
      OBVIOUS
    <2>1. conn \in [Conns -> ConnRec] /\ \A c \in Conns : conn[c].link /= "down"
      BY DEF Init, NoConnection, ConnRec
    <2>2. NoCall \in CallRec
      BY DEF NoCall, CallRec
    <2>3. /\ NoCall.pc = "idle" /\ NoCall.conn = None /\ NoCall.answer = "none"
          /\ NoCall.lastId = None /\ NoCall.worked = {}
      BY DEF NoCall
    <2>4. \A k \in Clients : CallInv(k, NoCall, conn, losses)
      BY <2>2, <2>3 DEF CallInv, UseInv, WorkedInv, CountInv, IdInv, LastIdInv, Busy, Running
    <2>5. call = [k \in Clients |-> NoCall] /\ losses = 0
      BY DEF Init
    <2>6. \A k \in Clients : CallInv(k, call[k], conn, losses)
      BY <2>4, <2>5
    <2> QED BY <2>1, <2>5, <2>6 DEF IInv
  <1>2. IInv /\ [Next]_vars => IInv'
    <2> SUFFICES ASSUME IInv, [Next]_vars PROVE IInv'
      OBVIOUS
    <2>1. ASSUME NEW k \in Clients, Call(k) PROVE IInv'
      BY <2>1, CallKeeps
    <2>2. ASSUME NEW k \in Clients, Grab(k) PROVE IInv'
      BY <2>2, GrabKeeps
    <2>3. ASSUME NEW k \in Clients, Execute(k) PROVE IInv'
      BY <2>3, ExecuteKeeps
    <2>4. ASSUME NEW k \in Clients, RowCount(k) PROVE IInv'
      BY <2>4, RowCountKeeps
    <2>5. ASSUME NEW k \in Clients, MoreResults(k) PROVE IInv'
      BY <2>5, MoreResultsKeeps
    <2>6. ASSUME NEW k \in Clients, LastInsertId(k) PROVE IInv'
      BY <2>6, LastInsertIdKeeps
    <2>7. ASSUME NEW c \in Conns, Idle(c) PROVE IInv'
      BY <2>7, IdleKeeps
    <2>8. CASE UNCHANGED vars
      BY <2>8 DEF vars, IInv
    <2> QED BY <2>1, <2>2, <2>3, <2>4, <2>5, <2>6, <2>7, <2>8 DEF Next, Step
  <1> QED BY <1>1, <1>2, PTL DEF Spec

\* For any number of clients and connections, the work of a call is done in one
\* attempt, unless its connection was lost.
THEOREM WorkOnce == Spec => []AppliedOnce
  <1>1. IInv => AppliedOnce
    <2> SUFFICES ASSUME IInv, NEW k \in Clients, ~call[k].lost
                 PROVE  ~(Cardinality(call[k].worked) > 1)
      BY CallFacts DEF AppliedOnce, CallRec
    <2>1. call[k].worked \subseteq {call[k].attempt}
      BY CallFacts DEF CallInv, WorkedInv
    <2>2. call[k].worked = {} \/ call[k].worked = {call[k].attempt}
      BY <2>1
    <2>3. Cardinality(call[k].worked) \in {0, 1}
      BY <2>2, FS_EmptySet, FS_Singleton
    <2> QED BY <2>3
  <1> QED BY <1>1, Inductive, PTL

\* For any batches, a Result has the sum of the row counts of all statements,
\* with the exceptions named in the property.
THEOREM SumCorrect == Spec => []CountExact
  <1>1. IInv => CountExact
    BY CallFacts DEF CountExact, CallInv, CountInv
  <1> QED BY <1>1, Inductive, PTL

\* Whatever other clients do with the connection, LastInsertId returns a row of
\* its own call, with the exceptions named in the property.
THEOREM IdOwn == Spec => []LastInsertIdOwn
  <1>1. IInv => LastInsertIdOwn
    <2> SUFFICES ASSUME IInv, NEW k \in Clients,
                        LastIdInv(k, call[k], losses), call[k].lastId /= None
                 PROVE  LET r == call[k]
                            own == {i \in DOMAIN r.batch : r.batch[i] = "insert"}
                        IN \/ \E i \in own : /\ r.lastId = Row(k, r.n, i)
                                             /\ \A j \in own : j <= i
                           \/ r.shared
                           \/ own = {}
                           \/ r.lastId = Failure /\ (r.conn = None \/ losses > 0)
                           \/ r.lastId = Panic /\ r.conn = None
      BY CallFacts DEF LastInsertIdOwn, CallInv
    <2>1. DOMAIN call[k].batch = 1..Len(call[k].batch)
      BY CallFacts DEF CallRec
    <2> QED BY <2>1 DEF LastIdInv
  <1> QED BY <1>1, Inductive, PTL
==============================================================================
