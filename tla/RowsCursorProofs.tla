-------------------------- MODULE RowsCursorProofs --------------------------
(***************************************************************************)
(* Proofs about RowsCursor: for any fetch sizes and results of any length  *)
(* Next and ReadBatch hand out each row once, in order and from its own    *)
(* slot, to the end, and stay within the buffers.                          *)
(***************************************************************************)
EXTENDS RowsCursor, SequenceTheorems, TLAPS

Row == [bound : 1 .. MaxRows, lob : 1 .. MaxRows]

\* While a result set is read the CLI is in one of the results, no further than
\* its end, and has been told the length of the buffers.
SetInv ==
  /\ Len(results) <= MaxSets
  /\ ~resetFailed => cli.size = fetchSize
  /\ state = "open" =>
       /\ cli.set \in 1 .. Len(results)
       /\ cli.pos <= Current.rows
       /\ ~resetFailed => cli.size = Len(buffer) /\ (Current.lob => cli.size = 1)

\* The first slots hold the rows fetched last.
SlotsHold(buf, n, pos) ==
  /\ n <= pos
  /\ \A i \in 1 .. n : i <= Len(buf) => buf[i] = pos - n + i

BufferInv ==
  state = "open" => /\ SlotsHold(buffer, rowsFetched, cli.pos)
                    /\ ~resetFailed => rowsFetched <= Len(buffer)

\* The rows returned so far, none after the one marked.
ReturnedUpTo(rows, mark) ==
  /\ rows \in Seq(Row)
  /\ \A i, j \in 1 .. Len(rows) : i < j => rows[i].bound < rows[j].bound
  /\ \A i \in 1 .. Len(rows) : rows[i].bound <= mark

Mark == IF rowIdx < rowsFetched THEN cli.pos - rowsFetched + rowIdx ELSE cli.pos

OrderInv ==
  /\ \E mark \in Nat : ReturnedUpTo(returned, mark)
  /\ state = "open" => ReturnedUpTo(returned, Mark)
  /\ state = "closed" => returned = <<>>
  /\ ~resetFailed => \A i \in 1 .. Len(returned) : returned[i].bound = returned[i].lob
  /\ state = "panicked" => resetFailed

\* As long as Next has not missed rows, those up to the mark are accounted for,
\* and at the end these are all.
Got(rows) == {rows[i].bound : i \in 1 .. Len(rows)}
CompleteInv ==
  state = "open" /\ ~cut /\ ~resetFailed =>
    /\ Got(returned) \cup forgone = 1 .. Mark
    /\ ended => Mark = Current.rows

\* The inductive invariant.
IInv == TypeOK /\ SetInv /\ BufferInv /\ OrderInv /\ CompleteInv

LEMMA InitInv == Init => IInv
  <1> SUFFICES ASSUME Init PROVE IInv
    OBVIOUS
  <1> USE CursorAssumption
  <1>1. TypeOK
    <2>1. /\ MaxRows \in Nat /\ 1 \in 1 .. MaxSets /\ fetchSize \in FetchSizes
          /\ cli = [set |-> 1, pos |-> 0, size |-> fetchSize, bound |-> 0]
      BY DEF Init
    <2>2. cli \in [set : 1 .. MaxSets, pos : 0 .. MaxRows, size : FetchSizes \cup {1}, bound : 0 .. 1]
      BY <2>1
    <2>3. /\ results \in Seq(ResultSet) /\ buffer \in Seq(0 .. MaxRows)
          /\ DOMAIN returned = {} /\ forgone = {}
      BY DEF Init
    <2>4. /\ state = "closed" /\ rowsFetched = 0 /\ rowIdx = 0
          /\ ended \in BOOLEAN /\ cut \in BOOLEAN /\ resetFailed \in BOOLEAN
      BY DEF Init
    <2> QED BY <2>1, <2>2, <2>3, <2>4 DEF TypeOK
  <1>2. SetInv /\ BufferInv
    <2>1. Len(results) = 0
      BY DEF Init
    <2> QED BY <2>1 DEF Init, SetInv, BufferInv
  <1>3. ReturnedUpTo(<<>>, 0)
    BY DEF ReturnedUpTo
  <1>4. OrderInv
    BY <1>3 DEF Init, OrderInv
  <1>5. CompleteInv
    BY DEF Init, CompleteInv
  <1> QED BY <1>1, <1>2, <1>4, <1>5 DEF IInv

------------------------------------------------------------------------------
\* What is known of the cursor while it is open.
LEMMA OpenFacts ==
  ASSUME IInv, state = "open"
  PROVE  /\ Current \in ResultSet /\ Current.rows \in 0 .. MaxRows /\ Current.lob \in BOOLEAN
         /\ cli.pos \in Nat /\ cli.pos <= Current.rows
         /\ cli.size \in Nat /\ cli.size >= 1
         /\ rowsFetched \in Nat /\ rowsFetched <= cli.pos
         /\ rowIdx \in Nat /\ buffer \in Seq(0 .. MaxRows)
         /\ MaxRows \in Nat /\ MaxSets \in Nat
  <1>1. /\ results \in Seq(ResultSet) /\ buffer \in Seq(0 .. MaxRows)
        /\ cli.pos \in Nat /\ cli.size \in FetchSizes \cup {1}
        /\ rowsFetched \in Nat /\ rowIdx \in Nat
    BY CursorAssumption DEF IInv, TypeOK
  <1>2. /\ cli.set \in 1 .. Len(results) /\ cli.pos <= Current.rows
        /\ rowsFetched <= cli.pos
    BY DEF IInv, SetInv, BufferInv, SlotsHold
  <1>3. Current \in ResultSet
    BY <1>1, <1>2 DEF Current
  <1>4. Current.rows \in 0 .. MaxRows /\ Current.lob \in BOOLEAN
    BY <1>3 DEF ResultSet
  <1>5. cli.size \in Nat /\ cli.size >= 1
    <2>1. \A n \in FetchSizes : n \in Nat /\ n /= 0
      BY CursorAssumption
    <2>2. cli.size \in Nat /\ cli.size /= 0
      BY <1>1, <2>1
    <2> QED BY <2>2
  <1> QED BY <1>1, <1>2, <1>3, <1>4, <1>5, CursorAssumption

\* What a fetch may do.
LEMMA FetchFacts ==
  ASSUME IInv, state = "open", NEW f \in SQLFetch
  PROVE  /\ f.n \in Nat /\ f.pos \in Nat
         /\ cli.pos <= f.pos /\ f.pos <= Current.rows
         /\ \/ f.ret = "error" /\ f.pos = cli.pos /\ f.n \in {0, rowsFetched}
            \/ f.ret = "ok" /\ f.pos = cli.pos + f.n /\ f.n \in 1 .. cli.size
            \/ f.ret = "no_data" /\ f.pos = cli.pos + f.n /\ f.n \in 0 .. cli.size
                 /\ f.pos = Current.rows
  <1>1. /\ Current.rows \in Nat /\ cli.pos \in Nat /\ cli.pos <= Current.rows
        /\ cli.size \in Nat /\ cli.size >= 1 /\ rowsFetched \in Nat
    BY OpenFacts
  <1> DEFINE left == Current.rows - cli.pos
             k == IF left < cli.size THEN left ELSE cli.size
  <1>2. left \in Nat /\ k \in 0 .. cli.size /\ k <= left /\ (k = 0 => left = 0)
        /\ (k < cli.size => k = left)
    BY <1>1
  <1>3. \/ \E n \in {0, rowsFetched} : f = [ret |-> "error", n |-> n, pos |-> cli.pos + 0]
        \/ k = 0 /\ f = [ret |-> "no_data", n |-> 0, pos |-> cli.pos + 0]
        \/ k /= 0 /\ f = [ret |-> "ok", n |-> k, pos |-> cli.pos + k]
        \/ k \in 1 .. cli.size - 1 /\ f = [ret |-> "no_data", n |-> k, pos |-> cli.pos + k]
    BY DEF SQLFetch
  <1> HIDE DEF k
  <1>4. CASE \E n \in {0, rowsFetched} : f = [ret |-> "error", n |-> n, pos |-> cli.pos + 0]
    BY <1>1, <1>4
  <1>5. CASE k = 0 /\ f = [ret |-> "no_data", n |-> 0, pos |-> cli.pos + 0]
    BY <1>1, <1>2, <1>5
  <1>6. CASE k /= 0 /\ f = [ret |-> "ok", n |-> k, pos |-> cli.pos + k]
    BY <1>1, <1>2, <1>6
  <1>7. CASE k \in 1 .. cli.size - 1 /\ f = [ret |-> "no_data", n |-> k, pos |-> cli.pos + k]
    BY <1>1, <1>2, <1>7
  <1> QED BY <1>3, <1>4, <1>5, <1>6, <1>7

LEMMA IsSequence ==
  ASSUME NEW S, NEW n \in Nat, NEW g \in [1 .. n -> S]
  PROVE  g \in Seq(S) /\ Len(g) = n
  OBVIOUS

\* A fetch leaves its rows in the first slots.
LEMMA FilledFacts ==
  ASSUME IInv, state = "open", NEW f \in SQLFetch
  PROVE  /\ Filled(f) \in Seq(0 .. MaxRows) /\ Len(Filled(f)) = Len(buffer)
         /\ SlotsHold(Filled(f), f.n, f.pos)
         /\ ~resetFailed => f.n <= Len(buffer)
  <1>1. /\ f.n \in Nat /\ f.pos \in Nat /\ cli.pos <= f.pos /\ f.pos <= Current.rows
        /\ f.ret = "error" => f.pos = cli.pos /\ f.n \in {0, rowsFetched}
        /\ f.ret /= "error" => f.pos = cli.pos + f.n /\ f.n <= cli.size
    BY FetchFacts, OpenFacts
  <1>2. /\ Current.rows \in 0 .. MaxRows /\ buffer \in Seq(0 .. MaxRows) /\ cli.pos \in Nat
        /\ rowsFetched \in Nat /\ MaxRows \in Nat /\ cli.size \in Nat
    BY OpenFacts
  <1>3. SlotsHold(buffer, rowsFetched, cli.pos)
        /\ (~resetFailed => rowsFetched <= Len(buffer) /\ cli.size = Len(buffer))
    BY DEF IInv, BufferInv, SetInv
  <1> DEFINE buf == Filled(f)
  <1>4. DOMAIN buffer = 1 .. Len(buffer) /\ Len(buffer) \in Nat
    BY <1>2
  <1>5. \A i \in 1 .. Len(buffer) :
          buf[i] = IF i <= f.pos - cli.pos THEN cli.pos + i ELSE buffer[i]
    BY <1>4 DEF Filled
  <1>6. \A i \in 1 .. Len(buffer) : buf[i] \in 0 .. MaxRows
    <2> SUFFICES ASSUME NEW i \in 1 .. Len(buffer) PROVE buf[i] \in 0 .. MaxRows
      OBVIOUS
    <2>1. buffer[i] \in 0 .. MaxRows
      BY <1>2
    <2> QED BY <1>1, <1>2, <1>4, <1>5, <2>1
  <1>7. buf \in [1 .. Len(buffer) -> 0 .. MaxRows]
    BY <1>4, <1>6 DEF Filled
  <1>8. buf \in Seq(0 .. MaxRows) /\ Len(buf) = Len(buffer)
    <2> HIDE DEF buf
    <2> QED BY <1>4, <1>7, IsSequence
  <1>9. SlotsHold(buf, f.n, f.pos)
    <2>1. CASE f.ret = "error"
      <3>1. \A i \in 1 .. Len(buffer) : buf[i] = buffer[i]
        BY <1>1, <1>2, <1>4, <1>5, <2>1
      <3>2. CASE f.n = 0
        BY <1>1, <3>2 DEF SlotsHold
      <3>3. CASE f.n = rowsFetched
        BY <1>1, <1>2, <1>3, <1>4, <1>8, <2>1, <3>1, <3>3 DEF SlotsHold
      <3> QED BY <1>1, <2>1, <3>2, <3>3
    <2>2. CASE f.ret /= "error"
      <3>1. f.n <= f.pos /\ f.pos - f.n = cli.pos /\ f.pos - cli.pos = f.n
        BY <1>1, <1>2, <2>2
      <3>2. ASSUME NEW i \in 1 .. f.n, i <= Len(buf) PROVE buf[i] = f.pos - f.n + i
        <4>1. i \in 1 .. Len(buffer)
          BY <1>1, <1>4, <1>8, <3>2
        <4> QED BY <1>1, <1>2, <1>5, <3>1, <4>1
      <3> HIDE DEF buf
      <3> QED BY <3>1, <3>2 DEF SlotsHold
    <2> QED BY <2>1, <2>2
  <1>10. ~resetFailed => f.n <= Len(buffer)
    BY <1>1, <1>2, <1>3, <1>4
  <1> QED BY <1>8, <1>9, <1>10

------------------------------------------------------------------------------
LEMMA RowType ==
  /\ \A r \in Row : r.bound \in Int /\ r.lob \in Int
  /\ \A s \in Seq(Row) : \A i \in 1 .. Len(s) : s[i] \in Row
  <1>1. \A r \in Row : r.bound \in Int /\ r.lob \in Int
    BY DEF Row
  <1>2. \A s \in Seq(Row) : \A i \in 1 .. Len(s) : s[i] \in Row
    OBVIOUS
  <1> QED BY <1>1, <1>2

\* A row after the others is added at the end.
LEMMA AppendRow ==
  ASSUME NEW rows, NEW mark \in Nat, ReturnedUpTo(rows, mark),
         NEW row \in Row, mark < row.bound
  PROVE  /\ ReturnedUpTo(Append(rows, row), row.bound)
         /\ Len(Append(rows, row)) = Len(rows) + 1
         /\ \A i \in 1 .. Len(rows) : Append(rows, row)[i] = rows[i]
         /\ Append(rows, row)[Len(rows) + 1] = row
        /\ Got(Append(rows, row)) = Got(rows) \cup {row.bound}
  <1>1. rows \in Seq(Row) /\ Len(rows) \in Nat
    BY DEF ReturnedUpTo
  <1> DEFINE more == Append(rows, row)
  <1>2. /\ more \in Seq(Row) /\ Len(more) = Len(rows) + 1
        /\ \A i \in 1 .. Len(rows) : more[i] = rows[i]
        /\ more[Len(rows) + 1] = row
    BY <1>1
  <1> HIDE DEF more
  <1>3. \A i \in 1 .. Len(rows) : rows[i] \in Row /\ rows[i].bound \in Int
    BY <1>1, RowType
  <1>4. row.bound \in Int
    BY DEF Row
  <1>5. \A i, j \in 1 .. Len(more) : i < j => more[i].bound < more[j].bound
    <2> SUFFICES ASSUME NEW i \in 1 .. Len(more), NEW j \in 1 .. Len(more), i < j
                 PROVE  more[i].bound < more[j].bound
      OBVIOUS
    <2>1. i \in 1 .. Len(rows) /\ more[i] = rows[i] /\ rows[i].bound <= mark
      BY <1>1, <1>2 DEF ReturnedUpTo
    <2>2. CASE j = Len(rows) + 1
      BY <1>2, <1>3, <1>4, <2>1, <2>2
    <2>3. CASE j \in 1 .. Len(rows)
      BY <1>2, <2>1, <2>3 DEF ReturnedUpTo
    <2> QED BY <1>1, <1>2, <2>2, <2>3
  <1>6. \A i \in 1 .. Len(more) : more[i].bound <= row.bound
    <2> SUFFICES ASSUME NEW i \in 1 .. Len(more) PROVE more[i].bound <= row.bound
      OBVIOUS
    <2>1. CASE i \in 1 .. Len(rows)
      BY <1>2, <1>3, <1>4, <2>1 DEF ReturnedUpTo
    <2>2. CASE i = Len(rows) + 1
      BY <1>2, <1>4, <2>2
    <2> QED BY <1>1, <1>2, <2>1, <2>2
  <1>7. ReturnedUpTo(more, row.bound)
    BY <1>2, <1>5, <1>6 DEF ReturnedUpTo
  <1>8. Got(more) = Got(rows) \cup {row.bound}
    <2>1. Got(more) \subseteq Got(rows) \cup {row.bound}
      <3> SUFFICES ASSUME NEW i \in 1 .. Len(more)
                   PROVE  more[i].bound \in Got(rows) \cup {row.bound}
        BY DEF Got
      <3>1. i \in 1 .. Len(rows) \/ i = Len(rows) + 1
        BY <1>1, <1>2
      <3> QED BY <1>2, <3>1 DEF Got
    <2>2. Got(rows) \subseteq Got(more)
      <3> SUFFICES ASSUME NEW i \in 1 .. Len(rows) PROVE rows[i].bound \in Got(more)
        BY DEF Got
      <3>1. i \in 1 .. Len(more)
        BY <1>1, <1>2
      <3> QED BY <1>2, <3>1 DEF Got
    <2>3. row.bound \in Got(more)
      <3>1. PICK i \in 1 .. Len(more) : i = Len(rows) + 1
        BY <1>1, <1>2
      <3> QED BY <1>2, <3>1 DEF Got
    <2> QED BY <2>1, <2>2, <2>3
  <1> QED BY <1>2, <1>7, <1>8 DEF more

\* Rows after the others, in order, are added at the end.
LEMMA AppendRows ==
  ASSUME NEW rows, NEW mark \in Nat, ReturnedUpTo(rows, mark),
         NEW more, NEW top \in Nat, ReturnedUpTo(more, top), mark <= top,
         \A i \in 1 .. Len(more) : mark < more[i].bound
  PROVE  /\ ReturnedUpTo(rows \o more, top)
         /\ Len(rows \o more) = Len(rows) + Len(more)
         /\ \A i \in 1 .. Len(rows) : (rows \o more)[i] = rows[i]
         /\ \A i \in 1 .. Len(more) : (rows \o more)[Len(rows) + i] = more[i]
        /\ Got(rows \o more) = Got(rows) \cup Got(more)
  <1>1. /\ rows \in Seq(Row) /\ Len(rows) \in Nat
        /\ more \in Seq(Row) /\ Len(more) \in Nat
    BY DEF ReturnedUpTo
  <1> DEFINE all == rows \o more
  <1>2. /\ all \in Seq(Row) /\ Len(all) = Len(rows) + Len(more)
        /\ \A i \in 1 .. Len(rows) : all[i] = rows[i]
        /\ \A i \in 1 .. Len(more) : all[Len(rows) + i] = more[i]
    BY <1>1
  <1> HIDE DEF all
  <1>3. /\ \A i \in 1 .. Len(rows) : rows[i].bound \in Int /\ rows[i].bound <= mark
        /\ \A i \in 1 .. Len(more) : more[i].bound \in Int /\ more[i].bound <= top
    <2>1. /\ \A i \in 1 .. Len(rows) : rows[i] \in Row
          /\ \A i \in 1 .. Len(more) : more[i] \in Row
      BY <1>1, RowType
    <2> QED BY <2>1, RowType DEF ReturnedUpTo
  <1>4. \A i \in 1 .. Len(all) :
          \/ i \in 1 .. Len(rows) /\ all[i] = rows[i]
          \/ i - Len(rows) \in 1 .. Len(more) /\ all[i] = more[i - Len(rows)]
    <2> SUFFICES ASSUME NEW i \in 1 .. Len(all), i \notin 1 .. Len(rows)
                 PROVE  i - Len(rows) \in 1 .. Len(more) /\ all[i] = more[i - Len(rows)]
      BY <1>2
    <2>1. PICK k \in Int : k = i - Len(rows)
      BY <1>1
    <2>2. k \in 1 .. Len(more) /\ i = Len(rows) + k
      BY <1>1, <1>2, <2>1
    <2> QED BY <1>2, <2>1, <2>2
  <1>5. \A i, j \in 1 .. Len(all) : i < j => all[i].bound < all[j].bound
    <2> SUFFICES ASSUME NEW i \in 1 .. Len(all), NEW j \in 1 .. Len(all), i < j
                 PROVE  all[i].bound < all[j].bound
      OBVIOUS
    <2>1. CASE j \in 1 .. Len(rows)
      <3>1. i \in 1 .. Len(rows)
        BY <2>1
      <3> QED BY <1>2, <2>1, <3>1 DEF ReturnedUpTo
    <2>2. CASE j \notin 1 .. Len(rows)
      <3>1. PICK k \in 1 .. Len(more) : k = j - Len(rows) /\ all[j] = more[k]
        BY <1>4, <2>2
      <3>2. CASE i \in 1 .. Len(rows)
        <4>1. all[i] = rows[i] /\ rows[i].bound \in Int /\ rows[i].bound <= mark
          BY <1>2, <1>3, <3>2
        <4>2. all[j] = more[k] /\ more[k].bound \in Int /\ mark < more[k].bound
          BY <1>3, <3>1
        <4> QED BY <4>1, <4>2
      <3>3. CASE i \notin 1 .. Len(rows)
        <4>1. PICK m \in 1 .. Len(more) : m = i - Len(rows) /\ all[i] = more[m]
          BY <1>4, <3>3
        <4>2. m < k
          BY <1>1, <3>1, <4>1
        <4> QED BY <3>1, <4>1, <4>2 DEF ReturnedUpTo
      <3> QED BY <3>2, <3>3
    <2> QED BY <2>1, <2>2
  <1>6. \A i \in 1 .. Len(all) : all[i].bound <= top
    BY <1>3, <1>4
  <1>7. ReturnedUpTo(all, top)
    BY <1>2, <1>5, <1>6 DEF ReturnedUpTo
  <1>8. Got(all) = Got(rows) \cup Got(more)
    <2>1. Got(all) \subseteq Got(rows) \cup Got(more)
      BY <1>4 DEF Got
    <2>2. Got(rows) \subseteq Got(all)
      <3> SUFFICES ASSUME NEW i \in 1 .. Len(rows) PROVE rows[i].bound \in Got(all)
        BY DEF Got
      <3>1. i \in 1 .. Len(all)
        BY <1>1, <1>2
      <3> QED BY <1>2, <3>1 DEF Got
    <2>3. Got(more) \subseteq Got(all)
      <3> SUFFICES ASSUME NEW i \in 1 .. Len(more) PROVE more[i].bound \in Got(all)
        BY DEF Got
      <3>1. PICK j \in 1 .. Len(all) : j = Len(rows) + i
        BY <1>1, <1>2
      <3> QED BY <1>2, <3>1 DEF Got
    <2> QED BY <2>1, <2>2, <2>3
  <1> QED BY <1>2, <1>7, <1>8 DEF all

LEMMA LaterMark ==
  ASSUME NEW rows, NEW a \in Int, NEW b \in Int, a <= b, ReturnedUpTo(rows, a)
  PROVE  ReturnedUpTo(rows, b)
  <1>1. \A i \in 1 .. Len(rows) : rows[i].bound \in Int
    BY RowType DEF ReturnedUpTo
  <1> QED BY <1>1 DEF ReturnedUpTo

LEMMA MarkType ==
  ASSUME IInv, state = "open"
  PROVE  Mark \in Nat /\ Mark <= cli.pos
  BY OpenFacts DEF Mark

\* The row at rowIdx is returned, or not.
LEMMA ReturnRowKeeps ==
  ASSUME IInv, state = "open",
         NEW buf \in Seq(0 .. MaxRows), NEW idx \in Nat, NEW pos \in Nat, NEW n \in Nat,
         idx < n, pos <= Current.rows, SlotsHold(buf, n, pos),
         ~resetFailed => n <= Len(buf) /\ (Current.lob => n = 1),
         ReturnedUpTo(returned, pos - n + idx),
         ReturnRow(buf, idx, pos, n)
  PROVE  /\ state' \in {"open", "panicked"} /\ (state' = "panicked" => resetFailed)
         /\ rowIdx' \in {idx, idx + 1}
         /\ ReturnedUpTo(returned', pos - n + rowIdx')
         /\ ~resetFailed => \A i \in 1 .. Len(returned') : returned'[i].bound = returned'[i].lob
         /\ Got(returned') = Got(returned) \cup (pos - n + idx + 1 .. pos - n + rowIdx')
  <1>1. /\ n <= pos /\ Len(buf) \in Nat
        /\ \A i \in 1 .. n : i <= Len(buf) => buf[i] = pos - n + i
        /\ Current.rows \in 0 .. MaxRows /\ MaxRows \in Nat /\ Current.lob \in BOOLEAN
    BY OpenFacts DEF SlotsHold
  <1>2. PICK mark \in Nat : mark = pos - n + idx
    BY <1>1
  <1>3. ~resetFailed => \A i \in 1 .. Len(returned) : returned[i].bound = returned[i].lob
    BY DEF IInv, OrderInv
  <1>4. CASE returned' = returned /\ rowIdx' = idx
    <2>1. pos - n + rowIdx' = mark /\ (pos - n + idx + 1 .. pos - n + rowIdx') = {}
      BY <1>1, <1>2, <1>4
    <2>2. state' \in {"open", "panicked"} /\ (state' = "panicked" => resetFailed)
      BY <1>1 DEF ReturnRow
    <2> QED BY <1>2, <1>3, <1>4, <2>1, <2>2
  <1>5. CASE /\ idx < Len(buf) /\ returned' = Append(returned, RowAt(buf, idx + 1, pos, n))
             /\ rowIdx' = idx + 1 /\ state' = state
    <2> DEFINE row == RowAt(buf, idx + 1, pos, n)
    <2>1. buf[idx + 1] = mark + 1
      <3>1. PICK i \in 1 .. n : i = idx + 1
        OBVIOUS
      <3> QED BY <1>1, <1>2, <1>5, <3>1
    <2>2. /\ row.bound = mark + 1
          /\ row.lob = IF Current.lob THEN pos - n + 1 ELSE mark + 1
          /\ row = [bound |-> row.bound, lob |-> row.lob]
      BY <2>1 DEF RowAt
    <2>3. row.bound \in 1 .. MaxRows /\ row.lob \in 1 .. MaxRows
      <3> HIDE DEF row
      <3>1. mark + 1 \in 1 .. MaxRows /\ pos - n + 1 \in 1 .. MaxRows
        BY <1>1, <1>2
      <3> QED BY <2>2, <3>1
    <2>4. row \in Row
      BY <2>2, <2>3 DEF Row
    <2>5. ~resetFailed => row.bound = row.lob
      BY <1>1, <1>2, <2>2
    <2> HIDE DEF row
    <2>6. returned' = Append(returned, row) /\ mark < row.bound
      BY <1>2, <1>5, <2>2 DEF row
    <2>7. ReturnedUpTo(returned, mark)
      BY <1>2
    <2>8. /\ ReturnedUpTo(returned', row.bound)
          /\ Len(returned') = Len(returned) + 1
          /\ \A i \in 1 .. Len(returned) : returned'[i] = returned[i]
          /\ returned'[Len(returned) + 1] = row
          /\ Got(returned') = Got(returned) \cup {row.bound}
      BY <2>4, <2>6, <2>7, AppendRow
    <2>9. row.bound = pos - n + rowIdx' /\ {row.bound} = (pos - n + idx + 1 .. pos - n + rowIdx')
      <3>1. pos - n + rowIdx' = mark + 1 /\ pos - n + idx + 1 = mark + 1
        BY <1>1, <1>2, <1>5
      <3>2. {mark + 1} = mark + 1 .. mark + 1
        BY <1>2
      <3> QED BY <2>2, <3>1, <3>2
    <2>10. ~resetFailed => \A i \in 1 .. Len(returned') : returned'[i].bound = returned'[i].lob
      <3> SUFFICES ASSUME ~resetFailed, NEW i \in 1 .. Len(returned')
                   PROVE  returned'[i].bound = returned'[i].lob
        OBVIOUS
      <3>1. Len(returned) \in Nat
        BY <2>7 DEF ReturnedUpTo
      <3>2. CASE i \in 1 .. Len(returned)
        BY <1>3, <2>8, <3>2
      <3>3. CASE i = Len(returned) + 1
        BY <2>5, <2>8, <3>3
      <3> QED BY <2>8, <3>1, <3>2, <3>3
    <2> QED BY <1>5, <2>8, <2>9, <2>10
  <1> QED BY <1>4, <1>5 DEF ReturnRow

LEMMA ReturnedType ==
  ASSUME NEW rows, NEW mark, ReturnedUpTo(rows, mark)
  PROVE  \A i \in DOMAIN rows : rows[i] \in [bound : 1 .. MaxRows, lob : 1 .. MaxRows]
  <1>1. \A i \in 1 .. Len(rows) : rows[i] \in Row
    BY RowType DEF ReturnedUpTo
  <1>2. DOMAIN rows = 1 .. Len(rows)
    BY DEF ReturnedUpTo
  <1> QED BY <1>1, <1>2 DEF Row

LEMMA Interval == \A a, b \in Nat : a <= b => (1 .. a) \cup (a + 1 .. b) = 1 .. b
  OBVIOUS

LEMMA NextRowStep == IInv /\ NextRow => IInv'
  <1> SUFFICES ASSUME IInv, NextRow PROVE IInv'
    OBVIOUS
  <1>1. /\ state = "open" /\ ~ended /\ rowIdx < rowsFetched
        /\ ReturnRow(buffer, rowIdx, cli.pos, rowsFetched)
        /\ UNCHANGED <<results, cli, fetchSize, rowsFetched, buffer, forgone, ended,
                       cut, resetFailed>>
    BY DEF NextRow
  <1>2. /\ Current.lob \in BOOLEAN /\ cli.pos \in Nat /\ cli.pos <= Current.rows
        /\ Current.rows \in 0 .. MaxRows /\ MaxRows \in Nat
        /\ rowsFetched \in Nat /\ rowsFetched <= cli.pos
        /\ rowIdx \in Nat /\ buffer \in Seq(0 .. MaxRows)
    BY <1>1, OpenFacts
  <1>3. /\ SlotsHold(buffer, rowsFetched, cli.pos)
        /\ ~resetFailed => rowsFetched <= Len(buffer) /\ (Current.lob => rowsFetched = 1)
    BY <1>1, <1>2 DEF IInv, BufferInv, SetInv
  <1>4. Mark = cli.pos - rowsFetched + rowIdx
    BY <1>1 DEF Mark
  <1>5. ReturnedUpTo(returned, cli.pos - rowsFetched + rowIdx)
    BY <1>1, <1>4 DEF IInv, OrderInv
  <1>6. PICK buf \in Seq(0 .. MaxRows), idx \in Nat, pos \in Nat, n \in Nat :
          buf = buffer /\ idx = rowIdx /\ pos = cli.pos /\ n = rowsFetched
    BY <1>2
  <1>7. /\ state' \in {"open", "panicked"} /\ (state' = "panicked" => resetFailed)
        /\ rowIdx' \in {idx, idx + 1}
        /\ ReturnedUpTo(returned', pos - n + rowIdx')
        /\ ~resetFailed => \A i \in 1 .. Len(returned') : returned'[i].bound = returned'[i].lob
        /\ Got(returned') = Got(returned) \cup (pos - n + idx + 1 .. pos - n + rowIdx')
    <2>1. /\ idx < n /\ pos <= Current.rows /\ SlotsHold(buf, n, pos)
          /\ ~resetFailed => n <= Len(buf) /\ (Current.lob => n = 1)
          /\ ReturnedUpTo(returned, pos - n + idx)
          /\ ReturnRow(buf, idx, pos, n)
      BY <1>1, <1>2, <1>3, <1>5, <1>6
    <2> QED BY <1>1, <2>1, ReturnRowKeeps
  <1>8. rowIdx' \in Nat /\ rowIdx' <= n
    BY <1>1, <1>6, <1>7
  <1>9. Mark' = pos - n + rowIdx' /\ Mark' \in Nat /\ Current' = Current
    BY <1>1, <1>2, <1>6, <1>8 DEF Mark, Current
  <1>10. TypeOK'
    <2>1. \A i \in DOMAIN returned' : returned'[i] \in [bound : 1 .. MaxRows, lob : 1 .. MaxRows]
      BY <1>7, ReturnedType
    <2>2. rowIdx' \in 0 .. MaxRows
      BY <1>2, <1>6, <1>8
    <2> QED BY <1>1, <1>7, <2>1, <2>2 DEF IInv, TypeOK
  <1>11. SetInv' /\ BufferInv'
    BY <1>1, <1>9 DEF IInv, SetInv, BufferInv, SlotsHold
  <1>12. OrderInv'
    BY <1>1, <1>7, <1>9 DEF OrderInv
  <1>13. CompleteInv'
    <2> SUFFICES ASSUME state' = "open", ~cut, ~resetFailed
                 PROVE  Got(returned') \cup forgone = 1 .. Mark'
      BY <1>1 DEF CompleteInv
    <2>1. Got(returned) \cup forgone = 1 .. pos - n + idx
      BY <1>1, <1>4, <1>6 DEF IInv, CompleteInv
    <2>2. (1 .. pos - n + idx) \cup (pos - n + idx + 1 .. pos - n + rowIdx') = 1 .. pos - n + rowIdx'
      <3>1. /\ pos - n + idx \in Nat /\ pos - n + rowIdx' \in Nat
            /\ pos - n + idx <= pos - n + rowIdx'
        <4>1. n <= pos
          BY <1>2, <1>6, Zenon
        <4>2. PICK k \in {idx, idx + 1} : k = rowIdx'
          BY <1>7, Zenon
        <4>3. pos - n + idx \in Nat /\ pos - n + k \in Nat /\ pos - n + idx <= pos - n + k
          BY <4>1
        <4> QED BY <4>2, <4>3, Zenon
      <3> QED BY <3>1, Interval
    <2> QED BY <1>7, <1>9, <2>1, <2>2
  <1> QED BY <1>10, <1>11, <1>12, <1>13 DEF IInv

------------------------------------------------------------------------------
\* What SQLFetch leaves, whoever called it.
Fetched(f) ==
  /\ rowsFetched' = f.n
  /\ cli' = [cli EXCEPT !.pos = f.pos]
  /\ buffer' = Filled(f)
  /\ UNCHANGED <<results, fetchSize, resetFailed>>
  /\ state' \in {"open", "panicked"}

LEMMA FetchedKeeps ==
  ASSUME IInv, state = "open", NEW f \in SQLFetch, Fetched(f)
  PROVE  /\ SetInv' /\ BufferInv' /\ Current' = Current
         /\ cli'.pos = f.pos
         /\ results' \in Seq(ResultSet) /\ buffer' \in Seq(0 .. MaxRows)
         /\ cli' \in [set : 1 .. MaxSets, pos : 0 .. MaxRows, size : FetchSizes \cup {1},
                      bound : 0 .. 1]
         /\ fetchSize' \in FetchSizes \cup {1} /\ rowsFetched' \in 0 .. MaxRows
         /\ resetFailed' \in BOOLEAN
  <1>1. /\ f.n \in Nat /\ f.pos \in Nat /\ cli.pos <= f.pos /\ f.pos <= Current.rows
    BY FetchFacts
  <1>2. /\ Current.rows \in 0 .. MaxRows /\ MaxRows \in Nat
    BY OpenFacts
  <1>3. /\ Filled(f) \in Seq(0 .. MaxRows) /\ Len(Filled(f)) = Len(buffer)
        /\ SlotsHold(Filled(f), f.n, f.pos) /\ (~resetFailed => f.n <= Len(buffer))
    BY FilledFacts
  <1>4. /\ rowsFetched' = f.n /\ buffer' = Filled(f) /\ results' = results
        /\ fetchSize' = fetchSize /\ resetFailed' = resetFailed
        /\ cli' = [cli EXCEPT !.pos = f.pos] /\ state' \in {"open", "panicked"}
    BY DEF Fetched
  <1>5. cli \in [set : 1 .. MaxSets, pos : 0 .. MaxRows, size : FetchSizes \cup {1}, bound : 0 .. 1]
    BY DEF IInv, TypeOK
  <1>6. /\ cli'.pos = f.pos /\ cli'.set = cli.set /\ cli'.size = cli.size
        /\ cli' \in [set : 1 .. MaxSets, pos : 0 .. MaxRows, size : FetchSizes \cup {1},
                     bound : 0 .. 1]
    BY <1>1, <1>2, <1>4, <1>5
  <1>7. Current' = Current
    BY <1>4, <1>6 DEF Current
  <1>8. SetInv'
    <2>1. /\ Len(results) <= MaxSets /\ cli.set \in 1 .. Len(results)
          /\ ~resetFailed => /\ cli.size = fetchSize /\ cli.size = Len(buffer)
                             /\ Current.lob => cli.size = 1
      BY DEF IInv, SetInv
    <2> QED BY <1>1, <1>3, <1>4, <1>6, <1>7, <2>1 DEF SetInv
  <1>9. BufferInv'
    BY <1>3, <1>4, <1>6 DEF BufferInv
  <1>10. f.n \in 0 .. MaxRows
    <2>1. f.n <= f.pos
      BY <1>3 DEF SlotsHold
    <2> QED BY <1>1, <1>2, <2>1
  <1> QED BY <1>3, <1>4, <1>6, <1>7, <1>8, <1>9, <1>10 DEF IInv, TypeOK

\* Where the mark is then, if rowIdx stays, and if there were no unread rows.
LEMMA FetchedMark ==
  ASSUME IInv, state = "open", NEW f \in SQLFetch, Fetched(f), rowIdx' = rowIdx
  PROVE  /\ Mark' \in Nat /\ Mark <= Mark'
         /\ f.n = 0 => Mark' = cli.pos
         /\ f.ret = "error" /\ f.n /= 0 => Mark' = Mark
         /\ f.ret /= "error" => Mark' = cli.pos + IF rowIdx < f.n THEN rowIdx ELSE f.n
  <1>1. /\ f.n \in Nat /\ f.pos \in Nat /\ cli.pos <= f.pos
        /\ \/ f.ret = "error" /\ f.pos = cli.pos /\ f.n \in {0, rowsFetched}
           \/ f.ret = "ok" /\ f.pos = cli.pos + f.n /\ f.n \in 1 .. cli.size
           \/ f.ret = "no_data" /\ f.pos = cli.pos + f.n /\ f.n \in 0 .. cli.size
    BY FetchFacts
  <1>2. /\ cli.pos \in Nat /\ rowsFetched \in Nat /\ rowsFetched <= cli.pos /\ rowIdx \in Nat
    BY OpenFacts
  <1>3. cli'.pos = f.pos /\ rowsFetched' = f.n
    BY FetchedKeeps DEF Fetched
  <1>4. Mark' = IF rowIdx < f.n THEN f.pos - f.n + rowIdx ELSE f.pos
    BY <1>3 DEF Mark
  <1>5. Mark = IF rowIdx < rowsFetched THEN cli.pos - rowsFetched + rowIdx ELSE cli.pos
    BY DEF Mark
  <1>6. CASE f.ret = "error"
    BY <1>1, <1>2, <1>4, <1>5, <1>6
  <1>7. CASE f.ret /= "error"
    BY <1>1, <1>2, <1>4, <1>5, <1>7
  <1> QED BY <1>6, <1>7

LEMMA NextFetchStep == IInv /\ NextFetch => IInv'
  <1> SUFFICES ASSUME IInv, NextFetch PROVE IInv'
    OBVIOUS
  <1>1. /\ state = "open" /\ ~ended /\ rowIdx >= rowsFetched
        /\ results' = results /\ fetchSize' = fetchSize /\ forgone' = forgone
        /\ resetFailed' = resetFailed
    BY DEF NextFetch
  <1>2. PICK f \in SQLFetch :
          /\ rowsFetched' = f.n /\ cli' = [cli EXCEPT !.pos = f.pos] /\ buffer' = Filled(f)
          /\ \/ /\ f.ret = "no_data"
                /\ ended' = TRUE /\ cut' = (cut \/ f.n > 0)
                /\ UNCHANGED <<rowIdx, returned, state>>
             \/ /\ f.ret = "error"
                /\ UNCHANGED <<rowIdx, returned, ended, cut, state>>
             \/ /\ f.ret = "ok"
                /\ ReturnRow(Filled(f), 0, f.pos, f.n)
                /\ UNCHANGED <<ended, cut>>
    BY DEF NextFetch
  <1>3. /\ f.n \in Nat /\ f.pos \in Nat /\ cli.pos <= f.pos /\ f.pos <= Current.rows
        /\ \/ f.ret = "error" /\ f.pos = cli.pos /\ f.n \in {0, rowsFetched}
           \/ f.ret = "ok" /\ f.pos = cli.pos + f.n /\ f.n \in 1 .. cli.size
           \/ f.ret = "no_data" /\ f.pos = cli.pos + f.n /\ f.n \in 0 .. cli.size
                /\ f.pos = Current.rows
    BY <1>1, FetchFacts
  <1>4. /\ cli.pos \in Nat /\ cli.size \in Nat /\ Current.rows \in 0 .. MaxRows /\ MaxRows \in Nat
        /\ rowsFetched \in Nat /\ rowIdx \in Nat /\ Current.lob \in BOOLEAN
    BY <1>1, OpenFacts
  <1>5. Mark = cli.pos
    BY <1>1, <1>4 DEF Mark
  <1>6. ReturnedUpTo(returned, cli.pos)
        /\ (~resetFailed => \A i \in 1 .. Len(returned) : returned[i].bound = returned[i].lob)
    BY <1>1, <1>5 DEF IInv, OrderInv
  <1>7. ~cut /\ ~resetFailed => Got(returned) \cup forgone = 1 .. cli.pos
    BY <1>1, <1>5 DEF IInv, CompleteInv
  <1>8. rowIdx \in 0 .. MaxRows /\ forgone \subseteq 1 .. MaxRows /\ ended \in BOOLEAN /\ cut \in BOOLEAN
    BY DEF IInv, TypeOK
  <1>9. CASE f.ret = "ok"
    <2>1. ReturnRow(Filled(f), 0, f.pos, f.n) /\ ended' = ended /\ cut' = cut
      BY <1>2, <1>9
    <2>2. f.pos - f.n + 0 = cli.pos /\ f.n > 0
      BY <1>3, <1>4, <1>9
    <2>3. /\ Filled(f) \in Seq(0 .. MaxRows) /\ SlotsHold(Filled(f), f.n, f.pos)
          /\ ~resetFailed => f.n <= Len(Filled(f))
      BY <1>1, FilledFacts
    <2>4. ~resetFailed => (Current.lob => f.n = 1)
      BY <1>1, <1>3, <1>4, <1>9 DEF IInv, SetInv
    <2>5. ReturnedUpTo(returned, f.pos - f.n + 0)
      BY <1>6, <2>2
    <2>6. /\ state' \in {"open", "panicked"} /\ (state' = "panicked" => resetFailed)
          /\ rowIdx' \in {0, 0 + 1}
          /\ ReturnedUpTo(returned', f.pos - f.n + rowIdx')
          /\ ~resetFailed => \A i \in 1 .. Len(returned') : returned'[i].bound = returned'[i].lob
          /\ Got(returned') = Got(returned) \cup (f.pos - f.n + 0 + 1 .. f.pos - f.n + rowIdx')
      <3>1. 0 \in Nat /\ 0 < f.n
        BY <1>3, <2>2
      <3> QED BY <1>1, <1>3, <2>1, <2>3, <2>4, <2>5, <3>1, ReturnRowKeeps
    <2>7. Fetched(f)
      BY <1>1, <1>2, <2>6 DEF Fetched
    <2>8. rowIdx' \in 0 .. 1 /\ rowIdx' <= f.n
      BY <1>3, <2>2, <2>6
    <2>9. Mark' = f.pos - f.n + rowIdx' /\ Mark' = cli.pos + rowIdx' /\ Mark' \in Nat
      <3>1. cli'.pos = f.pos /\ rowsFetched' = f.n
        BY <1>1, <1>2, <2>7, FetchedKeeps
      <3> QED BY <1>3, <1>4, <2>2, <2>8, <3>1 DEF Mark
    <2>10. TypeOK'
      <3>1. \A i \in DOMAIN returned' : returned'[i] \in [bound : 1 .. MaxRows, lob : 1 .. MaxRows]
        BY <2>6, ReturnedType
      <3>2. rowIdx' \in 0 .. MaxRows
        BY <1>3, <1>4, <2>2, <2>8
      <3> QED BY <1>1, <1>8, <2>1, <2>6, <2>7, <3>1, <3>2, FetchedKeeps DEF TypeOK
    <2>11. OrderInv'
      BY <1>1, <2>6, <2>9 DEF OrderInv
    <2>12. CompleteInv'
      <3> SUFFICES ASSUME ~cut, ~resetFailed PROVE Got(returned') \cup forgone = 1 .. Mark'
        BY <1>1, <2>1 DEF CompleteInv
      <3>1. (1 .. cli.pos) \cup (cli.pos + 1 .. cli.pos + rowIdx') = 1 .. cli.pos + rowIdx'
        <4>1. cli.pos + rowIdx' \in Nat /\ cli.pos <= cli.pos + rowIdx'
          BY <1>4, <2>8
        <4> QED BY <1>4, <4>1, Interval
      <3>2. f.pos - f.n + 0 + 1 = cli.pos + 1 /\ f.pos - f.n + rowIdx' = cli.pos + rowIdx'
        BY <1>3, <1>4, <2>2, <2>8
      <3>3. Got(returned') = Got(returned) \cup (cli.pos + 1 .. cli.pos + rowIdx')
        BY <2>6, <3>2
      <3> QED BY <1>7, <2>9, <3>1, <3>3
    <2> QED BY <1>1, <2>7, <2>10, <2>11, <2>12, FetchedKeeps DEF IInv
  <1>10. CASE f.ret /= "ok"
    <2>1. rowIdx' = rowIdx /\ returned' = returned /\ state' = "open" /\ ended' \in BOOLEAN /\ cut' \in BOOLEAN
      BY <1>1, <1>2, <1>8, <1>10
    <2>2. Fetched(f)
      BY <1>1, <1>2, <2>1 DEF Fetched
    <2>3. Mark' \in Nat /\ Mark <= Mark'
      BY <1>1, <2>1, <2>2, FetchedMark
    <2>4. ReturnedUpTo(returned, Mark')
      <3>1. PICK b \in Int : b = Mark'
        BY <2>3
      <3> QED BY <1>4, <1>5, <1>6, <2>3, <3>1, LaterMark
    <2>5. TypeOK'
      <3>1. \A i \in DOMAIN returned' : returned'[i] \in [bound : 1 .. MaxRows, lob : 1 .. MaxRows]
        BY <2>1 DEF IInv, TypeOK
      <3> QED BY <1>1, <1>8, <2>1, <2>2, <3>1, FetchedKeeps DEF TypeOK
    <2>6. OrderInv'
      BY <1>1, <1>6, <2>1, <2>3, <2>4 DEF OrderInv
    <2>7. CompleteInv'
      <3> SUFFICES ASSUME ~cut', ~resetFailed
                   PROVE  /\ Got(returned) \cup forgone = 1 .. Mark'
                          /\ ended' => Mark' = Current.rows
        BY <1>1, <2>1, <2>2, FetchedKeeps DEF CompleteInv
      <3>1. ~cut /\ (f.n = 0 \/ f.ret = "error")
        <4>1. CASE f.ret = "error"
          <5>1. cut' = cut
            BY <1>2, <4>1
          <5> QED BY <4>1, <5>1
        <4>2. CASE f.ret = "no_data"
          <5>1. ~(cut \/ f.n > 0)
            BY <1>2, <4>2, Zenon
          <5> QED BY <1>3, <5>1
        <4> QED BY <1>3, <1>10, <4>1, <4>2
      <3>2. Mark' = cli.pos
        BY <1>1, <1>5, <2>1, <2>2, <3>1, FetchedMark
      <3>3. ended' => f.ret = "no_data"
        BY <1>1, <1>2, <1>10
      <3>4. ended' => cli.pos = Current.rows
        BY <1>3, <1>4, <3>1, <3>3
      <3> QED BY <1>7, <3>1, <3>2, <3>4
    <2> QED BY <1>1, <2>2, <2>5, <2>6, <2>7, FetchedKeeps DEF IInv
  <1> QED BY <1>9, <1>10

\* The rows that ReadBatch passes over are those after the mark.
LEMMA UnreadFacts ==
  ASSUME IInv, state = "open"
  PROVE  /\ Unread \subseteq 1 .. MaxRows
         /\ ~resetFailed => Unread = Mark + 1 .. cli.pos
  <1>1. /\ rowIdx \in Nat /\ rowsFetched \in Nat /\ cli.pos \in Nat /\ rowsFetched <= cli.pos
        /\ cli.pos <= Current.rows /\ Current.rows \in 0 .. MaxRows /\ MaxRows \in Nat
        /\ buffer \in Seq(0 .. MaxRows)
    BY OpenFacts
  <1>2. \A i \in 1 .. rowsFetched : i <= Len(buffer) => buffer[i] = cli.pos - rowsFetched + i
    BY DEF IInv, BufferInv, SlotsHold
  <1>3. DOMAIN buffer = 1 .. Len(buffer) /\ Len(buffer) \in Nat
    BY <1>1
  <1>4. \A i \in (rowIdx + 1 .. rowsFetched) \cap DOMAIN buffer :
          i \in 1 .. rowsFetched /\ i > rowIdx /\ buffer[i] = cli.pos - rowsFetched + i
    BY <1>1, <1>2, <1>3
  <1>5. Unread \subseteq 1 .. MaxRows
    BY <1>1, <1>4 DEF Unread
  <1>6. ASSUME ~resetFailed PROVE Unread = Mark + 1 .. cli.pos
    <2>1. rowsFetched <= Len(buffer)
      BY <1>6 DEF IInv, BufferInv
    <2>2. Unread \subseteq Mark + 1 .. cli.pos
      <3> SUFFICES ASSUME NEW i \in (rowIdx + 1 .. rowsFetched) \cap DOMAIN buffer
                   PROVE  buffer[i] \in Mark + 1 .. cli.pos
        BY DEF Unread
      <3>1. i \in 1 .. rowsFetched /\ i > rowIdx /\ buffer[i] = cli.pos - rowsFetched + i
        BY <1>4
      <3>2. Mark = cli.pos - rowsFetched + rowIdx
        BY <1>1, <3>1 DEF Mark
      <3>3. PICK k \in Nat : k = cli.pos - rowsFetched
        BY <1>1
      <3>4. buffer[i] = k + i /\ Mark = k + rowIdx
        BY <3>1, <3>2, <3>3
      <3>5. k + rowsFetched = cli.pos
        BY <1>1, <3>3
      <3>6. k + i \in k + rowIdx + 1 .. k + rowsFetched
        BY <1>1, <3>1
      <3> QED BY <3>4, <3>5, <3>6
    <2>3. ASSUME NEW r \in Mark + 1 .. cli.pos PROVE r \in Unread
      <3>1. rowIdx < rowsFetched /\ Mark = cli.pos - rowsFetched + rowIdx
        BY <1>1, <2>3 DEF Mark
      <3>2. PICK i \in rowIdx + 1 .. rowsFetched : i = r - cli.pos + rowsFetched
        BY <1>1, <2>3, <3>1
      <3>3. i \in 1 .. Len(buffer) /\ i \in 1 .. rowsFetched
        BY <1>1, <1>3, <2>1, <3>2
      <3>4. buffer[i] = r
        BY <1>1, <1>3, <1>2, <2>3, <3>2, <3>3
      <3> QED BY <1>3, <3>2, <3>3, <3>4 DEF Unread
    <2> QED BY <2>2, <2>3
  <1> QED BY <1>5, <1>6

\* The rows of a rowset, as ReadBatch returns them.
LEMMA RowsetRows ==
  ASSUME IInv, state = "open", NEW f \in SQLFetch, f.ret /= "error", f.n <= Len(buffer)
  PROVE  LET rows == [i \in 1 .. f.n |-> RowAt(Filled(f), i, f.pos, f.n)]
         IN  /\ ReturnedUpTo(rows, f.pos)
             /\ \A i \in 1 .. Len(rows) : cli.pos < rows[i].bound
             /\ Got(rows) = cli.pos + 1 .. f.pos
             /\ ~resetFailed => \A i \in 1 .. Len(rows) : rows[i].bound = rows[i].lob
  <1> DEFINE rows == [i \in 1 .. f.n |-> RowAt(Filled(f), i, f.pos, f.n)]
  <1>1. /\ f.n \in Nat /\ f.pos \in Nat /\ f.pos <= Current.rows /\ f.pos = cli.pos + f.n
        /\ f.n <= cli.size
    BY FetchFacts
  <1>2. /\ cli.pos \in Nat /\ cli.size \in Nat /\ Current.rows \in 0 .. MaxRows /\ MaxRows \in Nat
        /\ Current.lob \in BOOLEAN
    BY OpenFacts
  <1>3. \A i \in 1 .. f.n : Filled(f)[i] = cli.pos + i
    <2>1. /\ Len(Filled(f)) = Len(buffer)
          /\ \A i \in 1 .. f.n : i <= Len(Filled(f)) => Filled(f)[i] = f.pos - f.n + i
      BY FilledFacts DEF SlotsHold
    <2>2. Len(buffer) \in Nat
      BY OpenFacts
    <2> QED BY <1>1, <1>2, <2>1, <2>2
  <1>4. \A i \in 1 .. f.n :
          /\ rows[i] = RowAt(Filled(f), i, f.pos, f.n)
          /\ rows[i] \in Row /\ rows[i].bound = cli.pos + i
          /\ ~resetFailed => rows[i].bound = rows[i].lob
    <2> SUFFICES ASSUME NEW i \in 1 .. f.n
                 PROVE  /\ rows[i] \in Row /\ rows[i].bound = cli.pos + i
                        /\ ~resetFailed => rows[i].bound = rows[i].lob
      OBVIOUS
    <2> DEFINE row == RowAt(Filled(f), i, f.pos, f.n)
    <2>1. rows[i] = row
      OBVIOUS
    <2>2. /\ row.bound = cli.pos + i
          /\ row.lob = IF Current.lob THEN f.pos - f.n + 1 ELSE cli.pos + i
          /\ row = [bound |-> row.bound, lob |-> row.lob]
      BY <1>3 DEF RowAt
    <2> HIDE DEF row, rows
    <2>3. cli.pos + i \in 1 .. MaxRows /\ f.pos - f.n + 1 \in 1 .. MaxRows
      <3>1. i \in Nat /\ 1 <= i /\ i <= f.n
        BY <1>1
      <3>2. cli.pos + i <= f.pos /\ f.pos <= MaxRows /\ f.pos - f.n = cli.pos
        BY <1>1, <1>2, <3>1
      <3>3. PICK k \in Nat : k = cli.pos + i
        BY <1>2, <3>1
      <3>4. k \in 1 .. MaxRows
        BY <1>1, <1>2, <3>1, <3>2, <3>3
      <3>5. cli.pos + 1 \in 1 .. MaxRows
        BY <1>1, <1>2, <3>1, <3>2
      <3> QED BY <3>2, <3>3, <3>4, <3>5
    <2>4. row \in Row
      BY <2>2, <2>3 DEF Row
    <2>5. ~resetFailed => row.bound = row.lob
      <3>1. ~resetFailed /\ Current.lob => i = 1 /\ f.pos - f.n + 1 = cli.pos + i
        BY <1>1, <1>2 DEF IInv, SetInv
      <3> QED BY <1>2, <2>2, <3>1
    <2> QED BY <2>1, <2>2, <2>4, <2>5
  <1>5. rows \in [1 .. f.n -> Row]
    BY <1>4
  <1> HIDE DEF rows
  <1>6. rows \in Seq(Row) /\ Len(rows) = f.n
    BY <1>1, <1>5, IsSequence
  <1>7. ReturnedUpTo(rows, f.pos)
    BY <1>1, <1>2, <1>4, <1>6 DEF ReturnedUpTo
  <1>8. \A i \in 1 .. Len(rows) : cli.pos < rows[i].bound
    BY <1>1, <1>2, <1>4, <1>6
  <1>9. Got(rows) = cli.pos + 1 .. f.pos
    <2>1. ASSUME NEW r \in Got(rows) PROVE r \in cli.pos + 1 .. f.pos
      <3>1. PICK i \in 1 .. f.n : r = rows[i].bound
        BY <1>6, Zenon DEF Got
      <3>2. r = cli.pos + i
        BY <1>4, <3>1, Zenon
      <3> QED BY <1>1, <1>2, <3>2
    <2>2. ASSUME NEW r \in cli.pos + 1 .. f.pos PROVE r \in Got(rows)
      <3>1. PICK i \in 1 .. f.n : i = r - cli.pos
        BY <1>1, <1>2
      <3>2. rows[i].bound = r
        BY <1>2, <1>4, <3>1
      <3> QED BY <1>6, <3>2 DEF Got
    <2> QED BY <2>1, <2>2
  <1>10. ~resetFailed => \A i \in 1 .. Len(rows) : rows[i].bound = rows[i].lob
    BY <1>4, <1>6
  <1> QED BY <1>7, <1>8, <1>9, <1>10 DEF rows

LEMMA ReadBatchStep == IInv /\ ReadBatch => IInv'
  <1> SUFFICES ASSUME IInv, ReadBatch PROVE IInv'
    OBVIOUS
  <1>1. /\ state = "open" /\ ~ended
        /\ results' = results /\ fetchSize' = fetchSize /\ cut' = cut
        /\ resetFailed' = resetFailed
    BY DEF ReadBatch
  <1>2. PICK f \in SQLFetch :
          /\ rowsFetched' = f.n /\ cli' = [cli EXCEPT !.pos = f.pos] /\ buffer' = Filled(f)
          /\ \/ ReadBatchNothing(f) \/ ReadBatchShortMask(f)
             \/ ReadBatchUndecoded(f) \/ ReadBatchRows(f)
    BY DEF ReadBatch
  <1>3. /\ f.n \in Nat /\ f.pos \in Nat /\ cli.pos <= f.pos /\ f.pos <= Current.rows
        /\ f.ret = "error" => f.pos = cli.pos /\ f.n \in {0, rowsFetched}
        /\ f.ret /= "error" => f.pos = cli.pos + f.n
        /\ f.ret = "no_data" => f.pos = Current.rows
    BY <1>1, FetchFacts
  <1>4. /\ cli.pos \in Nat /\ Current.rows \in 0 .. MaxRows /\ MaxRows \in Nat
        /\ rowsFetched \in Nat /\ rowIdx \in Nat
    BY <1>1, OpenFacts
  <1>5. /\ Mark \in Nat /\ Mark <= cli.pos
        /\ Unread \subseteq 1 .. MaxRows /\ (~resetFailed => Unread = Mark + 1 .. cli.pos)
    BY <1>1, MarkType, UnreadFacts
  <1>6. ReturnedUpTo(returned, Mark)
        /\ (~resetFailed => \A i \in 1 .. Len(returned) : returned[i].bound = returned[i].lob)
    BY <1>1 DEF IInv, OrderInv
  <1>7. ~cut /\ ~resetFailed => Got(returned) \cup forgone = 1 .. Mark
    BY <1>1 DEF IInv, CompleteInv
  <1>8. rowIdx \in 0 .. MaxRows /\ forgone \subseteq 1 .. MaxRows /\ ended \in BOOLEAN /\ cut \in BOOLEAN
    BY DEF IInv, TypeOK
  <1>9. ~resetFailed => (1 .. Mark) \cup (Mark + 1 .. cli.pos) = 1 .. cli.pos
    BY <1>4, <1>5, Interval
  <1>10. \A k \in Nat : k <= f.pos - cli.pos => {cli.pos + i : i \in 1 .. k} = cli.pos + 1 .. cli.pos + k
    <2> SUFFICES ASSUME NEW k \in Nat
                 PROVE  {cli.pos + i : i \in 1 .. k} = cli.pos + 1 .. cli.pos + k
      OBVIOUS
    <2>1. ASSUME NEW r \in cli.pos + 1 .. cli.pos + k PROVE \E i \in 1 .. k : r = cli.pos + i
      <3>1. PICK i \in 1 .. k : i = r - cli.pos
        BY <1>4
      <3> QED BY <1>4, <3>1
    <2> QED BY <1>4, <2>1
  <1>11. CASE ReadBatchNothing(f)
    <2>1. /\ f.ret = "error" \/ f.n = 0
          /\ ended' = (f.ret = "no_data")
          /\ forgone' = IF f.n = 0 THEN forgone \cup Unread ELSE forgone
          /\ rowIdx' = rowIdx /\ returned' = returned /\ state' = state
      BY <1>11 DEF ReadBatchNothing
    <2>2. Fetched(f)
      BY <1>1, <1>2, <2>1 DEF Fetched
    <2>3. /\ Mark' \in Nat /\ Mark <= Mark'
          /\ f.n = 0 => Mark' = cli.pos
          /\ f.ret = "error" /\ f.n /= 0 => Mark' = Mark
      BY <1>1, <2>1, <2>2, FetchedMark
    <2>4. ReturnedUpTo(returned, Mark')
      BY <1>5, <1>6, <2>3, LaterMark
    <2>5. TypeOK'
      <3>1. \A i \in DOMAIN returned' : returned'[i] \in [bound : 1 .. MaxRows, lob : 1 .. MaxRows]
        BY <2>1 DEF IInv, TypeOK
      <3>2. forgone' \subseteq 1 .. MaxRows /\ ended' \in BOOLEAN
        BY <1>5, <1>8, <2>1
      <3> QED BY <1>1, <1>8, <2>1, <2>2, <3>1, <3>2, FetchedKeeps DEF TypeOK
    <2>6. OrderInv'
      BY <1>1, <1>6, <2>1, <2>3, <2>4 DEF OrderInv
    <2>7. CompleteInv'
      <3> SUFFICES ASSUME ~cut, ~resetFailed
                   PROVE  /\ Got(returned) \cup forgone' = 1 .. Mark'
                          /\ ended' => Mark' = Current.rows
        BY <1>1, <2>1, <2>2, FetchedKeeps DEF CompleteInv
      <3>1. CASE f.n = 0
        <4>1. ended' => Mark' = Current.rows
          <5>1. ended' => f.ret = "no_data"
            BY <2>1
          <5> QED BY <1>3, <1>4, <2>3, <3>1, <5>1
        <4> QED BY <1>5, <1>7, <1>9, <2>1, <2>3, <3>1, <4>1
      <3>2. CASE f.n /= 0
        BY <1>7, <2>1, <2>3, <3>2
      <3> QED BY <3>1, <3>2
    <2> QED BY <1>1, <2>2, <2>5, <2>6, <2>7, FetchedKeeps DEF IInv
  <1>12. CASE ReadBatchShortMask(f)
    <2> DEFINE k == IF rowIdx < f.n THEN rowIdx ELSE f.n
    <2>1. /\ f.ret /= "error" /\ f.n > 0
          /\ forgone' = forgone \cup Unread \cup {cli.pos + i : i \in 1 .. k}
          /\ rowIdx' = rowIdx /\ returned' = returned /\ ended' = ended /\ state' = state
      BY <1>12 DEF ReadBatchShortMask
    <2>2. Fetched(f)
      BY <1>1, <1>2, <2>1 DEF Fetched
    <2>3. Mark' \in Nat /\ Mark <= Mark' /\ Mark' = cli.pos + k
      BY <1>1, <2>1, <2>2, FetchedMark
    <2>4. ReturnedUpTo(returned, Mark')
      BY <1>5, <1>6, <2>3, LaterMark
    <2>5. k \in Nat /\ k <= f.pos - cli.pos
      BY <1>3, <1>4, <2>1
    <2> HIDE DEF k
    <2>6. {cli.pos + i : i \in 1 .. k} = cli.pos + 1 .. cli.pos + k
      BY <1>10, <2>5
    <2>7. TypeOK'
      <3>1. \A i \in DOMAIN returned' : returned'[i] \in [bound : 1 .. MaxRows, lob : 1 .. MaxRows]
        BY <2>1 DEF IInv, TypeOK
      <3>2. cli.pos + 1 .. cli.pos + k \subseteq 1 .. MaxRows
        BY <1>3, <1>4, <2>5
      <3>3. forgone' \subseteq 1 .. MaxRows
        BY <1>5, <1>8, <2>1, <2>6, <3>2
      <3> QED BY <1>1, <1>8, <2>1, <2>2, <3>1, <3>3, FetchedKeeps DEF TypeOK
    <2>8. OrderInv'
      BY <1>1, <1>6, <2>1, <2>3, <2>4 DEF OrderInv
    <2>9. CompleteInv'
      <3> SUFFICES ASSUME ~cut, ~resetFailed PROVE Got(returned) \cup forgone' = 1 .. Mark'
        BY <1>1, <2>1, <2>2, FetchedKeeps DEF CompleteInv
      <3>1. (1 .. cli.pos) \cup (cli.pos + 1 .. cli.pos + k) = 1 .. cli.pos + k
        <4>1. cli.pos + k \in Nat /\ cli.pos <= cli.pos + k
          BY <1>4, <2>5
        <4> QED BY <1>4, <4>1, Interval
      <3> QED BY <1>5, <1>7, <1>9, <2>1, <2>3, <2>6, <3>1
    <2> QED BY <1>1, <2>2, <2>7, <2>8, <2>9, FetchedKeeps DEF IInv
  <1>13. CASE ReadBatchUndecoded(f)
    <2>1. /\ f.ret /= "error" /\ rowIdx' = f.n
          /\ forgone' = forgone \cup Unread \cup Rowset(f)
          /\ returned' = returned /\ ended' = ended /\ state' = state
      BY <1>13 DEF ReadBatchUndecoded
    <2>2. Fetched(f)
      BY <1>1, <1>2, <2>1 DEF Fetched
    <2>3. Mark' = f.pos /\ f.pos = cli.pos + f.n
      <3>1. cli'.pos = f.pos /\ rowsFetched' = f.n
        BY <1>1, <1>2, <2>2, FetchedKeeps
      <3> QED BY <1>3, <2>1, <3>1 DEF Mark
    <2>4. ReturnedUpTo(returned, f.pos)
      BY <1>3, <1>4, <1>5, <1>6, LaterMark
    <2>5. Rowset(f) = cli.pos + 1 .. f.pos
      <3>1. f.pos - cli.pos \in Nat /\ cli.pos + (f.pos - cli.pos) = f.pos
        BY <1>3, <1>4
      <3> QED BY <1>10, <3>1 DEF Rowset
    <2>6. TypeOK'
      <3>1. \A i \in DOMAIN returned' : returned'[i] \in [bound : 1 .. MaxRows, lob : 1 .. MaxRows]
        BY <2>1 DEF IInv, TypeOK
      <3>2. cli.pos + 1 .. f.pos \subseteq 1 .. MaxRows /\ f.n \in 0 .. MaxRows
        BY <1>3, <1>4, <2>3
      <3>3. forgone' \subseteq 1 .. MaxRows
        BY <1>5, <1>8, <2>1, <2>5, <3>2
      <3> QED BY <1>1, <1>8, <2>1, <2>2, <3>1, <3>2, <3>3, FetchedKeeps DEF TypeOK
    <2>7. OrderInv'
      BY <1>1, <1>3, <1>6, <2>1, <2>3, <2>4 DEF OrderInv
    <2>8. CompleteInv'
      <3> SUFFICES ASSUME ~cut, ~resetFailed PROVE Got(returned) \cup forgone' = 1 .. Mark'
        BY <1>1, <2>1, <2>2, FetchedKeeps DEF CompleteInv
      <3>1. (1 .. cli.pos) \cup (cli.pos + 1 .. f.pos) = 1 .. f.pos
        BY <1>3, <1>4, Interval
      <3> QED BY <1>5, <1>7, <1>9, <2>1, <2>3, <2>5, <3>1
    <2> QED BY <1>1, <2>2, <2>6, <2>7, <2>8, FetchedKeeps DEF IInv
  <1>14. CASE ReadBatchRows(f)
    <2>1. f.ret /= "error" /\ rowIdx' = f.n /\ forgone' = forgone \cup Unread
      BY <1>14 DEF ReadBatchRows
    <2>2. f.n \in 0 .. MaxRows /\ forgone' \subseteq 1 .. MaxRows
      BY <1>3, <1>4, <1>5, <1>8, <2>1
    <2>3. CASE f.n > Len(buffer)
      <3>1. state' = "panicked" /\ returned' = returned /\ ended' = ended
        BY <1>14, <2>3 DEF ReadBatchRows
      <3>2. Fetched(f)
        BY <1>1, <1>2, <3>1 DEF Fetched
      <3>3. resetFailed
        <4>1. ~resetFailed => f.n <= Len(buffer)
          BY <1>1, FilledFacts
        <4>2. Len(buffer) \in Nat
          BY <1>1, OpenFacts
        <4> QED BY <1>3, <2>3, <4>1, <4>2
      <3>4. TypeOK'
        <4>1. \A i \in DOMAIN returned' : returned'[i] \in [bound : 1 .. MaxRows, lob : 1 .. MaxRows]
          BY <3>1 DEF IInv, TypeOK
        <4> QED BY <1>1, <1>8, <2>1, <2>2, <3>1, <3>2, <4>1, FetchedKeeps DEF TypeOK
      <3>5. OrderInv' /\ CompleteInv'
        BY <1>1, <1>5, <1>6, <3>1, <3>3 DEF OrderInv, CompleteInv
      <3> QED BY <1>1, <3>2, <3>4, <3>5, FetchedKeeps DEF IInv
    <2>4. CASE ~(f.n > Len(buffer))
      <3> DEFINE rows == [i \in 1 .. f.n |-> RowAt(Filled(f), i, f.pos, f.n)]
      <3>1. returned' = returned \o rows /\ ended' = (f.ret = "no_data") /\ state' = state
        BY <1>14, <2>4 DEF ReadBatchRows
      <3>2. Fetched(f)
        BY <1>1, <1>2, <3>1 DEF Fetched
      <3>3. Mark' = f.pos /\ f.pos = cli.pos + f.n
        <4>1. cli'.pos = f.pos /\ rowsFetched' = f.n
          BY <1>1, <1>2, <3>2, FetchedKeeps
        <4> QED BY <1>3, <2>1, <4>1 DEF Mark
      <3>4. f.n <= Len(buffer)
        <4>1. Len(buffer) \in Nat
          BY <1>1, OpenFacts
        <4> QED BY <1>3, <2>4, <4>1
      <3>5. /\ ReturnedUpTo(rows, f.pos)
            /\ \A i \in 1 .. Len(rows) : cli.pos < rows[i].bound
            /\ Got(rows) = cli.pos + 1 .. f.pos
            /\ ~resetFailed => \A i \in 1 .. Len(rows) : rows[i].bound = rows[i].lob
        BY <1>1, <2>1, <3>4, RowsetRows
      <3> HIDE DEF rows
      <3>6. ReturnedUpTo(returned, cli.pos)
        BY <1>4, <1>5, <1>6, LaterMark
      <3>7. /\ ReturnedUpTo(returned \o rows, f.pos)
            /\ Len(returned \o rows) = Len(returned) + Len(rows)
            /\ \A i \in 1 .. Len(returned) : (returned \o rows)[i] = returned[i]
            /\ \A i \in 1 .. Len(rows) : (returned \o rows)[Len(returned) + i] = rows[i]
            /\ Got(returned \o rows) = Got(returned) \cup Got(rows)
        BY <1>3, <1>4, <3>5, <3>6, AppendRows
      <3>8. TypeOK'
        <4>1. \A i \in DOMAIN returned' : returned'[i] \in [bound : 1 .. MaxRows, lob : 1 .. MaxRows]
          BY <3>1, <3>7, ReturnedType
        <4>2. ended' \in BOOLEAN
          BY <3>1
        <4> QED BY <1>1, <1>8, <2>1, <2>2, <3>1, <3>2, <4>1, <4>2, FetchedKeeps DEF TypeOK
      <3>9. ~resetFailed => \A i \in 1 .. Len(returned') : returned'[i].bound = returned'[i].lob
        <4> SUFFICES ASSUME ~resetFailed, NEW i \in 1 .. Len(returned')
                     PROVE  returned'[i].bound = returned'[i].lob
          OBVIOUS
        <4>1. Len(returned) \in Nat /\ Len(rows) \in Nat
          BY <3>5, <3>6 DEF ReturnedUpTo
        <4>2. CASE i \in 1 .. Len(returned)
          BY <1>6, <3>1, <3>7, <4>2
        <4>3. CASE i \notin 1 .. Len(returned)
          <5>1. PICK k \in 1 .. Len(rows) : i = Len(returned) + k
            <6>1. i - Len(returned) \in 1 .. Len(rows) /\ i = Len(returned) + (i - Len(returned))
              BY <3>1, <3>7, <4>1, <4>3
            <6> QED BY <6>1
          <5>2. returned'[i] = rows[k]
            BY <3>1, <3>7, <5>1
          <5> QED BY <3>5, <5>2
        <4> QED BY <4>2, <4>3
      <3>10. OrderInv'
        BY <1>1, <1>3, <3>1, <3>3, <3>7, <3>9 DEF OrderInv
      <3>11. CompleteInv'
        <4> SUFFICES ASSUME ~cut, ~resetFailed
                     PROVE  /\ Got(returned') \cup forgone' = 1 .. Mark'
                            /\ ended' => Mark' = Current.rows
          BY <1>1, <3>1, <3>2, FetchedKeeps DEF CompleteInv
        <4>1. (1 .. cli.pos) \cup (cli.pos + 1 .. f.pos) = 1 .. f.pos
          BY <1>3, <1>4, Interval
        <4>2. Got(returned') \cup forgone' = 1 .. Mark'
          BY <1>5, <1>7, <1>9, <2>1, <3>1, <3>3, <3>5, <3>7, <4>1
        <4>3. ended' => Mark' = Current.rows
          <5>1. ended' => f.ret = "no_data"
            BY <3>1
          <5> QED BY <1>3, <3>3, <5>1
        <4> QED BY <4>2, <4>3
      <3> QED BY <1>1, <3>2, <3>8, <3>10, <3>11, FetchedKeeps DEF IInv
    <2> QED BY <2>3, <2>4
  <1> QED BY <1>2, <1>11, <1>12, <1>13, <1>14

------------------------------------------------------------------------------
\* Nothing has been returned of a result set that is bound anew.
LEMMA EmptyReturned ==
  ASSUME returned' = <<>>, forgone' = {}, ended' = FALSE, state' \in {"closed", "open"},
         rowsFetched' \in Nat, rowIdx' \in Nat, cli'.pos = 0, state' = "open" => rowsFetched' = 0
  PROVE  OrderInv' /\ CompleteInv'
         /\ \A i \in DOMAIN returned' : returned'[i] \in [bound : 1 .. MaxRows, lob : 1 .. MaxRows]
  <1>1. \A mark : ReturnedUpTo(<<>>, mark)
    BY DEF ReturnedUpTo
  <1>2. Len(returned') = 0 /\ DOMAIN returned' = {} /\ Got(returned') = {}
    BY DEF Got
  <1>3. OrderInv'
    <2>1. 0 \in Nat /\ ReturnedUpTo(returned', 0) /\ ReturnedUpTo(returned', Mark')
      BY <1>1
    <2>2. ~resetFailed' => \A i \in 1 .. Len(returned') : returned'[i].bound = returned'[i].lob
      BY <1>2
    <2> QED BY <2>1, <2>2 DEF OrderInv
  <1>4. CompleteInv'
    <2>1. state' = "open" => Mark' = 0
      <3> SUFFICES ASSUME state' = "open" PROVE Mark' = 0
        OBVIOUS
      <3>1. ~(rowIdx' < rowsFetched')
        OBVIOUS
      <3> QED BY <3>1 DEF Mark
    <2> QED BY <1>2, <2>1 DEF CompleteInv
  <1> QED BY <1>2, <1>3, <1>4

LEMMA BindColumnsKeeps ==
  ASSUME IInv, NEW rs \in Seq(ResultSet), NEW set \in 1 .. Len(rs), Len(rs) <= MaxSets,
         BindColumns(rs, set), results' = rs
  PROVE  /\ SetInv' /\ BufferInv'
         /\ state' \in {"closed", "open"} /\ cli'.pos = 0 /\ rowsFetched' = 0
         /\ results' \in Seq(ResultSet)
         /\ cli' \in [set : 1 .. MaxSets, pos : 0 .. MaxRows, size : FetchSizes \cup {1},
                      bound : 0 .. 1]
         /\ fetchSize' \in FetchSizes \cup {1} /\ rowsFetched' \in 0 .. MaxRows
         /\ buffer' \in Seq(0 .. MaxRows) /\ resetFailed' \in BOOLEAN
  <1> DEFINE lob == rs[set].lob
             shrink == lob /\ fetchSize > 1
             last == IF rs[set].bindable > cli.bound THEN rs[set].bindable ELSE cli.bound
             CliType == [set : 1 .. MaxSets, pos : 0 .. MaxRows, size : FetchSizes \cup {1},
                         bound : 0 .. 1]
  <1>1. /\ MaxRows \in Nat /\ MaxSets \in Nat /\ Len(rs) \in Nat /\ set \in 1 .. MaxSets
    BY CursorAssumption
  <1>2. /\ rs[set].rows \in 0 .. MaxRows /\ rs[set].lob \in BOOLEAN /\ rs[set].bindable \in 0 .. 1
    BY DEF ResultSet
  <1>3. /\ cli \in CliType /\ fetchSize \in FetchSizes \cup {1} /\ resetFailed \in BOOLEAN
        /\ buffer \in Seq(0 .. MaxRows)
    BY DEF IInv, TypeOK
  <1>4. /\ fetchSize \in Nat /\ fetchSize >= 1 /\ (~resetFailed => cli.size = fetchSize)
    <2>1. \A n \in FetchSizes : n \in Nat /\ n /= 0
      BY CursorAssumption
    <2>2. fetchSize \in Nat /\ fetchSize /= 0
      BY <1>3, <2>1
    <2> QED BY <2>2 DEF IInv, SetInv
  <1>5. last \in 0 .. 1
    BY <1>2, <1>3
  <1>6. rowsFetched' = 0
    BY DEF BindColumns
  <1>7. PICK size \in {1, cli.size}, fs \in {1, fetchSize}, b \in {last, cli.bound}, failed \in BOOLEAN :
          /\ cli' = [[cli EXCEPT !.set = set, !.pos = 0, !.size = size] EXCEPT !.bound = b]
          /\ fetchSize' = fs
          /\ ~resetFailed /\ ~failed => size = fs
          /\ \/ /\ buffer' = [i \in 1 .. fs |-> 0] /\ state' = "open" /\ resetFailed' = resetFailed
                /\ failed = FALSE /\ (lob => fs = 1)
             \/ /\ buffer' = buffer /\ state' = "closed" /\ resetFailed' = resetFailed
                /\ failed = FALSE
             \/ /\ buffer' = buffer /\ state' = "closed" /\ resetFailed' = TRUE
                /\ failed = TRUE
    <2> DEFINE At(size) == [cli EXCEPT !.set = set, !.pos = 0, !.size = size]
    <2>1. \A size : At(size) = [At(size) EXCEPT !.bound = cli.bound]
      BY <1>3
    <2>2. CASE /\ fetchSize' = IF shrink THEN 1 ELSE fetchSize
               /\ cli' = [At(IF shrink THEN 1 ELSE cli.size) EXCEPT !.bound = last]
               /\ buffer' = [i \in 1 .. fetchSize' |-> 0]
               /\ state' = "open" /\ resetFailed' = resetFailed
      <3>1. CASE shrink
        BY <1>4, <2>2, <3>1
      <3>2. CASE ~shrink
        <4>1. lob => fetchSize = 1
          BY <1>4, <3>2
        <4> QED BY <1>4, <2>2, <3>2, <4>1
      <3> QED BY <3>1, <3>2
    <2>3. CASE /\ fetchSize' = 1 /\ cli' = At(cli.size) /\ resetFailed' = TRUE
               /\ state' = "closed" /\ buffer' = buffer
      BY <2>1, <2>3
    <2>4. CASE /\ fetchSize' = fetchSize /\ cli' = At(cli.size)
               /\ state' = "closed" /\ buffer' = buffer /\ resetFailed' = resetFailed
      BY <1>4, <2>1, <2>4
    <2>5. CASE /\ fetchSize' = 1 /\ cli' = At(1)
               /\ state' = "closed" /\ buffer' = buffer /\ resetFailed' = resetFailed
      BY <2>1, <2>5
    <2> QED BY <2>2, <2>3, <2>4, <2>5 DEF BindColumns
  <1> HIDE DEF last, shrink
  <1>8. /\ cli'.set = set /\ cli'.pos = 0 /\ cli'.size = size /\ cli' \in CliType
    <2>1. size \in FetchSizes \cup {1} /\ b \in 0 .. 1
      BY <1>3, <1>5, <1>7
    <2>2. cli' = [set |-> set, pos |-> 0, size |-> size, bound |-> b]
      BY <1>3, <1>7
    <2> QED BY <1>1, <2>1, <2>2
  <1>9. fs \in Nat /\ fs >= 1 /\ fetchSize' \in FetchSizes \cup {1}
    BY <1>3, <1>4, <1>7
  <1>10. Current' = rs[set]
    BY <1>8 DEF Current
  <1>11. resetFailed' \in BOOLEAN /\ (~resetFailed' => ~resetFailed /\ ~failed)
    <2>1. CASE resetFailed' = resetFailed /\ failed = FALSE
      BY <1>3, <2>1
    <2>2. CASE resetFailed' = TRUE
      BY <2>2
    <2> QED BY <1>7, <2>1, <2>2
  <1>12. state' \in {"closed", "open"}
    BY <1>7
  <1>13. buffer' \in Seq(0 .. MaxRows) /\ (state' = "open" => Len(buffer') = fs)
    <2>1. CASE buffer' = [i \in 1 .. fs |-> 0]
      <3>1. buffer' \in [1 .. fs -> 0 .. MaxRows]
        BY <1>1, <2>1
      <3> QED BY <1>9, <3>1, IsSequence
    <2>2. CASE buffer' = buffer /\ state' = "closed"
      BY <1>3, <2>2
    <2> QED BY <1>7, <2>1, <2>2
  <1>14. SetInv'
    <2>1. ~resetFailed' => cli'.size = fetchSize'
      BY <1>7, <1>8, <1>11
    <2>2. state' = "open" => (lob => fs = 1)
      BY <1>7
    <2> QED BY <1>1, <1>2, <1>7, <1>8, <1>10, <1>13, <2>1, <2>2 DEF SetInv
  <1>15. BufferInv'
    BY <1>6, <1>8, <1>9, <1>13 DEF BufferInv, SlotsHold
  <1> QED BY <1>1, <1>6, <1>8, <1>9, <1>11, <1>12, <1>13, <1>14, <1>15

LEMMA QueryStep == IInv /\ Query => IInv'
  <1> SUFFICES ASSUME IInv, Query PROVE IInv'
    OBVIOUS
  <1>1. PICK k \in 1 .. MaxSets : \E rs \in [1 .. k -> ResultSet] :
          results' = rs /\ BindColumns(rs, 1)
    BY DEF Query
  <1>2. PICK rs \in [1 .. k -> ResultSet] : results' = rs /\ BindColumns(rs, 1)
    BY <1>1
  <1>3. k \in Nat /\ rs \in Seq(ResultSet) /\ Len(rs) = k
    BY IsSequence
  <1>4. 1 \in 1 .. Len(rs) /\ Len(rs) <= MaxSets
    BY <1>3, CursorAssumption
  <1>5. /\ returned' = <<>> /\ forgone' = {} /\ ended' = FALSE /\ rowIdx' = 0 /\ cut' = cut
    BY DEF Query, NewResultSet
  <1>6. /\ SetInv' /\ BufferInv'
        /\ state' \in {"closed", "open"} /\ cli'.pos = 0 /\ rowsFetched' = 0
        /\ results' \in Seq(ResultSet)
        /\ cli' \in [set : 1 .. MaxSets, pos : 0 .. MaxRows, size : FetchSizes \cup {1},
                     bound : 0 .. 1]
        /\ fetchSize' \in FetchSizes \cup {1} /\ rowsFetched' \in 0 .. MaxRows
        /\ buffer' \in Seq(0 .. MaxRows) /\ resetFailed' \in BOOLEAN
    BY <1>2, <1>3, <1>4, BindColumnsKeeps
  <1>7. OrderInv' /\ CompleteInv'
        /\ \A i \in DOMAIN returned' : returned'[i] \in [bound : 1 .. MaxRows, lob : 1 .. MaxRows]
    BY <1>5, <1>6, EmptyReturned
  <1>8. TypeOK'
    BY <1>5, <1>6, <1>7, CursorAssumption DEF IInv, TypeOK
  <1> QED BY <1>6, <1>7, <1>8 DEF IInv

LEMMA NextResultSetStep == IInv /\ NextResultSet => IInv'
  <1> SUFFICES ASSUME IInv, NextResultSet PROVE IInv'
    OBVIOUS
  <1>1. /\ state = "open" /\ cli.set < Len(results)
        /\ BindColumns(results, cli.set + 1)
        /\ rowIdx' = IF state' = "open" THEN 0 ELSE rowIdx
        /\ returned' = <<>> /\ forgone' = {} /\ ended' = FALSE
        /\ results' = results /\ cut' = cut
    BY DEF NextResultSet, NewResultSet
  <1>2. PICK rs \in Seq(ResultSet) : rs = results
    BY DEF IInv, TypeOK
  <1>3. cli.set \in 1 .. Len(results) /\ Len(results) <= MaxSets
    BY <1>1 DEF IInv, SetInv
  <1>4. PICK set \in 1 .. Len(rs) : set = cli.set + 1
    BY <1>1, <1>2, <1>3
  <1>5. /\ SetInv' /\ BufferInv'
        /\ state' \in {"closed", "open"} /\ cli'.pos = 0 /\ rowsFetched' = 0
        /\ results' \in Seq(ResultSet)
        /\ cli' \in [set : 1 .. MaxSets, pos : 0 .. MaxRows, size : FetchSizes \cup {1},
                     bound : 0 .. 1]
        /\ fetchSize' \in FetchSizes \cup {1} /\ rowsFetched' \in 0 .. MaxRows
        /\ buffer' \in Seq(0 .. MaxRows) /\ resetFailed' \in BOOLEAN
    BY <1>1, <1>2, <1>3, <1>4, BindColumnsKeeps
  <1>6. rowIdx' \in 0 .. MaxRows
    BY <1>1, CursorAssumption DEF IInv, TypeOK
  <1>7. OrderInv' /\ CompleteInv'
        /\ \A i \in DOMAIN returned' : returned'[i] \in [bound : 1 .. MaxRows, lob : 1 .. MaxRows]
    <2>1. rowIdx' \in Nat /\ rowsFetched' \in Nat
      BY <1>5, <1>6
    <2> QED BY <1>1, <1>5, <2>1, EmptyReturned
  <1>8. TypeOK'
    BY <1>1, <1>5, <1>6, <1>7 DEF IInv, TypeOK
  <1> QED BY <1>5, <1>7, <1>8 DEF IInv

LEMMA CloseStep == IInv /\ Close => IInv'
  <1> SUFFICES ASSUME IInv, Close PROVE IInv'
    OBVIOUS
  <1>1. /\ state = "open" /\ state' = "closed"
        /\ results' = <<>> /\ cli' = [cli EXCEPT !.set = 1, !.pos = 0]
        /\ returned' = <<>> /\ forgone' = {} /\ ended' = FALSE
        /\ UNCHANGED <<fetchSize, rowsFetched, buffer, rowIdx, cut, resetFailed>>
    BY DEF Close, NewResultSet
  <1>2. MaxRows \in Nat /\ 1 \in 1 .. MaxSets
    BY CursorAssumption
  <1>3. /\ cli'.pos = 0 /\ cli'.size = cli.size
        /\ cli' \in [set : 1 .. MaxSets, pos : 0 .. MaxRows, size : FetchSizes \cup {1},
                     bound : 0 .. 1]
    <2>1. cli \in [set : 1 .. MaxSets, pos : 0 .. MaxRows, size : FetchSizes \cup {1}, bound : 0 .. 1]
      BY DEF IInv, TypeOK
    <2>2. cli' = [set |-> 1, pos |-> 0, size |-> cli.size, bound |-> cli.bound]
      BY <1>1, <2>1
    <2> QED BY <1>2, <2>1, <2>2
  <1>4. rowsFetched' \in Nat /\ rowIdx' \in Nat
    BY <1>1, OpenFacts
  <1>5. OrderInv' /\ CompleteInv'
        /\ \A i \in DOMAIN returned' : returned'[i] \in [bound : 1 .. MaxRows, lob : 1 .. MaxRows]
    BY <1>1, <1>3, <1>4, EmptyReturned
  <1>6. results' \in Seq(ResultSet) /\ Len(results') <= MaxSets
    BY <1>1, CursorAssumption
  <1>7. TypeOK'
    BY <1>1, <1>3, <1>5, <1>6 DEF IInv, TypeOK
  <1>8. SetInv' /\ BufferInv'
    BY <1>1, <1>3, <1>6 DEF IInv, SetInv, BufferInv
  <1> QED BY <1>5, <1>7, <1>8 DEF IInv

LEMMA StutterStep == IInv /\ UNCHANGED vars => IInv'
  <1> SUFFICES ASSUME IInv, UNCHANGED vars PROVE IInv'
    OBVIOUS
  <1> USE DEF vars
  <1>1. Current' = Current /\ Mark' = Mark
    BY DEF Current, Mark
  <1> QED BY <1>1 DEF IInv, TypeOK, SetInv, BufferInv, OrderInv, CompleteInv, SlotsHold

\* IInv holds in every state: each call of Next, ReadBatch, NextResultSet, Close
\* and each new query keeps it.
THEOREM Inductive == Spec => []IInv
  <1>1. IInv /\ [Next]_vars => IInv'
    BY QueryStep, NextResultSetStep, CloseStep, NextRowStep, NextFetchStep, ReadBatchStep,
       StutterStep DEF Next
  <1> QED BY InitInv, <1>1, PTL DEF Spec

\* The variables have their types.
THEOREM TypeCorrect == Spec => []TypeOK
  BY Inductive, PTL DEF IInv

\* Next and ReadBatch return each row once and in order, with its own LOB, for
\* results of any length, any fetch size and any order of calls.
THEOREM OrderCorrect == Spec => []RowsInOrder
  <1>1. IInv => RowsInOrder
    <2> SUFFICES ASSUME IInv, ~resetFailed
                 PROVE  /\ \A i \in DOMAIN returned : returned[i].bound = returned[i].lob
                        /\ \A i, j \in DOMAIN returned :
                             i < j => returned[i].bound < returned[j].bound
      BY DEF RowsInOrder
    <2>1. PICK mark \in Nat : ReturnedUpTo(returned, mark)
      BY DEF IInv, OrderInv
    <2>2. DOMAIN returned = 1 .. Len(returned)
      BY <2>1 DEF ReturnedUpTo
    <2> QED BY <2>1, <2>2 DEF IInv, OrderInv, ReturnedUpTo
  <1> QED BY Inductive, <1>1, PTL

\* At io.EOF the client has every row, but for those it gave up by ReadBatch.
THEOREM EOFComplete == Spec => []CompleteAtEOF
  <1>1. IInv => CompleteAtEOF
    <2> SUFFICES ASSUME IInv, state = "open", ended, ~cut, ~resetFailed
                 PROVE  {returned[i].bound : i \in DOMAIN returned} \cup forgone = 1 .. Current.rows
      BY DEF CompleteAtEOF
    <2>1. DOMAIN returned = 1 .. Len(returned)
      BY DEF IInv, OrderInv, ReturnedUpTo
    <2> QED BY <2>1 DEF IInv, CompleteInv, Got
  <1> QED BY Inductive, <1>1, PTL

\* SQLFetch stays within the buffers of BindColumns, and rowIdx points into them.
THEOREM BuffersAgree == Spec => []RowsetInBuffer
  <1>1. IInv => RowsetInBuffer
    <2> SUFFICES ASSUME IInv, state = "open", ~resetFailed
                 PROVE  /\ cli.size <= Len(buffer) /\ (Current.lob => cli.size = 1)
                        /\ rowsFetched <= Len(buffer)
                        /\ \A i \in 1 .. rowsFetched : buffer[i] = cli.pos - rowsFetched + i
      BY DEF RowsetInBuffer
    <2>1. /\ cli.size = Len(buffer) /\ (Current.lob => cli.size = 1) /\ rowsFetched <= Len(buffer)
          /\ \A i \in 1 .. rowsFetched : i <= Len(buffer) => buffer[i] = cli.pos - rowsFetched + i
      BY DEF IInv, SetInv, BufferInv, SlotsHold
    <2>2. cli.size \in Nat /\ rowsFetched \in Nat
      BY OpenFacts
    <2> QED BY <2>1, <2>2
  <1> QED BY Inductive, <1>1, PTL

\* An index out of range needs a failed reset of SQL_ATTR_ROW_ARRAY_SIZE.
THEOREM PanicKnown == Spec => []PanicExplained
  <1>1. IInv => PanicExplained
    BY DEF IInv, OrderInv, PanicExplained
  <1> QED BY Inductive, <1>1, PTL
==============================================================================
