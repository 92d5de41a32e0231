---------------------------- MODULE ColumnValues ----------------------------
(***************************************************************************)
(* The values of one column: which C type and buffer newColumn chooses,    *)
(* what SQLFetch leaves in the buffers, and what becomes of it in Next     *)
(* (Value, column.go) and in ReadBatch (fastpath.go).  Texts are bytes; a  *)
(* value of a fixed size is not taken apart.  The slots of a bound column  *)
(* keep what earlier rowsets left in them.  How a value that is not bound  *)
(* is read in chunks is the subject of GetData.                            *)
(***************************************************************************)
EXTENDS TextEncoding, FiniteSets

CONSTANTS Columns,     \* the columns considered: [stype, size]
          FetchSize,   \* rows of a rowset of bound columns
          Int16Range,  \* 2^16: numbers of 16 bits
          FirstBuffer, \* 1024: bytes getDataChunked reads at first
          MaxFetches   \* bound: calls of SQLFetch

SqlTypes == {"BIT", "BOOLEAN", "TINYINT", "SMALLINT", "INTEGER", "BIGINT", "NUMERIC", "FLOAT",
             "REAL", "DOUBLE", "TIMESTAMP", "TIMESTAMP_TZ", "DATE", "TIME", "CHAR", "VARCHAR",
             "DECFLOAT", "DECIMAL", "CLOB", "WCHAR", "WVARCHAR", "BINARY", "VARBINARY", "BLOB",
             "LONGVARCHAR", "WLONGVARCHAR", "SS_XML", "LONGVARBINARY", "DBCLOB", "XML"}

ASSUME ColumnValuesAssumption ==
  /\ Columns \subseteq [stype : SqlTypes, size : Nat]
  /\ \A c \in Columns : c.stype = "DECFLOAT" => c.size \in {16, 34}   \* of Db2
  /\ FetchSize \in Nat \ {0} /\ MaxFetches \in Nat
  /\ Int16Range \in Nat /\ FirstBuffer \in Nat /\ 2 < FirstBuffer /\ FirstBuffer < Int16Range - 1

VARIABLES col,         \* [stype, size]
          bound,       \* IsBound: is it bindable, and no column before it unbound?
          slots,       \* Buffer and LenBuffer, a slot for each row
          rows,        \* the values of the current rowset in the server
          fetches,     \* calls of SQLFetch
          got          \* the value read last

columnVars == <<col, bound, slots, rows, fetches, got>>

------------------------------------------------------------------------------
\* newColumn: the C type ...
CType(t) ==
  CASE t \in {"BIT", "BOOLEAN"} -> "BIT"
    [] t \in {"TINYINT", "SMALLINT", "INTEGER"} -> "LONG"
    [] t = "BIGINT" -> "SBIGINT"
    [] t \in {"NUMERIC", "FLOAT", "REAL", "DOUBLE"} -> "DOUBLE"
    [] t \in {"TIMESTAMP", "TIMESTAMP_TZ", "DATE", "TIME"} -> t
    [] t \in {"CHAR", "VARCHAR", "DECFLOAT", "DECIMAL", "CLOB", "LONGVARCHAR"} -> "CHAR"
    [] t \in {"WCHAR", "WVARCHAR", "WLONGVARCHAR", "SS_XML"} -> "WCHAR"
    [] t = "DBCLOB" -> "DBCHAR"
    [] OTHER -> "BINARY"

Fixed(t) == CType(t) \notin {"CHAR", "WCHAR", "DBCHAR", "BINARY"}
Wide(t) == CType(t) \in {"WCHAR", "DBCHAR"}
Decimal(t) == t \in {"DECIMAL", "DECFLOAT"}

\* ... the columns that are never bound ...
Bindable(c) ==
  \/ Fixed(c.stype)
  \/ c.stype \notin {"CLOB", "LONGVARBINARY", "DBCLOB", "XML"} /\ c.size > 0

\* Fault variant: no room for the sign and the point of a decimal.
SizeTight(c) ==
  CASE CType(c.stype) = "WCHAR" -> (c.size + 1) * 2
    [] c.stype = "DECIMAL" -> c.size + 3
    [] CType(c.stype) = "CHAR" /\ c.stype /= "DECIMAL" -> (c.size + 1) * 2
    [] OTHER -> c.size

\* ... and newVariableWidthColumn: the bytes of a slot.
Size(c) ==
  CASE CType(c.stype) = "WCHAR" -> (c.size + 1) * 2
    [] c.stype = "DECIMAL" -> c.size + 4
    [] CType(c.stype) = "CHAR" /\ c.stype /= "DECIMAL" -> (c.size + 1) * 2
    [] OTHER -> c.size

\* What TypeScan reports: the Go type of the values.
TypeScan(t) ==
  CASE CType(t) = "BIT" -> "bool"
    [] CType(t) = "LONG" -> "int32"
    [] CType(t) = "SBIGINT" -> "int64"
    [] CType(t) = "DOUBLE" -> "float64"
    [] CType(t) \in {"CHAR", "WCHAR", "DBCHAR"} /\ ~Decimal(t) -> "string"
    [] CType(t) = "BINARY" \/ Decimal(t) -> "bytes"
    [] OTHER -> "time"

------------------------------------------------------------------------------
\* The server's values, in the form the CLI gives the client: bytes, or the
\* value itself when it has a fixed size.
Null == [null |-> TRUE, data |-> <<>>]
Data(s) == [null |-> FALSE, data |-> s]
Upto(texts, n) == {s \in texts : Len(s) <= n}
Comma == 44
Point == 46

\* A DECIMAL(p, p), the longest: sign, zero, comma, p digits; a DECFLOAT may
\* have an exponent, too.
Digits(n) == [i \in 1 .. n |-> 57]
Decimals(c) ==
  {Digits(c.size), <<45, 48, Comma>> \o Digits(c.size)} \cup
  IF c.stype = "DECFLOAT" THEN {<<45, 57, Comma>> \o Digits(c.size - 1) \o <<69, 45, 51, 56, 51>>}
  ELSE {}

\* Characters of a CHAR column may take three bytes in UTF-8 where they take
\* one in the code page of the server.
Values(c) ==
  LET t == c.stype IN
  {Null} \cup
  IF Fixed(t) THEN {Data(<<0>>), Data(<<1>>)}
  ELSE IF Decimal(t) THEN {Data(s) : s \in Decimals(c)}
  ELSE IF CType(t) = "CHAR" THEN {Data(Utf8(s)) : s \in Upto(CharTexts, c.size)}
  ELSE IF CType(t) = "WCHAR" THEN {Data(LittleEndian(s)) : s \in Upto(WideTexts, c.size)}
  ELSE IF CType(t) = "DBCHAR" THEN {Data(BigEndian(s)) : s \in Upto(WideTexts, c.size)}
  ELSE {Data(s) : s \in Upto(Binaries, c.size)}

\* SQLFetch fills a slot: what does not fit beside the terminator is cut, the
\* indicator has the length of the whole, and bytes behind are left alone.
Store(c, v, slot) ==
  IF v.null THEN [slot EXCEPT !.ind = -1]
  ELSE IF Fixed(c.stype) THEN [ind |-> 1, bytes |-> v.data]
  ELSE LET room == Size(c) - Len(Terminator(CType(c.stype)))
           new == SubSeq(v.data, 1, Min({Len(v.data), room})) \o Terminator(CType(c.stype))
       IN  [ind |-> Len(v.data),
            bytes |-> new \o SubSeq(slot.bytes, Len(new) + 1, Len(slot.bytes))]

------------------------------------------------------------------------------
\* The first comma of a decimal becomes a point.
Pointed(s) ==
  LET commas == {i \in DOMAIN s : s[i] = Comma}
  IN  IF commas = {} THEN s ELSE [s EXCEPT ![Min(commas)] = Point]

\* A Go value and the slot of the buffer that it is a part of; a copy has memory
\* of its own.
At(slot, v) == [kind |-> v.kind, val |-> v.val, slot |-> slot]
Copy(v) == At(0, v)

\* BaseColumn.Value of buf, a part of a slot: CHAR and BINARY are buf itself.  A
\* time without a date is of January 1 of year 1, a date at midnight, all of
\* them in UTC unless the value has an offset.
BaseValue(t, buf, slot) ==
  CASE Fixed(t) -> Copy(Of(TypeScan(t), buf))
    [] Decimal(t) -> Copy(Of("bytes", Pointed(buf)))
    [] Wide(t) -> Copy(WideValue(CType(t), buf))
    [] OTHER -> At(slot, Of("bytes", buf))

\* Fault variant: the whole slot is taken for data.
boundDataLenSlot(i) == Len(slots[i].bytes)

\* The length of the data in slot i, also of Value.
boundDataLen(i) ==
  IF Fixed(col.stype) THEN 1 ELSE Min({slots[i].ind, Size(col)})

Slot(i) == SubSeq(slots[i].bytes, 1, boundDataLen(i))

\* IsNull looks at 16 bits of a length.
NullLength(n) == n = -1 \/ n % Int16Range = Int16Range - 1

\* The lengths of the last chunk of n bytes that getDataChunked may see: the CLI
\* may tell what is left with any chunk, and the next then has room for it.
LastChunks(n) ==
  LET chunk == FirstBuffer - Len(Terminator(CType(col.stype)))
  IN  IF n <= chunk THEN {n} ELSE {l \in 1 .. n - chunk : (n - l) % chunk = 0}

\* What Column.Value of row i may give.
Value(i) ==
  IF bound
  THEN {IF NullLength(slots[i].ind) THEN Copy(Nil) ELSE BaseValue(col.stype, Slot(i), i)}
  ELSE IF rows[i].null THEN {Copy(Nil)}
  ELSE {IF NullLength(n) THEN Copy(Nil) ELSE BaseValue(col.stype, rows[i].data, 0) :
          n \in LastChunks(Len(rows[i].data))}

\* The destinations of ReadBatch that suit the column.
Suited(t) == {TypeScan(t)} \cup IF Fixed(t) THEN {} ELSE {"string", "bytes"}

\* Fault variant: a []byte is not copied.
BoundElementShared(dest, i) ==
  IF NullLength(slots[i].ind) THEN Copy(Of(dest, <<>>))
  ELSE At(IF dest = "bytes" THEN i ELSE 0, Of(dest, Slot(i)))

\* fillBindableSlice: a NULL is the zero value; texts are decoded into strings,
\* but into []byte their bytes are copied as they are.
BoundElement(dest, i) ==
  IF NullLength(slots[i].ind) THEN Copy(Of(dest, <<>>))
  ELSE IF dest = "string" /\ CType(col.stype) = "WCHAR"
    THEN LET v == WideValue("WCHAR", Slot(i))
         IN  Copy(IF v.kind = "panic" THEN v ELSE Of(dest, v.val))
  ELSE Copy(Of(dest, IF Decimal(col.stype) THEN Pointed(Slot(i)) ELSE Slot(i)))

\* fillNonBindableSlice calls Value for each row and has an error for a value
\* that does not have the type of the destination.
UnboundElement(dest, v) ==
  IF v.kind = "nil" THEN Copy(Of(dest, <<>>))
  ELSE IF v.kind = dest \/ {v.kind, dest} \subseteq {"string", "bytes"} THEN [v EXCEPT !.kind = dest]
  ELSE IF v.kind = "panic" THEN v ELSE Copy(Of("error", <<>>))

------------------------------------------------------------------------------
NotRead == [how |-> "none", row |-> Null, null |-> FALSE, value |-> Copy(Nil), bound |-> FALSE]

ColumnInit ==
        /\ col \in Columns
        /\ bound \in IF Bindable(col) THEN BOOLEAN ELSE {FALSE}
        /\ slots = [i \in 1 .. FetchSize |-> [ind |-> 0, bytes |-> Zeros(Size(col))]]
        /\ rows = <<>> /\ fetches = 0 /\ got = NotRead

\* Without bindings a rowset has one row (BindColumns).
Fetch ==
  /\ fetches < MaxFetches
  /\ \E n \in 1 .. IF bound THEN FetchSize ELSE 1 :
       /\ rows' \in [1 .. n -> Values(col)]
       /\ slots' = IF bound
                   THEN [i \in DOMAIN slots |-> IF i <= n THEN Store(col, rows'[i], slots[i])
                                                ELSE slots[i]]
                   ELSE slots
  /\ fetches' = fetches + 1
  /\ UNCHANGED <<col, bound, got>>

Read(how, i, null, value) ==
  /\ got' = [how |-> how, row |-> rows[i], null |-> null, value |-> value, bound |-> bound]
  /\ UNCHANGED <<col, bound, slots, rows, fetches>>

Next1 == \E i \in DOMAIN rows : \E v \in Value(i) : Read("next", i, v.kind = "nil", v)

\* The null mask and the element of row i.
ReadBatch ==
  \E i \in DOMAIN rows, dest \in Suited(col.stype) :
    IF bound THEN Read("batch", i, NullLength(slots[i].ind), BoundElement(dest, i))
    ELSE \E v \in Value(i) : Read("batch", i, v.kind = "nil", UnboundElement(dest, v))

ColumnNext == Fetch \/ Next1 \/ ReadBatch

ColumnSpec == ColumnInit /\ [][ColumnNext]_columnVars

------------------------------------------------------------------------------
\* The value a client would expect of a row.
Expected(v) ==
  LET t == col.stype IN
  CASE Decimal(t) -> Pointed(v.data)
    [] CType(t) = "WCHAR" -> Text(FromLittleEndian(v.data))
    [] CType(t) = "DBCHAR" -> Text([i \in 1 .. Len(v.data) \div 2 |->
                                      256 * v.data[2 * i - 1] + v.data[2 * i]])
    [] OTHER -> v.data

\* A text of which some characters take three bytes may not fit in its slot:
\* it is cut, and the terminator becomes a part of it.
CutText(v) ==
  /\ got.bound /\ CType(col.stype) = "CHAR" /\ ~Decimal(col.stype)
  /\ Len(v.data) >= Size(col)
  /\ got.value.val = SubSeq(v.data, 1, Size(col) - 1) \o <<0>>

\* A bound value whose length is 65535 modulo 65536 looks like NULL, one that is
\* not bound only if its last chunk may have such a length.
LooksNull(v) ==
  /\ got.null
  /\ IF got.bound THEN Len(v.data) % Int16Range = Int16Range - 1
     ELSE Len(v.data) >= Int16Range + FirstBuffer - 3

\* Text of a wide type with more than MaxElements units, or bytes, panics.
TooWide(v) ==
  /\ got.value.kind = "panic" /\ Wide(col.stype)
  /\ Elements(CType(col.stype), v.data) > MaxElements

Exact == /\ got.null = got.row.null /\ got.value.kind \notin {"error", "panic"}
         /\ ~got.null => got.value.val = Expected(got.row)

\* Next gives each row's own value, NULL if and only if it is NULL, whatever
\* the slots held before; except that
\*   - a text that needs more than two bytes for each of the server's is cut;
\*   - an empty text of a wide type is NULL;
\*   - so is a value of a length that looks like the indicator of NULL;
\*   - too long a text of a wide type panics.
NextExact ==
  got.how = "next" =>
    \/ Exact \/ CutText(got.row) \/ LooksNull(got.row) \/ TooWide(got.row)
    \/ got.null /\ Wide(col.stype) /\ got.row.data = <<>>

\* ReadBatch gives the values Next gives, in any destination that suits the
\* column, whether it is bound or not; except that an empty text of a wide type
\* is NULL only if it is not bound, and that a []byte gets a bound text of a
\* wide type in UTF-16.
BatchExact ==
  got.how = "batch" =>
    \/ Exact \/ CutText(got.row) \/ LooksNull(got.row) \/ TooWide(got.row)
    \/ got.null /\ Wide(col.stype) /\ got.row.data = <<>> /\ ~got.bound
    \/ ~got.null /\ Wide(col.stype) /\ got.bound
         /\ got.value = Copy(Of("bytes", got.row.data))

\* What the memory of the value read last holds now.
Held == IF got.value.slot = 0 THEN got.value.val
        ELSE SubSeq(slots[got.value.slot].bytes, 1, Len(got.value.val))

\* What was read stays the same when later rowsets overwrite the buffers, in the
\* slices of a batch as well as in a value of Next; except that Next hands out
\* the buffer itself for a bound column of CHAR, decimals excepted, or BINARY.
ReadStays ==
  [][got' = got =>
       \/ Held' = Held
       \/ got.how = "next" /\ got.bound /\ CType(col.stype) \in {"CHAR", "BINARY"}
          /\ ~Decimal(col.stype)]_columnVars
==============================================================================
