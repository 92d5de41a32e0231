----------------------------- MODULE ParamValues -----------------------------
(***************************************************************************)
(* The value of one parameter on its way to the server and back: strings   *)
(* and arrays of strings in BindValue (param.go), and an sql.Out           *)
(* (sqlOut.go) with the buffer newOut allocates for it, what the CLI       *)
(* leaves there, and what ConvertAssign stores in the client's variable.   *)
(* Numbers are given in halves, so that 1 is one half; a time is a number; *)
(* texts are runes or UTF-16 units, what is in memory is bytes.            *)
(***************************************************************************)
EXTENDS TextEncoding, FiniteSets

CONSTANTS ParamTypes,  \* the parameters considered: [stype, size]
          DestTypes,   \* Go types of the variables of sql.Out
          Strings,     \* the client's strings
          IntNumerals, \* the number of each text that ParseInt takes
          FloatNumerals \* the number of each text that ParseFloat takes

GoTypes == {"string", "bytes", "int8", "int64", "float64", "bool", "time", "interface"}

VARIABLES param,       \* [stype, size, mode, dest: type of the variable, nilDest: a nil pointer]
          before,      \* the argument, or the variable before the call
          buf,         \* the buffer that is bound
          sent,        \* what the server got, or what it set the parameter to
          variable,    \* the variable of an sql.Out
          pc           \* "new", "bound", "executed", or how the call ended

paramVars == <<param, before, buf, sent, variable, pc>>

Modes == {"in", "array", "inout", "out"}

------------------------------------------------------------------------------
\* SqltoCtype; the types it does not know make it panic.
SqltoCtype(t) ==
  CASE t = "BIT" -> "BIT"
    [] t = "INTEGER" -> "LONG"
    [] t = "BIGINT" -> "SBIGINT"
    [] t \in {"DECIMAL", "DOUBLE"} -> "DOUBLE"
    [] t \in {"TIMESTAMP", "DATE", "TIME"} -> t
    [] t \in {"CHAR", "VARCHAR", "CLOB"} -> "CHAR"
    [] t \in {"WCHAR", "WVARCHAR"} -> "WCHAR"
    [] t \in {"BINARY", "VARBINARY", "BLOB"} -> "BINARY"
    [] t = "DBCLOB" -> "DBCHAR"
    [] OTHER -> "panic"                 \* BOOLEAN, DECFLOAT, XML, ...

Texts == {"CHAR", "WCHAR", "DBCHAR", "BINARY"}
Times == {"TIMESTAMP", "DATE", "TIME"}

\* Db2 gives every number and time a size; no numeral is empty or has a NUL.
ASSUME ParamValuesAssumption ==
  /\ ParamTypes \subseteq [stype : STRING, size : Nat] /\ DestTypes \subseteq GoTypes
  /\ \A p \in ParamTypes : SqltoCtype(p.stype) \notin Texts => p.size > 0
  /\ Strings \subseteq Seq(Nat)
  /\ \A s \in DOMAIN IntNumerals \cup DOMAIN FloatNumerals :
       s \in Seq(Bytes) /\ s /= <<>> /\ \A i \in DOMAIN s : s[i] /= 0
  /\ \A s \in DOMAIN IntNumerals : IntNumerals[s] \in Int

\* Bytes the CLI writes for a type of fixed size, whatever it is told of the buffer.
Width(ctype) == CASE ctype = "BIT" -> 1
                  [] ctype = "LONG" -> 4
                  [] ctype \in {"SBIGINT", "DOUBLE"} -> 8
                  [] ctype = "TIMESTAMP" -> 16
                  [] ctype \in {"DATE", "TIME"} -> 6
                  [] OTHER -> 0

Cut(bs, n) == SubSeq(bs, 1, Min({Len(bs), n}))
Padded(bs, n) == bs \o Zeros(n - Len(bs))

\* The procedure's values of a parameter, without NULL: numbers, times, or texts.
Numbers(t) == CASE t \in {"BIT", "BOOLEAN"} -> {0, 2}
                [] t \in {"INTEGER", "BIGINT"} -> {0, 10, 400, 2000000}
                [] t \in {"DECIMAL", "DOUBLE"} -> {0, 1, 10, 400, 1999998, 2000000}
                [] OTHER -> {}

\* What the CLI makes of the value for the C type of the buffer: a text in
\* runes, or in units for a wide type.
ServerValues(p, ctype) ==
  CASE SqltoCtype(p.stype) = "CHAR" ->
         {Of("text", IF ctype = "CHAR" THEN s ELSE Utf16(s)) : s \in {x \in CharTexts : Len(x) <= p.size}}
    [] SqltoCtype(p.stype) \in {"WCHAR", "DBCHAR"} ->
         {Of("text", s) : s \in {x \in WideTexts : Len(x) <= p.size}}
    [] SqltoCtype(p.stype) = "BINARY" ->
         {Of("binary", s) : s \in {x \in Binaries : Len(x) <= p.size}}
    [] SqltoCtype(p.stype) \in Times -> {Of("time", 18)}
    [] OTHER -> {Of("number", n) : n \in Numbers(p.stype)}

Encoded(v, ctype) == CASE v.kind = "binary" -> v.val
                       [] ctype = "CHAR" -> Utf8(v.val)
                       [] ctype = "WCHAR" -> LittleEndian(v.val)
                       [] OTHER -> BigEndian(v.val)

\* The driver.Value of a variable passed for INOUT, with the parameters it suits.
Suits(d, t) ==
  CASE d = "string" -> SqltoCtype(t) \in {"CHAR", "WCHAR"}
    [] d = "bytes" -> SqltoCtype(t) = "BINARY"
    [] d \in {"int8", "int64"} -> t \in {"INTEGER", "BIGINT"}
    [] d = "float64" -> t \in {"DECIMAL", "DOUBLE"}
    [] d = "bool" -> t \in {"BIT", "BOOLEAN"}
    [] d = "time" -> t = "TIMESTAMP"
    [] OTHER -> TRUE
Before(d) == CASE d \in {"string", "bytes"} -> {Of(d, <<>>), Of(d, <<97, 98>>)}
               [] d \in {"int8", "int64", "float64", "time"} -> {Of(d, 6)}
               [] d = "bool" -> {Of(d, 2)}
               [] OTHER -> {Nil}

NoBuffer == [ctype |-> "none", size |-> 0, data |-> <<>>, fixed |-> 0, overrun |-> FALSE]

InitIn(p) ==
  /\ \E mode \in {"in", "array"} :
       param = [stype |-> p.stype, size |-> p.size, mode |-> mode, dest |-> "none", nilDest |-> FALSE]
  /\ \/ param.mode = "in" /\ \E s \in Strings : before = Of("string", s)
     \/ param.mode = "array" /\ \E s, t \in Strings : before = Of("strings", <<s, t>>)

InitOut(p) ==
  /\ \E mode \in {"inout", "out"}, d \in DestTypes, nilDest \in BOOLEAN :
       /\ mode = "inout" /\ ~nilDest => Suits(d, p.stype)
       /\ param = [stype |-> p.stype, size |-> p.size, mode |-> mode, dest |-> d, nilDest |-> nilDest]
  /\ before \in Before(param.dest)

ParamInit ==
        /\ \E p \in ParamTypes : IF p.stype = "WVARCHAR" THEN InitIn(p) \/ InitOut(p) ELSE InitOut(p)
        /\ buf = NoBuffer /\ sent = Nil /\ variable = before /\ pc = "new"

------------------------------------------------------------------------------
Buffer(ctype, n, bs) == [NoBuffer EXCEPT !.ctype = ctype, !.size = n, !.data = Padded(bs, n)]
Number(ctype, v) == [NoBuffer EXCEPT !.ctype = ctype, !.size = Width(ctype), !.fixed = v]

\* BindValue of a string: its units, and the length of those before the NUL.  On
\* z/OS there is no NUL, and no first unit of an empty string.
BindString ==
  /\ pc = "new" /\ param.mode = "in"
  /\ \E zos \in BOOLEAN :
       LET units == StringToUTF16(before.val, zos)
       IN  \/ units = <<>> /\ pc' = "panic" /\ UNCHANGED buf
           \/ /\ units /= <<>> /\ pc' = "bound"
              /\ buf' = Buffer("WCHAR", 2 * Len(units) - (IF zos THEN 0 ELSE 2), LittleEndian(units))
  /\ UNCHANGED <<param, before, sent, variable>>

\* Fault variant: no room for the NUL.
MaxLenBytes(strings) == Max({Len(Utf8(strings[i])) : i \in DOMAIN strings})

\* BindValue of a []string: the length in bytes of the longest, and a NUL.
MaxLen(strings) == 1 + Max({Len(Utf8(strings[i])) : i \in DOMAIN strings})

\* On z/OS the units have no NUL of their own before they are padded.
BindStrings ==
  /\ pc = "new" /\ param.mode = "array"
  /\ \E zos \in BOOLEAN :
       LET n == MaxLen(before.val)
           Filled(s) == LET u == StringToUTF16(s, zos) IN IF Len(u) < n THEN Padded(u, n) ELSE u
           units == FlattenSeq([i \in DOMAIN before.val |-> Filled(before.val[i])])
       IN  buf' = Buffer("WCHAR", 2 * n, LittleEndian(units))
  /\ pc' = "bound"
  /\ UNCHANGED <<param, before, sent, variable>>

\* SQLExecute reads a value of the length it was told, and each element of an
\* array up to a NUL, every size bytes.
ReadIn ==
  /\ pc = "bound" /\ param.mode \in {"in", "array"}
  /\ LET Slot(i) == FromLittleEndian(SubSeq(buf.data, (i - 1) * buf.size + 1, i * buf.size))
     IN  sent' = IF param.mode = "in" THEN Of("text", FromLittleEndian(SubSeq(buf.data, 1, buf.size)))
                 ELSE Of("texts", [i \in DOMAIN before.val |-> UpToNul(Slot(i))])
  /\ pc' = "done"
  /\ UNCHANGED <<param, before, buf, variable>>

\* Fault variant: no byte for the terminator.
BufferOutTight == Buffer(SqltoCtype(param.stype), param.size, <<>>)

\* newOut for OUT: the size of the parameter and a byte for a terminator.
BufferOut == Buffer(SqltoCtype(param.stype), param.size + 1, <<>>)

\* newOut for INOUT: a nil has a buffer of the parameter's size, a string one
\* of two bytes a character, anything else that of its own value.
BufferInOut ==
  IF param.nilDest \/ before = Nil THEN Buffer(SqltoCtype(param.stype), param.size, <<>>)
  ELSE CASE before.kind = "string" ->
              Buffer("WCHAR", param.size * 2 + 2, ExtractUTF16Str(StringToUTF16(before.val, FALSE)))
         [] before.kind = "bytes" -> Buffer("BINARY", Len(before.val), before.val)
         [] before.kind \in {"int8", "int64"} -> Number("SBIGINT", before.val)
         [] before.kind = "float64" -> Number("DOUBLE", before.val)
         [] before.kind = "bool" -> Number("BIT", before.val)
         [] OTHER -> Number("TIMESTAMP", before.val)

Ends(how) == pc' = how /\ UNCHANGED <<buf, variable, sent>>

TooLong == /\ param.mode = "inout" /\ ~param.nilDest /\ before.kind = "string"
           /\ 2 * (Len(before.val) + 1) > param.size * 2 + 2

\* SQLDescribeParam may fail, too.
newOut ==
  /\ pc = "new" /\ param.mode \in {"inout", "out"}
  /\ \/ /\ SqltoCtype(param.stype) = "panic"
        /\ param.mode = "out" \/ param.nilDest \/ before = Nil
        /\ Ends("panic")
     \/ Ends("refused")
     \/ /\ ~TooLong
        /\ buf' = IF param.mode = "inout" THEN BufferInOut ELSE BufferOut
        /\ buf'.ctype /= "panic"
        /\ pc' = "bound"
        /\ UNCHANGED <<sent, variable>>
  /\ UNCHANGED <<param, before>>

\* SQLExecute.  A NULL is told by the indicator only; a value that does not
\* fit beside its terminator is cut; one of fixed size is written in any case.
Execute ==
  /\ pc = "bound" /\ param.mode \in {"inout", "out"}
  /\ sent' \in ServerValues(param, buf.ctype) \cup {Nil}
  /\ buf' =
       IF sent' = Nil THEN buf
       ELSE IF buf.ctype \notin Texts
         THEN [buf EXCEPT !.fixed = sent'.val, !.overrun = Width(buf.ctype) > buf.size]
       ELSE LET t == Terminator(buf.ctype)
                room == Max({0, buf.size - Len(t)})
                whole == Encoded(sent', buf.ctype)
                even == IF Len(t) = 2 THEN room - (room % 2) ELSE room
                new == Cut(Cut(whole, even) \o t, buf.size)
            IN  [buf EXCEPT !.data = new \o SubSeq(@, Len(new) + 1, buf.size)]
  /\ pc' = "executed"
  /\ UNCHANGED <<param, before, variable>>

\* bytes.Trim(buf, "\x00")
Trim(bs) ==
  LET kept == {i \in DOMAIN bs : bs[i] /= 0}
  IN  IF kept = {} THEN <<>> ELSE SubSeq(bs, Min(kept), Max(kept))

\* Out.Value.  The indicator is not looked at.
OutValue ==
  CASE buf.ctype = "BIT" -> Of("bool", buf.fixed)
    [] buf.ctype = "LONG" -> Of("int32", buf.fixed)
    [] buf.ctype = "SBIGINT" -> Of("int64", buf.fixed)
    [] buf.ctype = "DOUBLE" -> Of("float64", buf.fixed)
    [] buf.ctype = "CHAR" -> Of("bytes", Trim(buf.data))
    [] buf.ctype \in {"WCHAR", "DBCHAR"} -> WideValue(buf.ctype, buf.data)
    [] buf.ctype = "BINARY" -> Of("bytes", buf.data)
    [] OTHER -> Of("time", buf.fixed)

------------------------------------------------------------------------------
Integral(n) == n % 2 = 0
IntRange(d) == IF d = "int8" THEN -256 .. 254 ELSE Int

\* Does asString give a numeral that ParseInt takes?  A float64 has an exponent
\* from a million on.
IntegerNumeral(src) ==
  \/ src.kind \in {"int32", "int64"}
  \/ src.kind = "float64" /\ Integral(src.val) /\ src.val < 2000000

Stored(v) == [how |-> "ok", val |-> v]
Failed(how) == [how |-> how, val |-> Nil]

\* A value through a pointer that may be nil, where this is looked at or not.
Checked(v) == IF param.nilDest THEN Failed("error") ELSE Stored(v)
Unchecked(v) == IF param.nilDest THEN Failed("panic") ELSE Stored(v)

\* ConvertAssign of the value Out.Value returned, if it did not panic.  Text is
\* parsed for a number.  A number or a time stored in a string or []byte is its text,
\* here the number itself.
ConvertAssign(d, src) ==
  CASE src.kind = "panic" -> Failed("panic")
    [] src.kind = "bytes" /\ d \in {"string", "bytes", "interface"} -> Checked(Of(d, src.val))
    [] src.kind = "bytes" /\ d \in {"int8", "int64"} /\ src.val \in DOMAIN IntNumerals
         /\ IntNumerals[src.val] \in IntRange(d) -> Checked(Of(d, IntNumerals[src.val]))
    [] src.kind = "bytes" /\ d = "float64" /\ src.val \in DOMAIN FloatNumerals ->
         Checked(Of(d, FloatNumerals[src.val]))
    [] src.kind = "time" /\ d = "bytes" -> Checked(Of("text", src.val))
    [] src.kind = "time" /\ d = "string" -> Unchecked(Of("text", src.val))
    [] src.kind = "time" /\ d = "time" -> Unchecked(src)
    [] src.kind = "nil" /\ d \in {"interface", "bytes"} -> Checked(Nil)
    [] src.kind \in {"bool", "int32", "int64", "float64"} /\ d \in {"string", "bytes"} ->
         Unchecked(Of("text", src.val))
    [] src.kind \in {"bool", "int32", "int64", "float64", "time"} /\ d = "interface" ->
         Unchecked(src)
    [] src.kind = d /\ d \in {"bool", "int64", "float64"} -> Checked(src)
    [] d \in {"int8", "int64"} /\ src.kind /= d /\ IntegerNumeral(src)
         /\ src.val \in IntRange(d) -> Checked(Of(d, src.val))
    [] d = "float64" /\ src.kind \in {"int32", "int64"} -> Checked(Of(d, src.val))
    [] OTHER -> Failed("error")

Assign ==
  /\ pc = "executed"
  /\ LET r == ConvertAssign(param.dest, OutValue)
     IN  /\ pc' = r.how
         /\ variable' = IF r.how = "ok" THEN r.val ELSE variable
  /\ UNCHANGED <<param, before, buf, sent>>

ParamNext == BindString \/ BindStrings \/ ReadIn \/ newOut \/ Execute \/ Assign

ParamSpec == ParamInit /\ [][ParamNext]_paramVars

------------------------------------------------------------------------------
\* The server gets a string as it is, and each element of an array of strings
\* as it is up to a NUL, whatever the lengths of the others; except that an empty
\* string panics on z/OS.
StringsArrive ==
  /\ pc = "done" =>
       IF param.mode = "in" THEN sent.val = Utf16(before.val)
       ELSE sent.val = [i \in DOMAIN before.val |-> UpToNul(Utf16(before.val[i]))]
  /\ pc = "panic" /\ param.mode = "in" => before.val = <<>>
  /\ pc = "panic" => param.mode /= "array"

\* What the value v of the server stands for.
Meaning(v) == CASE v.kind = "text" /\ buf.ctype = "CHAR" -> Utf8(v.val)
                [] v.kind = "text" /\ buf.ctype /= "CHAR" -> Text(v.val)
                [] OTHER -> v.val
Meant == Meaning(sent)

\* What the variable should hold of x: itself, or the number it is a numeral of.
Taken(x) ==
  CASE buf.ctype \in Texts /\ param.dest \in {"int8", "int64"} ->
         {IntNumerals[s] : s \in {x} \cap DOMAIN IntNumerals}
    [] buf.ctype \in Texts /\ param.dest = "float64" ->
         {FloatNumerals[s] : s \in {x} \cap DOMAIN FloatNumerals}
    [] OTHER -> {x}

\* Values for which there is no room: the text of an OUT parameter when it has
\* more bytes than the type has characters, the wide text of one when it has more
\* than half the characters of the type, a text that fills the type when nil was
\* passed in, one with more units than the type has characters when a string was,
\* binary data longer than what was passed in.
NoRoom ==
  LET n == Len(Encoded(sent, buf.ctype))
      wide == Len(Terminator(buf.ctype)) = 2
  IN  \/ param.mode = "out" /\ buf.ctype /= "BINARY" /\ n > param.size - (IF wide THEN 1 ELSE 0)
      \/ /\ param.mode = "inout" /\ (param.nilDest \/ before = Nil)
         /\ buf.ctype /= "BINARY" /\ n >= param.size - (IF wide THEN 1 ELSE 0)
      \/ param.mode = "inout" /\ before.kind = "string" /\ n > 2 * param.size
      \/ param.mode = "inout" /\ before.kind = "bytes" /\ n > Len(before.val)

\* What is left of a text that is cut: bytes of CHAR, units of a wide type.
CutMeaning(n) == IF buf.ctype = "CHAR" THEN Cut(Meant, n)
                 ELSE Meaning([sent EXCEPT !.val = Cut(@, n)])

\* Can the variable hold the value?
Numeric == sent.kind = "number" /\ buf.ctype /= "BIT"
Numeral(f) == sent.kind = "text" /\ Meant \in DOMAIN f
Holds == CASE param.dest \in {"int8", "int64"} ->
                \/ Numeric /\ Integral(sent.val) /\ sent.val \in IntRange(param.dest)
                \/ Numeral(IntNumerals) /\ IntNumerals[Meant] \in IntRange(param.dest)
           [] param.dest = "float64" -> Numeric \/ Numeral(FloatNumerals)
           [] param.dest = "bool" -> buf.ctype = "BIT"
           [] param.dest = "time" -> sent.kind = "time"
           [] OTHER -> TRUE

\* When Exec has returned nil the variable holds what the procedure set the
\* parameter to; except that
\*   - NULL is what the variable held before (INOUT), or zero (OUT);
\*   - a value for which there is no room is cut;
\*   - binary data has the length of the buffer;
\*   - CHAR data loses NULs at its ends;
\*   - a DECIMAL of few digits is written past its buffer.
\* When it has failed the variable cannot hold the value; except that a float64
\* of a million or more is no integer, and what is left of a cut text no number.
\* It panics only for a type it does not know, a nil pointer, or a buffer of a
\* wide type that is longer than MaxElements.
OutExact ==
  /\ pc = "ok" /\ sent = Nil =>
       IF param.mode = "inout" /\ before /= Nil THEN variable = before
       ELSE IF buf.ctype \in Texts THEN variable.val \in {<<>>, Zeros(buf.size)}
       ELSE variable.val = 0
  /\ pc = "ok" /\ sent /= Nil =>
       \/ variable.val \in Taken(Meant)
       \/ /\ buf.ctype \in Texts /\ NoRoom
          /\ \E n \in 0 .. Len(Encoded(sent, buf.ctype)) :
               \/ variable.val \in Taken(CutMeaning(n))
               \/ buf.ctype = "CHAR" /\ variable.val \in Taken(Trim(CutMeaning(n)))
       \/ buf.ctype = "BINARY" /\ Cut(variable.val, Len(Meant)) = Meant
       \/ buf.ctype = "CHAR" /\ variable.val \in Taken(Trim(Meant))
       \/ buf.overrun
  /\ pc = "error" =>
       \/ ~Holds \/ param.nilDest \/ sent = Nil
       \/ buf.ctype = "DOUBLE" /\ sent.val >= 2000000 /\ param.dest \in {"int8", "int64"}
       \/ buf.ctype \in Texts /\ NoRoom
  /\ pc = "panic" /\ param.mode \in {"inout", "out"} =>
       \/ param.nilDest \/ SqltoCtype(param.stype) = "panic"
       \/ buf.ctype \in {"WCHAR", "DBCHAR"} /\ Elements(buf.ctype, buf.data) > MaxElements
==============================================================================
