----------------------------- MODULE ValuesProofs -----------------------------
(***************************************************************************)
(* Proofs about the values on their way between the client and the CLI, of *)
(* any length and in any number: long values (GetData), parameters and the *)
(* Outs (ParamBinding), the values of columns (ColumnValues) and those of  *)
(* parameters (ParamValues).  Each part has an inductive invariant, shown  *)
(* for one action after the other, and at its end the theorems that follow *)
(* from it.  The lemmas on sequences and on text are in SequenceLemmas.    *)
(***************************************************************************)
EXTENDS GetData, ColumnValues, ParamBinding, ParamValues, SequenceLemmas, TLAPS

------------------------------------------------------------------------------
(***************************************************************************)
(* GetData: the value is assembled byte for byte, and NULL is confused     *)
(* only with the lengths named.  That the loop ends is left to TLC.        *)
(***************************************************************************)

\* What is NULL has no bytes; what is being read is not read whole; and all
\* lengths of a wide type are even.
ReadInv ==
  /\ value = SQL_NULL_DATA => read = 0
  /\ result /= "nil" => read = total
  /\ ctype \in WideTypes => /\ value /= SQL_NULL_DATA => value % 2 = 0
                            /\ read % 2 = 0 /\ bufLen % 2 = 0

\* The buffer grows with the first chunk at the earliest, which leaves no more
\* to read than it has room for; NULL is as GetData says.
NilInv ==
  /\ result = "reading" /\ bufLen > 1024 => read >= 1024 - TerminatorLen
  /\ result = "nil" /\ value /= SQL_NULL_DATA => value >= 65535 + 1023
  /\ result = "value" => value /= SQL_NULL_DATA /\ total = value

\* The inductive invariant.
DataInv == DataTypeOK /\ exact = TRUE /\ ReadInv /\ NilInv

LEMMA DataStart == DataInit => DataInv
  <1> SUFFICES ASSUME DataInit PROVE DataInv
    OBVIOUS
  <1> USE LengthsAssumption DEF DataInit, SQL_NULL_DATA, SQL_NO_TOTAL
  <1>1. value \in Int /\ (value /= -1 => value \in Nat)
    OBVIOUS
  <1>2. DataTypeOK
    BY <1>1 DEF DataTypeOK
  <1>3. ReadInv
    BY <1>1 DEF ReadInv
  <1>4. NilInv
    BY DEF NilInv
  <1> QED BY <1>2, <1>3, <1>4 DEF DataInv

------------------------------------------------------------------------------
LEMMA TerminatorWidth ==
  ASSUME ctype \in CTypes
  PROVE  /\ TerminatorLen \in 0 .. 2
         /\ ctype \in WideTypes => TerminatorLen = 2
         /\ ctype \notin WideTypes => TerminatorLen <= 1
  BY DEF CTypes, WideTypes, TerminatorLen

\* A buffer of even length is filled to its terminator by a wide type, too.
LEMMA FitsIsChunkLen ==
  ASSUME DataInv
  PROVE  /\ Fits = ChunkLen /\ ChunkLen \in Nat /\ ChunkLen >= 1022
         /\ ctype \in WideTypes => ChunkLen % 2 = 0
  <1>1. bufLen \in Nat /\ bufLen >= 1024 /\ ctype \in CTypes
    BY DEF DataInv, DataTypeOK
  <1>2. CASE ctype \in WideTypes
    <2>1. bufLen % 2 = 0 /\ TerminatorLen = 2
      BY <1>1, <1>2, TerminatorWidth DEF DataInv, ReadInv
    <2>2. ((bufLen - 2) \div 2) * 2 = bufLen - 2 /\ (bufLen - 2) % 2 = 0
      BY <1>1, <2>1
    <2> QED BY <1>1, <1>2, <2>1, <2>2 DEF Fits, ChunkLen
  <1>3. CASE ctype \notin WideTypes
    BY <1>1, <1>3, TerminatorWidth DEF Fits, ChunkLen
  <1> QED BY <1>2, <1>3

\* In 16 bits only 65535, and what is a multiple of 65536 more, is -1.
LEMMA NullBits == \A n \in Nat : IsNull(n) => (n + 32768) % 65536 = 32767
  BY DEF IsNull, Int16, SQL_NULL_DATA

LEMMA NullLong == \A n \in Nat : IsNull(n) => n >= 65535
  BY NullBits

LEMMA NullOdd == \A n \in Nat : IsNull(n) => n % 2 /= 0
  BY NullBits

LEMMA ValueType == DataInv => /\ value \in Int /\ (value /= SQL_NULL_DATA => value \in Nat)
                              /\ read \in Nat /\ total \in Nat
                              /\ value /= SQL_NULL_DATA => read <= value
  BY LengthsAssumption DEF DataInv, DataTypeOK, SQL_NULL_DATA

LEMMA LastStep == DataInv /\ LastChunk => DataInv'
  <1> SUFFICES ASSUME DataInv, LastChunk PROVE DataInv'
    OBVIOUS
  <1>1. /\ value' = value /\ ctype' = ctype /\ bufLen' = bufLen /\ untold' = untold
        /\ even' = ~even /\ result = "reading"
    BY DEF LastChunk
  <1>2. CASE value = SQL_NULL_DATA
    <2>1. indicator' = -1 /\ read' = read
      BY <1>2, ValueType DEF LastChunk, SQL_NULL_DATA
    <2>2. IsNull(indicator')
      BY <2>1 DEF IsNull, Int16, SQL_NULL_DATA
    <2>3. result' = "nil" /\ total' = total /\ exact' = exact
      BY <2>2 DEF LastChunk
    <2> QED BY <1>1, <1>2, <2>1, <2>3 DEF DataInv, DataTypeOK, ReadInv, NilInv, WideTypes, CTypes
  <1>3. CASE value /= SQL_NULL_DATA
    <2>1. indicator' = value - read /\ read' = value /\ value - read <= Fits
      BY <1>3 DEF LastChunk, Left
    <2>2. indicator' \in Nat /\ value \in Nat /\ read \in Nat /\ bufLen \in Nat
      BY <1>3, <2>1, ValueType DEF DataInv, DataTypeOK
    <2>3. CASE IsNull(indicator')
      <3>1. result' = "nil" /\ total' = total /\ exact' = exact
        BY <2>3 DEF LastChunk
      <3>2. indicator' >= 65535
        BY <2>2, <2>3, NullLong
      <3>3. bufLen > 1024
        <4>1. Fits = bufLen - TerminatorLen /\ TerminatorLen \in 0 .. 2
          BY FitsIsChunkLen, TerminatorWidth DEF ChunkLen, DataInv, DataTypeOK
        <4> QED BY <2>1, <2>2, <3>2, <4>1
      <3>4. read >= 1024 - TerminatorLen
        BY <1>1, <3>3 DEF DataInv, NilInv
      <3>5. ctype \notin WideTypes
        <4>1. ctype \in WideTypes => value % 2 = 0 /\ read % 2 = 0
          BY <1>3 DEF DataInv, ReadInv
        <4>2. indicator' % 2 /= 0
          BY <2>2, <2>3, NullOdd
        <4> QED BY <2>1, <2>2, <4>1, <4>2
      <3>6. TerminatorLen \in 0 .. 1
        BY <3>5, TerminatorWidth DEF DataInv, DataTypeOK
      <3>7. value >= 65535 + 1023
        BY <2>1, <2>2, <3>2, <3>4, <3>6
      <3>8. DataTypeOK'
        <4>1. total \in 0 .. IF value > 0 THEN value ELSE 0
          BY DEF DataInv, DataTypeOK
        <4> QED BY <1>1, <2>1, <2>2, <3>1, <4>1 DEF DataInv, DataTypeOK, CTypes
      <3>9. ReadInv'
        BY <1>1, <1>3, <2>1, <3>1, <3>5 DEF ReadInv, WideTypes
      <3>10. NilInv'
        BY <1>1, <3>1, <3>7 DEF NilInv
      <3> QED BY <3>1, <3>8, <3>9, <3>10 DEF DataInv
    <2>4. CASE ~IsNull(indicator')
      <3>1. result' = "value" /\ total' = total + indicator' /\ exact' = (exact /\ total' = read')
        BY <2>4 DEF LastChunk
      <3>2. read = total
        BY <1>1 DEF DataInv, ReadInv
      <3>3. total' = value
        BY <3>1, <3>2, <2>1, <2>2
      <3>4. exact' = TRUE
        <4>1. exact = TRUE
          BY DEF DataInv
        <4> QED BY <2>1, <3>1, <3>3, <4>1, Zenon
      <3>5. DataTypeOK'
        BY <1>1, <2>1, <2>2, <3>1, <3>3, <3>4 DEF DataInv, DataTypeOK, CTypes
      <3>6. ReadInv'
        BY <1>1, <1>3, <2>1, <2>2, <3>3 DEF DataInv, ReadInv, WideTypes
      <3>7. NilInv'
        BY <1>1, <1>3, <3>1, <3>3 DEF NilInv
      <3> QED BY <3>4, <3>5, <3>6, <3>7 DEF DataInv
    <2> QED BY <2>3, <2>4
  <1> QED BY <1>2, <1>3

LEMMA ChunkStep == DataInv /\ Chunk => DataInv'
  <1> SUFFICES ASSUME DataInv, Chunk PROVE DataInv'
    OBVIOUS
  <1>1. /\ value' = value /\ ctype' = ctype /\ result' = result /\ result = "reading"
        /\ even' = ~even /\ value /= SQL_NULL_DATA
        /\ read' = read + Fits /\ total' = total + ChunkLen /\ value - read > Fits
        /\ exact' = (exact /\ total' = read')
    BY DEF Chunk, Left
  <1>2. value \in Nat /\ read \in Nat /\ bufLen \in Nat /\ bufLen >= 1024 /\ ctype \in CTypes
    BY <1>1, ValueType DEF DataInv, DataTypeOK
  <1>3. /\ Fits = ChunkLen /\ ChunkLen \in Nat /\ ChunkLen >= 1022
        /\ ctype \in WideTypes => ChunkLen % 2 = 0
    BY FitsIsChunkLen
  <1>4. ChunkLen = bufLen - TerminatorLen /\ TerminatorLen \in 0 .. 2
    BY <1>2, TerminatorWidth DEF ChunkLen
  <1>5. read = total
    BY <1>1 DEF DataInv, ReadInv
  <1>6. read' = read + ChunkLen /\ total' = read' /\ read' \in Nat /\ read' < value
    BY <1>1, <1>2, <1>3, <1>5
  <1>7. exact' = TRUE
    <2>1. exact = TRUE
      BY DEF DataInv
    <2> QED BY <1>1, <1>6, <2>1, Zenon
  <1>8. /\ indicator' \in Int /\ bufLen' \in Nat /\ bufLen' >= 1024
        /\ untold' \in 0 .. MaxNoTotal
        /\ ctype \in WideTypes => bufLen' % 2 = 0
    <2>1. untold \in 0 .. MaxNoTotal /\ (ctype \in WideTypes => bufLen % 2 = 0)
      BY DEF DataInv, DataTypeOK, ReadInv
    <2>2. CASE indicator' = Left /\ untold' = untold
               /\ bufLen' = IF bufLen < NextBufLen THEN NextBufLen ELSE bufLen
      <3>1. indicator' = value - read
        BY <2>2 DEF Left
      <3>2. NextBufLen = (value - read) - ChunkLen + 2
        BY <3>1 DEF NextBufLen
      <3>3. NextBufLen \in Int
        BY <1>2, <1>3, <3>2
      <3>4. ctype \in WideTypes => NextBufLen % 2 = 0
        <4> SUFFICES ASSUME ctype \in WideTypes PROVE NextBufLen % 2 = 0
          OBVIOUS
        <4>1. value % 2 = 0 /\ read % 2 = 0
          BY <1>1 DEF DataInv, ReadInv
        <4> QED BY <1>2, <1>3, <3>2, <4>1
      <3>5. bufLen' \in {bufLen, NextBufLen} /\ bufLen' \in Int /\ bufLen' >= bufLen
        BY <1>2, <2>2, <3>3
      <3> QED BY <1>2, <2>1, <2>2, <3>1, <3>3, <3>4, <3>5
    <2>3. CASE untold < MaxNoTotal /\ indicator' = SQL_NO_TOTAL
               /\ untold' = untold + 1 /\ bufLen' = bufLen
      BY <1>2, <2>1, <2>3, LengthsAssumption DEF SQL_NO_TOTAL
    <2> QED BY <2>2, <2>3 DEF Chunk
  <1>9. DataTypeOK'
    BY <1>1, <1>2, <1>6, <1>7, <1>8 DEF DataInv, DataTypeOK, CTypes
  <1>10. ReadInv'
    <2>1. ctype \in WideTypes => value % 2 = 0 /\ read % 2 = 0
      BY <1>1 DEF DataInv, ReadInv
    <2>2. ctype \in WideTypes => read' % 2 = 0
      BY <1>2, <1>3, <1>6, <2>1
    <2> QED BY <1>1, <1>6, <1>8, <2>1, <2>2 DEF ReadInv, WideTypes
  <1>11. NilInv'
    <2>1. TerminatorLen' = TerminatorLen
      BY <1>1 DEF TerminatorLen, WideTypes
    <2>2. read' >= 1024 - TerminatorLen
      BY <1>2, <1>4, <1>6
    <2> QED BY <1>1, <2>1, <2>2 DEF NilInv
  <1> QED BY <1>7, <1>9, <1>10, <1>11 DEF DataInv

LEMMA FailStep == DataInv /\ Fail => DataInv'
  <1> SUFFICES ASSUME DataInv, Fail PROVE DataInv'
    OBVIOUS
  <1>1. /\ result = "reading" /\ result' = "error" /\ even' = ~even
        /\ UNCHANGED <<value, ctype, bufLen, indicator, read, total, exact, untold>>
    BY DEF Fail
  <1>2. DataTypeOK'
    BY <1>1 DEF DataInv, DataTypeOK, CTypes
  <1>3. ReadInv' /\ NilInv'
    BY <1>1 DEF DataInv, ReadInv, NilInv, WideTypes
  <1> QED BY <1>1, <1>2, <1>3 DEF DataInv

LEMMA DataStutter == DataInv /\ UNCHANGED dataVars => DataInv'
  BY DEF dataVars, DataInv, DataTypeOK, ReadInv, NilInv, CTypes, WideTypes, TerminatorLen

------------------------------------------------------------------------------
\* DataInv holds in every state: it is kept by the last call of SQLGetData, by a
\* truncated one and by a failing one.
THEOREM DataInductive == DataSpec => []DataInv
  <1>1. DataInv /\ [DataNext]_dataVars => DataInv'
    BY LastStep, ChunkStep, FailStep, DataStutter DEF DataNext
  <1> QED BY DataStart, <1>1, PTL DEF DataSpec

\* The variables have their types: never is more read or assembled than the
\* value has.
THEOREM DataTypeCorrect == DataSpec => []DataTypeOK
  BY DataInductive, PTL DEF DataInv

\* The chunks of getDataChunked make the value, whatever its length and however
\* often the CLI does not tell what is left.
THEOREM ReadExactly == DataSpec => []AssembledExactly
  <1>1. DataInv => AssembledExactly
    BY DEF DataInv, NilInv, AssembledExactly
  <1> QED BY DataInductive, <1>1, PTL

\* Below 66558 bytes BaseColumn.Value makes nil of NULL and of an empty wide
\* value only.
THEOREM NullKnown == DataSpec => []NilExplained
  <1>1. DataInv => NilExplained
    <2> SUFFICES ASSUME DataInv PROVE NilExplained
      OBVIOUS
    <2>1. result = "value" => value /= SQL_NULL_DATA /\ total = value
      BY DEF DataInv, NilInv
    <2>2. result = "nil" /\ value /= SQL_NULL_DATA => value >= 65535 + 1023
      BY DEF DataInv, NilInv
    <2> QED BY <2>1, <2>2 DEF NilExplained, ValueIsNil
  <1> QED BY DataInductive, <1>1, PTL

------------------------------------------------------------------------------
(***************************************************************************)
(* ParamBinding: SQLExecute reads the arguments of its own call, and as    *)
(* many rows as they have, with the exceptions named there; and a          *)
(* destination gets the output of its own call, although the Outs of all   *)
(* calls are converted again.                                              *)
(***************************************************************************)

\* What calls leave behind: the size an earlier one has set, and SQL_NULL_DATA
\* where an earlier one had nil.
LeftBehind ==
  /\ execs \in Nat
  /\ paramset \in Nat /\ (~sized => paramset = 1)
  /\ isNull \in [Params -> BOOLEAN]
  /\ \A p \in Params : isNull[p] => p \in nils

\* What SQLExecute reads.
SentInv == LeftBehind /\ FreshBindings /\ RowsSent

LEMMA InitSent == BindingInit => SentInv
  <1> SUFFICES ASSUME BindingInit PROVE SentInv
    OBVIOUS
  <1>1. LeftBehind
    BY DEF BindingInit, LeftBehind
  <1>2. last.sent = 0
    BY DEF BindingInit
  <1>3. FreshBindings /\ RowsSent
    BY <1>2 DEF FreshBindings, RowsSent
  <1> QED BY <1>1, <1>3 DEF SentInv

------------------------------------------------------------------------------
LEMMA ArgFacts ==
  ASSUME NEW args \in Args, NEW p \in Params
  PROVE  args[p].len \in Nat /\ args[p].kind \in Kinds
  <1>1. args[p] \in ArgValues
    BY DEF Args
  <1>2. \A a \in ArgValues : a.len \in Nat /\ a.kind \in Kinds
    <2> SUFFICES ASSUME NEW a \in ArgValues PROVE a.len \in Nat /\ a.kind \in Kinds
      OBVIOUS
    <2>1. CASE a \in {Single(kind) : kind \in {"nil", "text", "number"}}
      BY <2>1 DEF Single, Kinds
    <2>2. CASE a \in [kind : {"numbers", "others"}, len : Lens, dest : {None}]
      BY <2>2, ParamBindingAssumption DEF Kinds
    <2>3. CASE a \in [kind : {"out"}, len : {1}, dest : Dests]
      BY <2>3 DEF Kinds
    <2> QED BY <2>1, <2>2, <2>3 DEF ArgValues
  <1> QED BY <1>1, <1>2

\* An indicator is SQL_NULL_DATA only if it was, or for a nil of this call.
LEMMA NullsKnown ==
  ASSUME SentInv, NEW args \in Args, NEW n, isNull' = NullUpTo(args, n),
         nils' = nils \cup { p \in Params : args[p].kind = "nil" }
  PROVE  /\ isNull' \in [Params -> BOOLEAN]
         /\ \A p \in Params : isNull'[p] => p \in nils'
  <1>1. isNull \in [Params -> BOOLEAN] /\ \A p \in Params : isNull[p] => p \in nils
    BY DEF SentInv, LeftBehind
  <1>2. \A p \in Params : \/ isNull'[p] = isNull[p]
                          \/ isNull'[p] = (args[p].kind = "nil")
    BY DEF NullUpTo
  <1>3. isNull' \in [Params -> BOOLEAN]
    <2>1. \A p \in Params : isNull'[p] \in BOOLEAN
      BY <1>1, <1>2
    <2> QED BY <2>1 DEF NullUpTo
  <1>4. \A p \in Params : isNull'[p] => isNull[p] \/ args[p].kind = "nil"
    BY <1>1, <1>2
  <1> QED BY <1>1, <1>3, <1>4

\* A call that sends nothing.
LEMMA NothingSent ==
  ASSUME SentInv, NEW args \in Args, NEW n, NEW how, isNull' = NullUpTo(args, n),
         Returns(args, how, 0), UNCHANGED <<paramset, sized>>
  PROVE  SentInv'
  <1>1. /\ execs' = execs + 1 /\ last'.sent = 0
        /\ nils' = nils \cup { p \in Params : args[p].kind = "nil" }
    BY DEF Returns
  <1>2. LeftBehind'
    BY <1>1, NullsKnown DEF SentInv, LeftBehind
  <1>3. FreshBindings' /\ RowsSent'
    BY <1>1 DEF FreshBindings, RowsSent
  <1> QED BY <1>2, <1>3 DEF SentInv

\* A call that reaches SQLExecute.
LEMMA Sent ==
  ASSUME SentInv, NEW args \in Args, NEW how, SetParamset(args),
         bindings' = BoundUpTo(args, NumParams), isNull' = NullUpTo(args, NumParams),
         Returns(args, how, paramset')
  PROVE  SentInv'
  <1>1. execs' = execs + 1 /\ nils' = nils \cup { p \in Params : args[p].kind = "nil" }
    BY DEF Returns
  <1>2. PICK junk \in SUBSET PastEnd(args) :
          last' = [args |-> args, result |-> how, sent |-> paramset',
                   nulls |-> IF paramset' > 0 THEN RightNulls(args) \cup junk ELSE {}]
    BY DEF Returns
  <1>3. /\ last'.args = args /\ last'.sent = paramset'
        /\ paramset' > 0 => last'.nulls = RightNulls(args) \cup junk
    BY <1>2
  <1>4. /\ isNull' \in [Params -> BOOLEAN]
        /\ \A p \in Params : isNull'[p] => p \in nils'
    BY <1>1, NullsKnown
  <1>5. HasArray(args) =>
          /\ sized' = TRUE /\ paramset' \in Nat
          /\ \A p \in Params : IsArray(args[p]) => args[p].len = paramset'
    <2> SUFFICES ASSUME HasArray(args)
                 PROVE  /\ sized' = TRUE /\ paramset' \in Nat
                        /\ \A p \in Params : IsArray(args[p]) => args[p].len = paramset'
      OBVIOUS
    <2> DEFINE first == CHOOSE p \in Params : IsArray(args[p])
    <2>1. first \in Params /\ IsArray(args[first])
      BY DEF HasArray
    <2> HIDE DEF first
    <2>2. paramset' = args[first].len
      BY DEF SetParamset, ArrayLength, first
    <2>3. SameLengths(args) /\ sized' = TRUE
      BY DEF SetParamset
    <2> QED BY <2>1, <2>2, <2>3, ArgFacts DEF SameLengths
  <1>6. ~HasArray(args) => paramset' = paramset /\ (sized' => sized) /\ (sized => sized')
    <2>1. sized' = (sized \/ HasArray(args))
      BY DEF SetParamset
    <2>2. ~HasArray(args) => paramset' = paramset
      BY DEF SetParamset
    <2> QED BY <2>1, <2>2, Zenon
  <1>7. LeftBehind'
    <2>1. execs \in Nat /\ paramset \in Nat /\ (~sized => paramset = 1)
      BY DEF SentInv, LeftBehind
    <2>2. paramset' \in Nat /\ (~sized' => paramset' = 1)
      BY <1>5, <1>6, <2>1
    <2> QED BY <1>1, <1>4, <2>1, <2>2 DEF LeftBehind
  <1>8. \A p \in Params : bindings'[p].call = execs' /\ bindings'[p].len = args[p].len
    BY <1>1 DEF BoundUpTo, Params
  <1>9. FreshBindings'
    BY <1>8 DEF FreshBindings
  <1>10. RowsSent'
    <2> SUFFICES ASSUME paramset' > 0
                 PROVE  /\ \A p \in Params : IsArray(args[p]) => bindings'[p].len = paramset'
                        /\ ~HasArray(args) /\ ~sized' => paramset' = 1
                        /\ \A p \in RightNulls(args) \cup junk :
                             \/ paramset' > WordsPerParameter /\ \E q \in nils' : q > p
                             \/ paramset' - 1 > (NumParams - p) * WordsPerParameter + WordsLeft
      BY <1>3 DEF RowsSent
    <2>1. \A p \in Params : IsArray(args[p]) => bindings'[p].len = paramset'
      BY <1>5, <1>8 DEF HasArray
    <2>2. ~HasArray(args) /\ ~sized' => paramset' = 1
      BY <1>7 DEF LeftBehind
    <2>3. ASSUME NEW p \in RightNulls(args)
          PROVE  paramset' > WordsPerParameter /\ \E q \in nils' : q > p
      <3>1. PICK q \in Params : q > p /\ isNull'[q] /\ (q - p) * WordsPerParameter < args[p].len
        BY DEF RightNulls
      <3>2. p \in Params /\ IsArray(args[p])
        BY DEF RightNulls, IsArray
      <3>3. args[p].len = paramset' /\ paramset' \in Nat
        BY <1>5, <3>2 DEF HasArray
      <3>4. PICK d \in Nat : d = q - p - 1
        BY <3>1, <3>2, ParamBindingAssumption DEF Params
      <3>5. q - p = d + 1
        BY <3>2, <3>4, ParamBindingAssumption DEF Params
      <3>6. (d + 1) * WordsPerParameter >= WordsPerParameter
        <4>1. WordsPerParameter \in Nat /\ d * WordsPerParameter \in Nat
          BY ParamBindingAssumption
        <4>2. (d + 1) * WordsPerParameter = d * WordsPerParameter + WordsPerParameter
          BY <4>1
        <4> QED BY <4>1, <4>2
      <3>7. paramset' > WordsPerParameter
        BY <3>1, <3>3, <3>5, <3>6, ParamBindingAssumption
      <3> QED BY <1>4, <3>1, <3>7
    <2>4. ASSUME NEW p \in junk
          PROVE  paramset' - 1 > (NumParams - p) * WordsPerParameter + WordsLeft
      <3>1. /\ p \in Params /\ IsArray(args[p])
            /\ args[p].len - 1 > (NumParams - p) * WordsPerParameter + WordsLeft
        BY DEF PastEnd, IsArray
      <3> QED BY <1>5, <3>1 DEF HasArray
    <2> QED BY <2>1, <2>2, <2>3, <2>4
  <1> QED BY <1>7, <1>9, <1>10 DEF SentInv

LEMMA SentStep == SentInv /\ Exec => SentInv'
  <1> SUFFICES ASSUME SentInv, Exec PROVE SentInv'
    OBVIOUS
  <1>1. PICK args \in Args : \/ ExecPanics(args) \/ ExecBindFails(args)
                             \/ ExecSizeFails(args) \/ ExecNothing(args) \/ ExecRuns(args)
    BY DEF Exec
  <1>2. CASE ExecPanics(args)
    BY <1>2, NothingSent DEF ExecPanics
  <1>3. CASE ExecBindFails(args)
    BY <1>3, NothingSent DEF ExecBindFails
  <1>4. CASE ExecSizeFails(args)
    BY <1>4, NothingSent DEF ExecSizeFails
  <1>5. CASE ExecNothing(args)
    BY <1>5, Sent DEF ExecNothing
  <1>6. CASE ExecRuns(args)
    <2>1. \E how : Returns(args, how, paramset')
      BY <1>6 DEF ExecRuns
    <2> QED BY <1>6, <2>1, Sent DEF ExecRuns
  <1> QED BY <1>1, <1>2, <1>3, <1>4, <1>5, <1>6

------------------------------------------------------------------------------
\* The Outs of a parameter are its own, their destinations were passed for it,
\* and a buffer is unwritten only if a call has ended early.
Entry == [dest : Dests, param : Params, call : Nat]
OutsKnown ==
  /\ execs \in Nat
  /\ outs \in [Params -> Seq(Entry)]
  /\ ever \in [Dests -> SUBSET Params]
  /\ \A p \in Params : \A i \in 1 .. Len(outs[p]) :
       /\ outs[p][i].param = p
       /\ p \in ever[outs[p][i].dest]
       /\ outs[p][i].call = 0 => lost

NewEntry(args, p, call) == [dest |-> args[p].dest, param |-> p, call |-> call]

\* An sql.Out has a destination.
LEMMA OutDest ==
  ASSUME NEW args \in Args, NEW p \in Params, IsOut(args[p])
  PROVE  args[p].dest \in Dests
  <1>1. args[p] \in ArgValues
    BY DEF Args
  <1>2. ASSUME NEW a \in ArgValues, IsOut(a) PROVE a.dest \in Dests
    BY <1>2 DEF ArgValues, IsOut, Single
  <1> QED BY <1>1, <1>2

\* What newOut adds to the Outs.
LEMMA OutsAdded ==
  ASSUME OutsKnown, NEW args \in Args, NEW n \in Int, NEW os, os = OutsUpTo(args, n),
         NEW p \in Params
  PROVE  /\ os[p] \in Seq(Entry)
         /\ \/ os[p] = outs[p] /\ ~(p <= n /\ IsOut(args[p]))
            \/ /\ p <= n /\ IsOut(args[p])
               /\ os[p] = Append(outs[p], NewEntry(args, p, 0))
  <1>1. outs[p] \in Seq(Entry)
    BY DEF OutsKnown
  <1>2. CASE p <= n /\ IsOut(args[p])
    <2>1. os[p] = Append(outs[p], NewEntry(args, p, 0))
      BY <1>2, Zenon DEF OutsUpTo, NewEntry
    <2>2. NewEntry(args, p, 0) \in Entry
      BY <1>2, OutDest DEF NewEntry, Entry
    <2>3. os[p] \in Seq(Entry)
      BY <1>1, <2>1, <2>2
    <2> QED BY <1>2, <2>1, <2>3
  <1>3. CASE ~(p <= n /\ IsOut(args[p]))
    <2>1. os[p] = outs[p]
      BY <1>3, Zenon DEF OutsUpTo
    <2> QED BY <1>1, <1>3, <2>1
  <1> QED BY <1>2, <1>3

\* A call's destinations are known afterwards.
LEMMA EverGrows ==
  ASSUME OutsKnown, NEW args \in Args,
         ever' = [d \in Dests |-> ever[d] \cup { p \in Params : args[p].dest = d }]
  PROVE  /\ ever' \in [Dests -> SUBSET Params]
         /\ \A d \in Dests : ever[d] \subseteq ever'[d]
         /\ \A p \in Params : args[p].dest \in Dests => p \in ever'[args[p].dest]
  BY DEF OutsKnown

\* A call that ends before its outputs are written.
LEMMA OutsEndEarly ==
  ASSUME OutsKnown, NEW args \in Args, NEW n \in Int, NEW how, NEW sentRows,
         outs' = OutsUpTo(args, n), Returns(args, how, sentRows),
         lost' = (lost \/ HasOut(args))
  PROVE  OutsKnown'
  <1>1. /\ execs' = execs + 1
        /\ ever' = [d \in Dests |-> ever[d] \cup { p \in Params : args[p].dest = d }]
    BY DEF Returns
  <1>2. outs' \in [Params -> Seq(Entry)]
    <2>1. \A p \in Params : outs'[p] \in Seq(Entry)
      BY OutsAdded
    <2> QED BY <2>1 DEF OutsUpTo
  <1>3. ASSUME NEW p \in Params, NEW i \in 1 .. Len(outs'[p])
        PROVE  /\ outs'[p][i].param = p
               /\ p \in ever'[outs'[p][i].dest]
               /\ outs'[p][i].call = 0 => lost'
    <2>1. outs[p] \in Seq(Entry) /\ Len(outs[p]) \in Nat
      BY DEF OutsKnown
    <2>2. ASSUME NEW j \in 1 .. Len(outs[p])
          PROVE  /\ outs[p][j].param = p
                 /\ p \in ever'[outs[p][j].dest]
                 /\ outs[p][j].call = 0 => lost'
      <3>1. /\ outs[p][j].param = p /\ p \in ever[outs[p][j].dest]
            /\ outs[p][j].call = 0 => lost
        BY DEF OutsKnown
      <3>2. outs[p][j].dest \in Dests
        <4>1. outs[p][j] \in Entry
          BY <2>1
        <4> QED BY <4>1 DEF Entry
      <3>3. p \in ever'[outs[p][j].dest]
        BY <1>1, <3>1, <3>2, EverGrows
      <3> QED BY <3>1, <3>3
    <2>3. CASE outs'[p] = outs[p]
      BY <2>2, <2>3
    <2>4. CASE IsOut(args[p]) /\ outs'[p] = Append(outs[p], NewEntry(args, p, 0))
      <3>1. i \in 1 .. Len(outs[p]) + 1
        BY <2>1, <2>4
      <3>2. CASE i \in 1 .. Len(outs[p])
        <4>1. outs'[p][i] = outs[p][i]
          BY <2>1, <2>4, <3>2
        <4> QED BY <2>2, <3>2, <4>1, Zenon
      <3>3. CASE i = Len(outs[p]) + 1
        <4>1. outs'[p][i] = NewEntry(args, p, 0)
          BY <2>1, <2>4, <3>3
        <4>2. outs'[p][i].param = p /\ outs'[p][i].dest = args[p].dest
          BY <4>1 DEF NewEntry
        <4>3. lost'
          BY <2>4 DEF HasOut
        <4> QED BY <1>1, <2>4, <4>2, <4>3, OutDest, EverGrows
      <3> QED BY <2>1, <3>1, <3>2, <3>3
    <2> QED BY <2>3, <2>4, OutsAdded
  <1>4. execs' \in Nat /\ ever' \in [Dests -> SUBSET Params]
    BY <1>1, EverGrows DEF OutsKnown
  <1> QED BY <1>2, <1>3, <1>4 DEF OutsKnown

\* What the Outs are when SQLExecute has written to the buffers.
LEMMA OutsWritten ==
  ASSUME OutsKnown, NEW args \in Args, NEW os, os = Written(OutsUpTo(args, NumParams)),
         NEW p \in Params
  PROVE  /\ os[p] \in Seq(Entry)
         /\ \/ os[p] = outs[p] /\ ~IsOut(args[p])
            \/ /\ IsOut(args[p])
               /\ os[p] = Append(outs[p], NewEntry(args, p, execs + 1))
  <1>0. outs[p] \in Seq(Entry) /\ Len(outs[p]) \in Nat /\ execs \in Nat
    BY DEF OutsKnown
  <1>1. PICK added : added = OutsUpTo(args, NumParams)
    OBVIOUS
  <1>2. NumParams \in Int /\ p <= NumParams
    BY ParamBindingAssumption DEF Params
  <1>3. /\ added[p] \in Seq(Entry)
        /\ \/ added[p] = outs[p] /\ ~IsOut(args[p])
           \/ /\ IsOut(args[p])
              /\ added[p] = Append(outs[p], NewEntry(args, p, 0))
    BY <1>1, <1>2, OutsAdded
  <1>4. os[p] = [i \in DOMAIN added[p] |->
                   IF i > Len(outs[p]) THEN [added[p][i] EXCEPT !.call = execs + 1]
                   ELSE added[p][i]]
    BY <1>1, Zenon DEF Written
  <1>5. CASE added[p] = outs[p] /\ ~IsOut(args[p])
    <2>1. DOMAIN added[p] = 1 .. Len(outs[p])
      BY <1>0, <1>5
    <2>2. \A i \in 1 .. Len(outs[p]) : ~(i > Len(outs[p]))
      BY <1>0
    <2>3. os[p] = [i \in 1 .. Len(outs[p]) |-> outs[p][i]]
      BY <1>4, <1>5, <2>1, <2>2
    <2>4. outs[p] = [i \in 1 .. Len(outs[p]) |-> outs[p][i]]
      BY <1>0
    <2> QED BY <1>0, <1>5, <2>3, <2>4, Zenon
  <1>6. CASE IsOut(args[p]) /\ added[p] = Append(outs[p], NewEntry(args, p, 0))
    <2> DEFINE k == Len(outs[p]) + 1
               new == NewEntry(args, p, execs + 1)
    <2>1. DOMAIN added[p] = 1 .. k
      BY <1>0, <1>6
    <2>2. /\ added[p][k] = NewEntry(args, p, 0)
          /\ \A i \in 1 .. Len(outs[p]) : added[p][i] = outs[p][i]
      BY <1>0, <1>6
    <2>3. [NewEntry(args, p, 0) EXCEPT !.call = execs + 1] = new
      BY DEF NewEntry
    <2>4. \A i \in 1 .. k : os[p][i] = IF i = k THEN new ELSE outs[p][i]
      <3> SUFFICES ASSUME NEW i \in 1 .. k PROVE os[p][i] = IF i = k THEN new ELSE outs[p][i]
        OBVIOUS
      <3>1. os[p][i] = IF i > Len(outs[p]) THEN [added[p][i] EXCEPT !.call = execs + 1]
                       ELSE added[p][i]
        BY <1>4, <2>1, Zenon
      <3>2. CASE i = k
        <4>1. i > Len(outs[p])
          BY <1>0, <3>2
        <4>2. os[p][i] = [NewEntry(args, p, 0) EXCEPT !.call = execs + 1]
          BY <2>2, <3>1, <3>2, <4>1, Zenon
        <4> QED BY <2>3, <3>2, <4>2, Zenon
      <3>3. CASE i /= k
        <4>1. ~(i > Len(outs[p])) /\ i \in 1 .. Len(outs[p])
          BY <1>0, <3>3
        <4> QED BY <2>2, <3>1, <3>3, <4>1, Zenon
      <3> QED BY <3>2, <3>3
    <2>5. os[p] = [i \in 1 .. k |-> os[p][i]]
      BY <1>4, <2>1, Zenon
    <2>6. new \in Entry
      BY <1>0, <1>6, OutDest DEF NewEntry, Entry
    <2> HIDE DEF new
    <2>7. Append(outs[p], new) = [i \in 1 .. k |-> IF i = k THEN new ELSE outs[p][i]]
      BY <1>0, <2>6
    <2>8. os[p] = Append(outs[p], new)
      <3>1. os[p] = [i \in 1 .. k |-> IF i = k THEN new ELSE outs[p][i]]
        BY <2>4, <2>5
      <3> QED BY <2>7, <3>1, Zenon
    <2>9. Append(outs[p], new) \in Seq(Entry)
      BY <1>0, <2>6
    <2> QED BY <1>6, <2>8, <2>9 DEF new
  <1> QED BY <1>3, <1>5, <1>6

\* A call that succeeds up to the conversion of its Outs.
LEMMA OutsRun ==
  ASSUME OutsKnown, NEW args \in Args, NEW how, NEW sentRows,
         outs' = Written(OutsUpTo(args, NumParams)), Returns(args, how, sentRows),
         lost' = lost
  PROVE  OutsKnown'
  <1>1. /\ execs' = execs + 1
        /\ ever' = [d \in Dests |-> ever[d] \cup { p \in Params : args[p].dest = d }]
    BY DEF Returns
  <1>2. outs' \in [Params -> Seq(Entry)]
    <2>1. \A p \in Params : outs'[p] \in Seq(Entry)
      BY OutsWritten
    <2> QED BY <2>1 DEF Written
  <1>3. ASSUME NEW p \in Params, NEW i \in 1 .. Len(outs'[p])
        PROVE  /\ outs'[p][i].param = p
               /\ p \in ever'[outs'[p][i].dest]
               /\ outs'[p][i].call = 0 => lost'
    <2>1. outs[p] \in Seq(Entry) /\ Len(outs[p]) \in Nat /\ execs \in Nat
      BY DEF OutsKnown
    <2>2. ASSUME NEW j \in 1 .. Len(outs[p])
          PROVE  /\ outs[p][j].param = p
                 /\ p \in ever'[outs[p][j].dest]
                 /\ outs[p][j].call = 0 => lost'
      <3>1. /\ outs[p][j].param = p /\ p \in ever[outs[p][j].dest]
            /\ outs[p][j].call = 0 => lost
        BY DEF OutsKnown
      <3>2. outs[p][j].dest \in Dests
        <4>1. outs[p][j] \in Entry
          BY <2>1
        <4> QED BY <4>1 DEF Entry
      <3>3. p \in ever'[outs[p][j].dest]
        BY <1>1, <3>1, <3>2, EverGrows
      <3> QED BY <3>1, <3>3
    <2>3. CASE outs'[p] = outs[p]
      BY <2>2, <2>3
    <2>4. CASE IsOut(args[p]) /\ outs'[p] = Append(outs[p], NewEntry(args, p, execs + 1))
      <3>1. i \in 1 .. Len(outs[p]) + 1
        BY <2>1, <2>4
      <3>2. CASE i \in 1 .. Len(outs[p])
        <4>1. outs'[p][i] = outs[p][i]
          BY <2>1, <2>4, <3>2
        <4> QED BY <2>2, <3>2, <4>1, Zenon
      <3>3. CASE i = Len(outs[p]) + 1
        <4>1. outs'[p][i] = NewEntry(args, p, execs + 1)
          BY <2>1, <2>4, <3>3
        <4>2. /\ outs'[p][i].param = p /\ outs'[p][i].dest = args[p].dest
              /\ outs'[p][i].call = execs + 1
          BY <4>1 DEF NewEntry
        <4>3. outs'[p][i].call /= 0
          BY <2>1, <4>2
        <4> QED BY <1>1, <2>4, <4>2, <4>3, OutDest, EverGrows
      <3> QED BY <2>1, <3>1, <3>2, <3>3
    <2> QED BY <2>3, <2>4, OutsWritten
  <1>4. execs' \in Nat /\ ever' \in [Dests -> SUBSET Params]
    BY <1>1, EverGrows DEF OutsKnown
  <1> QED BY <1>2, <1>3, <1>4 DEF OutsKnown

\* The Outs of all parameters, parameter by parameter.
LEMMA AllOuts ==
  ASSUME NEW os \in [Params -> Seq(Entry)]
  PROVE  /\ os \in Seq(Seq(Entry)) /\ Len(os) = NumParams
         /\ FlattenSeq(os) \in Seq(Entry)
         /\ \A i \in 1 .. Len(FlattenSeq(os)) :
              \E p \in Params : \E j \in 1 .. Len(os[p]) : FlattenSeq(os)[i] = os[p][j]
  <1>1. os \in Seq(Seq(Entry)) /\ Len(os) = NumParams
    BY ParamBindingAssumption DEF Params
  <1> QED BY <1>1, FlattenElements DEF Params

\* What ConvertAssign of the first n Outs leaves in a destination.
LEMMA AssignedFrom ==
  ASSUME NEW os \in [Params -> Seq(Entry)], NEW n \in 0 .. Len(FlattenSeq(os)), NEW d \in Dests
  PROVE  \/ Assigned(os, n)[d] = dest[d]
         \/ \E p \in Params : \E i \in 1 .. Len(os[p]) :
              Assigned(os, n)[d] = [param |-> os[p][i].param, call |-> os[p][i].call]
  <1> DEFINE flat == FlattenSeq(os)
             all == SubSeq(flat, 1, n)
             mine == { i \in DOMAIN all : all[i].dest = d }
             k == CHOOSE i \in mine : \A j \in mine : j <= i
  <1>1. flat \in Seq(Entry) /\ Len(flat) \in Nat
    BY AllOuts
  <1>2. /\ DOMAIN all = 1 .. n /\ n \in Nat /\ n <= Len(flat)
        /\ \A i \in 1 .. n : all[i] = flat[i]
    BY <1>1
  <1>3. Assigned(os, n)[d] = IF mine = {} THEN dest[d]
                             ELSE [param |-> all[k].param, call |-> all[k].call]
    BY DEF Assigned
  <1>4. CASE mine = {}
    BY <1>3, <1>4
  <1>5. CASE mine /= {}
    <2>1. mine \subseteq 1 .. n
      BY <1>2
    <2>2. \E i \in mine : \A j \in mine : j <= i
      <3>1. mine \subseteq 0 .. n
        BY <1>2, <2>1
      <3> HIDE DEF mine
      <3> QED BY <1>2, <1>5, <3>1, Greatest
    <2>3. k \in mine
      BY <2>2
    <2> HIDE DEF k
    <2>4. k \in 1 .. Len(flat) /\ all[k] = flat[k]
      BY <1>2, <2>1, <2>3
    <2>5. PICK p \in Params : \E j \in 1 .. Len(os[p]) : flat[k] = os[p][j]
      BY <2>4, AllOuts
    <2> QED BY <1>3, <1>5, <2>4, <2>5
  <1> QED BY <1>4, <1>5

\* ... and of all of them.
LEMMA AssignedLast ==
  ASSUME NEW os \in [Params -> Seq(Entry)], NEW d \in Dests, NEW p \in Params,
         NEW e \in Entry, e.dest = d,
         Len(os[p]) > 0, os[p][Len(os[p])] = e,
         \A q \in Params : q > p => \A j \in 1 .. Len(os[q]) : os[q][j].dest /= d
  PROVE  Assigned(os, Len(FlattenSeq(os)))[d] = [param |-> e.param, call |-> e.call]
  <1> DEFINE flat == FlattenSeq(os)
             all == SubSeq(flat, 1, Len(flat))
             mine == { i \in DOMAIN all : all[i].dest = d }
             k == CHOOSE i \in mine : \A j \in mine : j <= i
             X == { o \in Entry : o.dest = d }
  <1>1. flat \in Seq(Entry) /\ Len(flat) \in Nat
    BY AllOuts
  <1>2. all = flat /\ DOMAIN flat = 1 .. Len(flat)
    BY <1>1
  <1>3. LastIn(flat, X, e)
    <2>1. os \in Seq(Seq(Entry)) /\ Len(os) = NumParams /\ NumParams \in Nat
      BY AllOuts, ParamBindingAssumption
    <2>2. LastIn(os[p], X, e)
      <3>1. Len(os[p]) \in Nat
        OBVIOUS
      <3> QED BY <3>1 DEF LastIn
    <2>3. p \in 1 .. Len(os) /\ p \in Nat
      BY <2>1 DEF Params
    <2>4. ASSUME NEW q \in p + 1 .. Len(os), NEW j \in 1 .. Len(os[q])
          PROVE  os[q][j] \notin X
      <3>1. q \in Params /\ q > p
        BY <2>1, <2>3 DEF Params
      <3> QED BY <3>1
    <2> HIDE DEF X
    <2> QED BY <2>1, <2>2, <2>3, <2>4, FlattenLast
  <1>4. PICK i \in 1 .. Len(flat) : flat[i] = e /\ \A j \in i + 1 .. Len(flat) : flat[j] \notin X
    BY <1>3 DEF LastIn
  <1> HIDE DEF flat
  <1>5. mine = { j \in 1 .. Len(flat) : flat[j].dest = d }
    BY <1>2
  <1>6. i \in mine /\ \A j \in mine : j <= i
    <2>1. \A j \in 1 .. Len(flat) : flat[j] \in Entry
      BY <1>1
    <2> QED BY <1>1, <1>4, <1>5, <2>1
  <1>7. k = i
    <2>1. k \in mine /\ \A j \in mine : j <= k
      BY <1>6
    <2>2. k \in Int /\ i \in Int /\ k <= i /\ i <= k
      BY <1>5, <1>6, <2>1
    <2> HIDE DEF k
    <2> QED BY <2>2
  <1> HIDE DEF k
  <1>8. Assigned(os, Len(flat))[d] = [param |-> flat[i].param, call |-> flat[i].call]
    <2>1. Assigned(os, Len(flat))[d] = IF mine = {} THEN dest[d]
                                ELSE [param |-> all[k].param, call |-> all[k].call]
      BY DEF Assigned, k, flat
    <2> QED BY <1>2, <1>6, <1>7, <2>1
  <1> QED BY <1>4, <1>8 DEF flat

\* An Out of the call is the last one of its parameter.
LEMMA RunExact ==
  ASSUME OutsKnown, NEW args \in Args, ExecRuns(args)
  PROVE  last'.result = "ok" => \A p \in Params : IsOut(args[p]) =>
           \/ dest'[args[p].dest] = [param |-> p, call |-> execs']
           \/ \E q \in ever'[args[p].dest] : q > p
  <1>1. outs' = Written(OutsUpTo(args, NumParams))
    BY DEF ExecRuns
  <1>2. PICK n \in 0 .. Len(FlattenSeq(outs')) :
          /\ dest' = Assigned(outs', n)
          /\ Returns(args, IF n = Len(FlattenSeq(outs')) THEN "ok" ELSE "error", paramset')
    BY DEF ExecRuns
  <1>3. /\ execs' = execs + 1 /\ last'.args = args
        /\ last'.result = "ok" => n = Len(FlattenSeq(outs'))
    BY <1>2 DEF Returns
  <1>4. OutsKnown'
    <2>1. lost' = lost
      BY DEF ExecRuns
    <2> QED BY <1>1, <1>2, <2>1, OutsRun
  <1> SUFFICES ASSUME n = Len(FlattenSeq(outs')), NEW p \in Params, IsOut(args[p]),
                      \A q \in Params : q \in ever'[args[p].dest] => ~(q > p)
               PROVE  dest'[args[p].dest] = [param |-> p, call |-> execs']
    <2>1. \A p \in Params : ever'[args[p].dest] \subseteq Params \/ ~IsOut(args[p])
      BY <1>4, OutDest DEF OutsKnown
    <2> QED BY <1>3, <2>1
  <1> DEFINE d == args[p].dest
             e == NewEntry(args, p, execs + 1)
  <1>5. d \in Dests /\ execs \in Nat
    BY OutDest DEF OutsKnown
  <1>6. e \in Entry /\ e.dest = d /\ e.param = p /\ e.call = execs + 1
    BY <1>5 DEF NewEntry, Entry
  <1>7. Len(outs'[p]) > 0 /\ outs'[p][Len(outs'[p])] = e
    <2>1. outs'[p] = Append(outs[p], e)
      BY <1>1, OutsWritten
    <2>2. outs[p] \in Seq(Entry)
      BY DEF OutsKnown
    <2> HIDE DEF e
    <2> QED BY <1>6, <2>1, <2>2
  <1> HIDE DEF e
  <1>8. ASSUME NEW q \in Params, q > p, NEW j \in 1 .. Len(outs'[q]) PROVE outs'[q][j].dest /= d
    BY <1>4, <1>8 DEF OutsKnown
  <1>9. outs' \in [Params -> Seq(Entry)]
    BY <1>4 DEF OutsKnown
  <1>10. dest'[d] = [param |-> e.param, call |-> e.call]
    <2> HIDE DEF d
    <2>1. PICK os \in [Params -> Seq(Entry)] : os = outs'
      BY <1>9
    <2>2. Assigned(os, Len(FlattenSeq(os)))[d] = [param |-> e.param, call |-> e.call]
      BY <1>5, <1>6, <1>7, <1>8, <2>1, AssignedLast
    <2> QED BY <1>2, <2>1, <2>2
  <1> QED BY <1>3, <1>6, <1>10

LEMMA OutsStep ==
  ASSUME OutsKnown, Exec
  PROVE  OutsKnown'
  <1>0. PICK args \in Args : \/ ExecPanics(args) \/ ExecBindFails(args)
                             \/ ExecSizeFails(args) \/ ExecNothing(args) \/ ExecRuns(args)
    BY DEF Exec
  <1>2. CASE ExecPanics(args)
    <2>1. PICK n \in Int : outs' = OutsUpTo(args, n)
      BY <1>2, ParamBindingAssumption DEF ExecPanics, Params
    <2>2. Returns(args, "panic", 0) /\ lost' = (lost \/ HasOut(args))
      BY <1>2 DEF ExecPanics
    <2> QED BY <2>1, <2>2, OutsEndEarly
  <1>3. CASE ExecBindFails(args)
    <2>1. PICK n \in Int : outs' = OutsUpTo(args, n)
      BY <1>3, ParamBindingAssumption DEF ExecBindFails, Params
    <2>2. Returns(args, "error", 0) /\ lost' = (lost \/ HasOut(args))
      BY <1>3 DEF ExecBindFails
    <2> QED BY <2>1, <2>2, OutsEndEarly
  <1>4. CASE ExecSizeFails(args)
    <2>1. NumParams \in Int /\ outs' = OutsUpTo(args, NumParams)
      BY <1>4, ParamBindingAssumption DEF ExecSizeFails
    <2>2. Returns(args, "error", 0) /\ lost' = (lost \/ HasOut(args))
      BY <1>4 DEF ExecSizeFails
    <2> QED BY <2>1, <2>2, OutsEndEarly
  <1>5. CASE ExecNothing(args)
    <2>1. NumParams \in Int /\ outs' = OutsUpTo(args, NumParams)
      BY <1>5, ParamBindingAssumption DEF ExecNothing
    <2>2. PICK how \in {"error", "noData"} : Returns(args, how, paramset')
      BY <1>5 DEF ExecNothing
    <2>3. lost' = (lost \/ HasOut(args))
      BY <1>5 DEF ExecNothing
    <2> QED BY <2>1, <2>2, <2>3, OutsEndEarly
  <1>6. CASE ExecRuns(args)
    <2>1. outs' = Written(OutsUpTo(args, NumParams)) /\ lost' = lost
      BY <1>6 DEF ExecRuns
    <2>2. \E how : Returns(args, how, paramset')
      BY <1>6 DEF ExecRuns
    <2> QED BY <2>1, <2>2, OutsRun
  <1> QED BY <1>0, <1>2, <1>3, <1>4, <1>5, <1>6

\* What the destinations of a call hold when Exec returns nil: without a row
\* SQLExecute has written nothing, and Exec has not looked at the Outs.
LEMMA LatestStep ==
  ASSUME OutsKnown, Exec, NEW p \in Params, last'.result \in {"ok", "noData"},
         IsOut(last'.args[p]), NEW d, d = last'.args[p].dest
  PROVE  \/ dest'[d] = [param |-> p, call |-> execs']
         \/ last'.result = "noData" /\ dest'[d] = dest[d]
         \/ last'.result = "ok" /\ \E q \in ever'[d] : q > p
  <1>0. PICK args \in Args : \/ ExecPanics(args) \/ ExecBindFails(args)
                             \/ ExecSizeFails(args) \/ ExecNothing(args) \/ ExecRuns(args)
    BY DEF Exec
  <1>1. ASSUME NEW how, NEW sentRows, Returns(args, how, sentRows)
        PROVE  last'.result = how /\ last'.args = args
    BY <1>1 DEF Returns
  <1>2. CASE ExecPanics(args) \/ ExecBindFails(args) \/ ExecSizeFails(args)
    <2>1. PICK how \in {"panic", "error"} : Returns(args, how, 0)
      BY <1>2 DEF ExecPanics, ExecBindFails, ExecSizeFails
    <2> QED BY <1>1, <2>1
  <1>3. CASE ExecNothing(args)
    <2>1. PICK how \in {"error", "noData"} : Returns(args, how, paramset')
      BY <1>3 DEF ExecNothing
    <2>2. dest' = dest
      BY <1>3 DEF ExecNothing
    <2> QED BY <1>1, <2>1, <2>2
  <1>4. CASE ExecRuns(args)
    <2>1. \E how \in {"ok", "error"} : Returns(args, how, paramset')
      BY <1>4 DEF ExecRuns
    <2>2. last'.args = args /\ last'.result = "ok"
      BY <1>1, <2>1
    <2> QED BY <1>4, <2>2, RunExact
  <1> QED BY <1>0, <1>2, <1>3, <1>4

\* A destination changes only when a call has succeeded, and gets what is in
\* one of the Outs.
LEMMA DestStep ==
  ASSUME OutsKnown, Exec, NEW d \in Dests, dest'[d] /= dest[d], dest'[d].call = 0
  PROVE  lost
  <1>1. PICK args \in Args : ExecRuns(args)
    BY DEF Exec, ExecPanics, ExecBindFails, ExecSizeFails, ExecNothing
  <1>2. PICK n \in 0 .. Len(FlattenSeq(outs')) : dest' = Assigned(outs', n)
    BY <1>1 DEF ExecRuns
  <1>3. OutsKnown' /\ lost' = lost
    BY <1>1, OutsStep DEF ExecRuns
  <1>4. outs' \in [Params -> Seq(Entry)]
    BY <1>3 DEF OutsKnown
  <1>5. PICK p \in Params : \E i \in 1 .. Len(outs'[p]) :
          dest'[d] = [param |-> outs'[p][i].param, call |-> outs'[p][i].call]
    BY <1>2, <1>4, AssignedFrom
  <1>6. PICK i \in 1 .. Len(outs'[p]) : dest'[d].call = outs'[p][i].call
    BY <1>5
  <1>7. outs'[p][i].call = 0 => lost'
    BY <1>3 DEF OutsKnown
  <1> QED BY <1>3, <1>6, <1>7

LEMMA InitOuts == BindingInit => OutsKnown
  <1> SUFFICES ASSUME BindingInit PROVE OutsKnown
    OBVIOUS
  <1>1. \A p \in Params : outs[p] = <<>>
    BY DEF BindingInit
  <1>2. outs \in [Params -> Seq(Entry)] /\ \A p \in Params : Len(outs[p]) = 0
    BY <1>1 DEF BindingInit
  <1>3. execs \in Nat /\ ever \in [Dests -> SUBSET Params]
    BY DEF BindingInit
  <1> QED BY <1>2, <1>3 DEF OutsKnown

------------------------------------------------------------------------------
\* The inductive invariant.
BindingInv == SentInv /\ OutsKnown

\* BindingInv holds in every state: it is kept by every way in which Exec may end.
THEOREM BindingInductive == BindingSpec => []BindingInv
  <1>1. BindingInv /\ [BindingNext]_bindingVars => BindingInv'
    <2>1. BindingInv /\ UNCHANGED bindingVars => BindingInv'
      <3> SUFFICES ASSUME BindingInv, UNCHANGED bindingVars PROVE BindingInv'
        OBVIOUS
      <3>1. SentInv'
        BY DEF bindingVars, BindingInv, SentInv, LeftBehind, FreshBindings, RowsSent
      <3>2. OutsKnown'
        BY DEF bindingVars, BindingInv, OutsKnown
      <3> QED BY <3>1, <3>2 DEF BindingInv
    <2> QED BY <2>1, SentStep, OutsStep DEF BindingNext, BindingInv
  <1>2. BindingInit => BindingInv
    BY InitSent, InitOuts DEF BindingInv
  <1> QED BY <1>1, <1>2, PTL DEF BindingSpec

\* SQLExecute never reads a buffer of an earlier call, whatever failed before.
THEOREM BindingsFresh == BindingSpec => []FreshBindings
  BY BindingInductive, PTL DEF BindingInv, SentInv

\* The server gets the rows of this call's arrays, with the exceptions that RowsSent
\* names: the size and the indicators left by earlier calls.
THEOREM RowsKnown == BindingSpec => []RowsSent
  BY BindingInductive, PTL DEF BindingInv, SentInv

\* When Exec returns nil each destination holds this call's output, although all
\* earlier Outs are converted again, unless it was once passed for a parameter
\* further to the right; or what it held before, when SQLExecute found no row.
THEOREM OutsExact == BindingSpec => OutLatest
  <1>1. BindingInv /\ [BindingNext]_bindingVars =>
          [\A p \in Params :
             LET d == last'.args[p].dest
             IN  last'.result \in {"ok", "noData"} /\ IsOut(last'.args[p]) =>
                   \/ dest'[d] = [param |-> p, call |-> execs']
                   \/ last'.result = "noData" /\ dest'[d] = dest[d]
                   \/ last'.result = "ok" /\ \E q \in ever'[d] : q > p]_bindingVars
    BY LatestStep DEF BindingInv, BindingNext
  <1> QED BY <1>1, BindingInductive, PTL DEF BindingSpec, OutLatest

\* A buffer the server has never written to reaches a destination only after a
\* call that ended early.
THEOREM UnwrittenExplained == BindingSpec => NothingUnwritten
  <1>1. BindingInv /\ [BindingNext]_bindingVars => [\A d \in Dests : dest'[d] /= dest[d] /\ dest'[d].call = 0 => lost]_bindingVars
    BY DestStep DEF BindingInv, BindingNext
  <1> QED BY <1>1, BindingInductive, PTL DEF BindingSpec, NothingUnwritten

------------------------------------------------------------------------------
(***************************************************************************)
(* ColumnValues: a slot of a bound column holds the value of its row, or   *)
(* what has room of it; so Next and a batch give the value that was        *)
(* stored, with the exceptions named there.                                *)
(***************************************************************************)

\* What a slot of a bound column c holds of the value v of its row.
Content(c, slot) == SubSeq(slot.bytes, 1, IF Fixed(c.stype) THEN 1 ELSE Min({slot.ind, Size(c)}))
CutBytes(c, v) == SubSeq(v.data, 1, Size(c) - 1) \o <<0>>
Filled(c, v, slot) ==
  IF v.null THEN slot.ind = -1
  ELSE /\ slot.ind = IF Fixed(c.stype) THEN 1 ELSE Len(v.data)
       /\ \/ Content(c, slot) = v.data
          \/ /\ CType(c.stype) = "CHAR" /\ ~Decimal(c.stype) /\ Len(v.data) >= Size(c)
             /\ Content(c, slot) = CutBytes(c, v)

\* Text of a wide type in memory, in either order of bytes.
Decoded(ct, data) ==
  IF ct = "WCHAR" THEN utf16toutf8(FromLittleEndian(data)) ELSE dbclobToUTF8(data)
UnitsOf(ct, data) == IF ct = "WCHAR" THEN FromLittleEndian(data) ELSE BigUnits(data)

\* It is the text of the units in memory, in either order of bytes.
LEMMA UnitsType ==
  ASSUME NEW ct, NEW p \in Seq(Nat), NEW s, s = UnitsOf(ct, p)
  PROVE  /\ s \in Seq(Nat) /\ Len(s) = Len(p) \div 2
         /\ \A i \in 1 .. Len(s) : p[2 * i - 1] = 0 /\ p[2 * i] = 0 => s[i] = 0
         /\ Decoded(ct, p) = Text(s)
  <1>1. CASE ct = "WCHAR"
    <2>1. /\ s \in Seq(Nat) /\ Len(s) = Len(p) \div 2
          /\ \A i \in 1 .. Len(s) : s[i] = p[2 * i - 1] + 256 * p[2 * i]
      <3>1. s = FromLittleEndian(p)
        BY <1>1, Zenon DEF UnitsOf
      <3>2. PICK r \in Seq(Nat) : /\ r = FromLittleEndian(p) /\ Len(r) = Len(p) \div 2
                                  /\ \A i \in 1 .. Len(r) : r[i] = p[2 * i - 1] + 256 * p[2 * i]
        BY FromLittleEndianType
      <3>3. r = s
        BY <3>1, <3>2
      <3> QED BY <3>2, <3>3, Zenon
    <2>2. \A i \in 1 .. Len(s) : p[2 * i - 1] = 0 /\ p[2 * i] = 0 => s[i] = 0
      <3>1. 0 + 256 * 0 = 0
        OBVIOUS
      <3> QED BY <2>1, <3>1, Zenon
    <2>3. Decoded(ct, p) = Text(s)
      BY <1>1, <2>1, TextRight DEF UnitsOf, Decoded
    <2> QED BY <2>1, <2>2, <2>3
  <1>2. CASE ct /= "WCHAR"
    <2>1. /\ s \in Seq(Nat) /\ Len(s) = Len(p) \div 2
          /\ \A i \in 1 .. Len(s) : s[i] = 256 * p[2 * i - 1] + p[2 * i]
      <3>1. s = BigUnits(p)
        BY <1>2, Zenon DEF UnitsOf
      <3>2. PICK r \in Seq(Nat) : /\ r = BigUnits(p) /\ Len(r) = Len(p) \div 2
                                  /\ \A i \in 1 .. Len(r) : r[i] = 256 * p[2 * i - 1] + p[2 * i]
        BY BigUnitsType
      <3>3. r = s
        BY <3>1, <3>2
      <3> QED BY <3>2, <3>3, Zenon
    <2>2. \A i \in 1 .. Len(s) : p[2 * i - 1] = 0 /\ p[2 * i] = 0 => s[i] = 0
      <3>1. 256 * 0 + 0 = 0
        OBVIOUS
      <3> QED BY <2>1, <3>1, Zenon
    <2>3. Decoded(ct, p) = Text(s)
      BY <1>2, <2>1, DbclobRight DEF UnitsOf, Decoded
    <2> QED BY <2>1, <2>2, <2>3
  <1> QED BY <1>1, <1>2

\* Text of a wide type in memory: nil, too long, or decoded.
LEMMA WideRight ==
  ASSUME NEW ct, NEW d \in Seq(Nat), NEW w, w = WideValue(ct, d)
  PROVE  \/ d = <<>> /\ w.kind = "nil" /\ w.val = <<>>
         \/ d /= <<>> /\ Elements(ct, d) > MaxElements /\ w.kind = "panic"
         \/ /\ d /= <<>> /\ ~(Elements(ct, d) > MaxElements)
            /\ w.kind = "bytes" /\ w.val = Decoded(ct, d)
  <1>1. CASE d = <<>>
    BY <1>1 DEF WideValue, Nil, Of
  <1>2. CASE d /= <<>> /\ Elements(ct, d) > MaxElements
    BY <1>2 DEF WideValue, Of
  <1>3. CASE d /= <<>> /\ ~(Elements(ct, d) > MaxElements)
    <2>1. w = Of("bytes", Decoded(ct, d))
      BY <1>3, Zenon DEF WideValue, Decoded
    <2> QED BY <1>3, <2>1 DEF Of
  <1> QED BY <1>1, <1>2, <1>3

\* The server's texts and data are numbers.
LEMMA SeqOfMore ==
  ASSUME NEW S, NEW T, S \subseteq T
  PROVE  Seq(S) \subseteq Seq(T)
  OBVIOUS

LEMMA TextsTypes ==
  /\ CharTexts \subseteq Seq(Nat) /\ WideTexts \subseteq Seq(Nat)
  /\ Binaries \subseteq Seq(Nat)
  <1>1. Bytes \subseteq Nat /\ Units \subseteq Nat
    BY DEF Bytes, Units
  <1> QED BY <1>1, TextAssumption, SeqOfMore

\* Texts and data of a column have no more elements than its size.
LEMMA UptoType ==
  ASSUME NEW S, NEW T, S \subseteq Seq(T), NEW n, NEW s \in Upto(S, n)
  PROVE  s \in Seq(T) /\ Len(s) <= n
  BY DEF Upto

\* The sizes of slots, and the C types.
LEMMA Sizes ==
  ASSUME NEW c \in Columns
  PROVE  /\ c.size \in Nat /\ Size(c) \in Nat
         /\ Decimal(c.stype) => CType(c.stype) = "CHAR"
         /\ c.stype = "DECIMAL" => Size(c) = c.size + 4
         /\ c.stype = "DECFLOAT" => Size(c) = (c.size + 1) * 2 /\ c.size \in {16, 34}
         /\ CType(c.stype) = "CHAR" /\ ~Decimal(c.stype) => Size(c) = (c.size + 1) * 2
         /\ CType(c.stype) = "WCHAR" => Size(c) = (c.size + 1) * 2
         /\ CType(c.stype) = "BINARY" => Size(c) = c.size
         /\ Bindable(c) => CType(c.stype) /= "DBCHAR"
         /\ Bindable(c) /\ ~Fixed(c.stype) => c.size > 0
  <1>1. /\ c.stype \in SqlTypes /\ c.size \in Nat
        /\ c.stype = "DECFLOAT" => c.size \in {16, 34}
    <2>1. c \in [stype : SqlTypes, size : Nat]
      BY ColumnValuesAssumption
    <2>2. c.stype = "DECFLOAT" => c.size \in {16, 34}
      BY ColumnValuesAssumption
    <2> QED BY <2>1, <2>2
  <1>2. Decimal(c.stype) => CType(c.stype) = "CHAR"
    BY DEF Decimal, CType
  <1>3. c.stype = "DECIMAL" => Size(c) = c.size + 4
    BY DEF Size, CType
  <1>4. c.stype = "DECFLOAT" => Size(c) = (c.size + 1) * 2
    BY DEF Size, CType
  <1>5. CType(c.stype) = "CHAR" /\ ~Decimal(c.stype) => Size(c) = (c.size + 1) * 2
    BY DEF Size, Decimal
  <1>6. CType(c.stype) = "WCHAR" => Size(c) = (c.size + 1) * 2
    BY DEF Size, CType
  <1>7. CType(c.stype) = "BINARY" => Size(c) = c.size
    BY DEF Size, CType
  <1>8. Size(c) \in Nat
    BY <1>1 DEF Size
  <1>9. Bindable(c) => CType(c.stype) /= "DBCHAR"
    BY DEF Bindable, Fixed, CType
  <1>10. Bindable(c) /\ ~Fixed(c.stype) => c.size > 0
    BY DEF Bindable
  <1> QED BY <1>1, <1>2, <1>3, <1>4, <1>5, <1>6, <1>7, <1>8, <1>9, <1>10

\* The digits of a decimal.
LEMMA DigitsType ==
  ASSUME NEW n \in Nat, NEW d, d = Digits(n)
  PROVE  d \in Seq(Nat) /\ Len(d) = n
  BY DEF Digits

\* The longest decimals have room beside the terminator.
LEMMA DecimalsFit ==
  ASSUME NEW c \in Columns, Decimal(c.stype), NEW s \in Decimals(c)
  PROVE  s \in Seq(Nat) /\ Len(s) + 1 <= Size(c)
  <1>0. /\ c.size \in Nat
        /\ c.stype = "DECIMAL" => Size(c) = c.size + 4
        /\ c.stype = "DECFLOAT" => Size(c) = (c.size + 1) * 2 /\ c.size \in {16, 34}
        /\ c.stype \in {"DECIMAL", "DECFLOAT"}
    BY Sizes DEF Decimal
  <1>1. PICK d \in Seq(Nat) : d = Digits(c.size) /\ Len(d) = c.size
    BY <1>0, DigitsType
  <1>2. CASE s = d
    BY <1>0, <1>1, <1>2
  <1>3. CASE s = <<45, 48, Comma>> \o d
    <2>1. s \in Seq(Nat) /\ Len(s) = 3 + Len(d)
      BY <1>3 DEF Comma
    <2>2. Len(s) = 3 + c.size
      BY <1>1, <2>1, Zenon
    <2>3. CASE c.stype = "DECIMAL"
      <3>1. Size(c) = c.size + 4
        BY <1>0, <2>3, Zenon
      <3>2. \A n \in Nat : 3 + n + 1 <= n + 4
        OBVIOUS
      <3> QED BY <1>0, <2>1, <2>2, <3>1, <3>2, Zenon
    <2>4. CASE c.stype = "DECFLOAT"
      <3>1. Size(c) = (c.size + 1) * 2 /\ c.size \in {16, 34}
        BY <1>0, <2>4, Zenon
      <3>2. \A n \in {16, 34} : 3 + n + 1 <= (n + 1) * 2
        OBVIOUS
      <3> QED BY <2>1, <2>2, <3>1, <3>2, Zenon
    <2> QED BY <1>0, <2>3, <2>4, Zenon
  <1>4. CASE c.stype = "DECFLOAT" /\ s = <<45, 57, Comma>> \o Digits(c.size - 1) \o <<69, 45, 51, 56, 51>>
    <2>1. PICK e \in Seq(Nat) : e = Digits(c.size - 1) /\ Len(e) = c.size - 1
      <3>1. c.size \in {16, 34}
        BY <1>0, <1>4, Zenon
      <3>2. \A n \in {16, 34} : n - 1 \in Nat
        OBVIOUS
      <3>3. c.size - 1 \in Nat
        BY <3>1, <3>2, Zenon
      <3> QED BY <3>3, DigitsType, Zenon
    <2>2. s \in Seq(Nat) /\ Len(s) = 3 + Len(e) + 5
      BY <1>4, <2>1 DEF Comma
    <2>3. c.size \in {16, 34} /\ Size(c) = (c.size + 1) * 2
      BY <1>0, <1>4
    <2>4. CASE c.size = 16
      BY <2>1, <2>2, <2>3, <2>4
    <2>5. CASE c.size = 34
      BY <2>1, <2>2, <2>3, <2>5
    <2> QED BY <2>3, <2>4, <2>5
  <1> QED BY <1>1, <1>2, <1>3, <1>4 DEF Decimals

\* The values of a column; all but texts of CHAR have room in a slot.
LEMMA ValueForm ==
  ASSUME NEW c \in Columns, NEW v \in Values(c)
  PROVE  \/ v = Null
         \/ \E s \in Seq(Nat) :
              /\ v = Data(s)
              /\ Fixed(c.stype) => Len(s) = 1
              /\ Bindable(c) /\ ~Fixed(c.stype) /\ (CType(c.stype) /= "CHAR" \/ Decimal(c.stype)) =>
                   Len(s) + Len(Terminator(CType(c.stype))) <= Size(c)
  <1>0. /\ c.size \in Nat
        /\ Decimal(c.stype) => CType(c.stype) = "CHAR"
        /\ CType(c.stype) = "WCHAR" => Size(c) = (c.size + 1) * 2
        /\ CType(c.stype) = "BINARY" => Size(c) = c.size
        /\ Bindable(c) => CType(c.stype) /= "DBCHAR"
    BY Sizes, Zenon
  <1>8. /\ CharTexts \subseteq Seq(Nat) /\ WideTexts \subseteq Seq(Nat)
        /\ Binaries \subseteq Seq(Nat)
    BY TextsTypes
  <1>1. CASE v = Null
    BY <1>1
  <1>2. CASE Fixed(c.stype) /\ v /= Null
    <2>1. PICK s \in {<<0>>, <<1>>} : v = Data(s)
      BY <1>2 DEF Values
    <2>2. <<0>> \in Seq(Nat) /\ Len(<<0>>) = 1 /\ <<1>> \in Seq(Nat) /\ Len(<<1>>) = 1
      OBVIOUS
    <2>3. s \in Seq(Nat) /\ Len(s) = 1
      BY <2>1, <2>2, Zenon
    <2> QED BY <1>2, <2>1, <2>3
  <1>3. CASE ~Fixed(c.stype) /\ Decimal(c.stype) /\ v /= Null
    <2>1. PICK s \in Decimals(c) : v = Data(s)
      BY <1>3 DEF Values
    <2>2. s \in Seq(Nat) /\ Len(s) + 1 <= Size(c)
      BY <1>3, DecimalsFit
    <2>3. Len(Terminator(CType(c.stype))) = 1
      BY <1>0, <1>3 DEF Terminator
    <2> QED BY <1>3, <2>1, <2>2, <2>3
  <1>4. CASE CType(c.stype) = "CHAR" /\ ~Decimal(c.stype) /\ v /= Null
    <2>0. ~Fixed(c.stype)
      BY <1>4 DEF Fixed
    <2>1. PICK u \in Upto(CharTexts, c.size) : v = Data(Utf8(u))
      BY <1>4, <2>0 DEF Values
    <2>2. u \in Seq(Nat)
      BY <1>8, UptoType
    <2>3. Utf8(u) \in Seq(Nat)
      BY <2>2, Utf16Shorter
    <2> QED BY <1>4, <2>0, <2>1, <2>3
  <1>5. CASE CType(c.stype) = "WCHAR" /\ v /= Null
    <2>0. ~Fixed(c.stype) /\ ~Decimal(c.stype)
      BY <1>0, <1>5 DEF Fixed
    <2>1. PICK u \in Upto(WideTexts, c.size) : v = Data(LittleEndian(u))
      BY <1>5, <2>0 DEF Values
    <2>2. u \in Seq(Nat) /\ Len(u) <= c.size
      BY <1>8, UptoType
    <2>3. PICK s \in Seq(Nat) : s = LittleEndian(u) /\ Len(s) = 2 * Len(u)
      BY <2>2, LittleEndianType
    <2>4. Len(Terminator(CType(c.stype))) = 2
      BY <1>5 DEF Terminator
    <2>5. Len(s) + 2 <= Size(c)
      BY <1>0, <1>5, <2>2, <2>3
    <2> QED BY <2>0, <2>1, <2>3, <2>4, <2>5
  <1>6. CASE CType(c.stype) = "DBCHAR" /\ v /= Null
    <2>0. ~Fixed(c.stype) /\ ~Decimal(c.stype) /\ ~Bindable(c)
      BY <1>0, <1>6 DEF Fixed
    <2>1. PICK u \in Upto(WideTexts, c.size) : v = Data(BigEndian(u))
      BY <1>6, <2>0 DEF Values
    <2>2. u \in Seq(Nat)
      BY <1>8, UptoType
    <2>3. PICK s \in Seq(Nat) : s = BigEndian(u)
      BY <2>2, BigEndianType
    <2> QED BY <2>0, <2>1, <2>3
  <1>7. CASE CType(c.stype) = "BINARY" /\ v /= Null
    <2>0. ~Fixed(c.stype) /\ ~Decimal(c.stype)
      BY <1>0, <1>7 DEF Fixed
    <2>1. PICK s \in Upto(Binaries, c.size) : v = Data(s)
      BY <1>7, <2>0 DEF Values
    <2>2. s \in Seq(Nat) /\ Len(s) <= c.size
      BY <1>8, UptoType
    <2>3. Len(Terminator(CType(c.stype))) = 0
      BY <1>7 DEF Terminator
    <2> QED BY <1>0, <1>7, <2>0, <2>1, <2>2, <2>3
  <1> QED BY <1>1, <1>2, <1>3, <1>4, <1>5, <1>6, <1>7 DEF Fixed

LEMMA PrefixOfMore ==
  ASSUME NEW a \in Seq(Nat), NEW b \in Seq(Nat), NEW c \in Seq(Nat), c = a \o b,
         NEW d \in Seq(Nat), NEW e \in Seq(Nat), e = c \o d
  PROVE  SubSeq(e, 1, Len(a)) = a
  <1>1. PICK f \in Seq(Nat) : f = b \o d
    <2>1. b \o d \in Seq(Nat)
      OBVIOUS
    <2> QED BY <2>1, Zenon
  <1>2. a \o (b \o d) = (a \o b) \o d
    OBVIOUS
  <1>3. e = a \o f
    BY <1>1, <1>2
  <1> QED BY <1>3, PrefixOf

\* A terminator has two bytes at most.
LEMMA TerminatorType ==
  ASSUME NEW t
  PROVE  Terminator(t) \in Seq(Nat) /\ Len(Terminator(t)) \in 0 .. 2
  BY DEF Terminator

Slots == [ind : Int, bytes : Seq(Nat)]

\* SQLFetch leaves the value of the row in the slot, whatever was there.
LEMMA StoreFills ==
  ASSUME NEW c \in Columns, Bindable(c), NEW v \in Values(c), NEW slot \in Slots
  PROVE  Store(c, v, slot) \in Slots /\ Filled(c, v, Store(c, v, slot))
  <1>0. slot.ind \in Int /\ slot.bytes \in Seq(Nat)
    BY DEF Slots
  <1>1. CASE v = Null
    <2>1. v.null
      BY <1>1 DEF Null
    <2>2. Store(c, v, slot) = [slot EXCEPT !.ind = -1]
      BY <2>1 DEF Store
    <2>3. Store(c, v, slot) \in Slots /\ Store(c, v, slot).ind = -1
      BY <2>2 DEF Slots
    <2> QED BY <2>1, <2>3 DEF Filled
  <1>2. CASE v /= Null
    <2>1. PICK s \in Seq(Nat) :
             /\ v = Data(s)
             /\ Fixed(c.stype) => Len(s) = 1
             /\ Bindable(c) /\ ~Fixed(c.stype) /\ (CType(c.stype) /= "CHAR" \/ Decimal(c.stype)) =>
                  Len(s) + Len(Terminator(CType(c.stype))) <= Size(c)
      BY <1>2, ValueForm
    <2>2. ~v.null /\ v.data = s
      BY <2>1 DEF Data
    <2>3. CASE Fixed(c.stype)
      <3>1. Store(c, v, slot) = [ind |-> 1, bytes |-> s]
        BY <2>2, <2>3 DEF Store
      <3>2. PICK r : r = Store(c, v, slot)
        OBVIOUS
      <3>3. r \in Slots /\ r.ind = 1 /\ r.bytes = s
        BY <3>1, <3>2 DEF Slots
      <3>4. SubSeq(s, 1, Len(s)) = s
        BY SubSeqFull
      <3>5. Content(c, r) = s
        BY <2>1, <2>3, <3>3, <3>4 DEF Content
      <3>6. Filled(c, v, r)
        BY <2>2, <2>3, <3>3, <3>5 DEF Filled
      <3> QED BY <3>2, <3>3, <3>6
    <2>4. CASE ~Fixed(c.stype)
      <3> DEFINE t == Terminator(CType(c.stype))
                 room == Size(c) - Len(t)
                 m == Min({Len(s), room})
      <3>1. t \in Seq(Nat) /\ Len(t) \in 0 .. 2
        BY TerminatorType
      <3>2. CType(c.stype) = "CHAR" => t = <<0>>
        BY DEF Terminator
      <3>3. /\ c.size \in Nat /\ Size(c) \in Nat
            /\ CType(c.stype) = "CHAR" /\ ~Decimal(c.stype) => Size(c) = (c.size + 1) * 2
        BY Sizes
      <3>4. Len(s) \in Nat
        OBVIOUS
      <3> HIDE DEF t, room, m
      <3>5. CType(c.stype) /= "CHAR" \/ Decimal(c.stype) => Len(s) <= room
        BY <2>1, <2>4, <3>1, <3>3, <3>4 DEF room, t
      <3>6. room \in Int /\ m = IF Len(s) <= room THEN Len(s) ELSE room
        <4>1. room \in Int
          BY <3>1, <3>3 DEF room
        <4> QED BY <3>4, <4>1, MinTwo DEF m
      <3>7. CType(c.stype) = "CHAR" /\ ~Decimal(c.stype) => Len(t) = 1 /\ room = Size(c) - 1 /\ room >= 1
        <4> SUFFICES ASSUME CType(c.stype) = "CHAR" /\ ~Decimal(c.stype)
                     PROVE  Len(t) = 1 /\ room = Size(c) - 1 /\ room >= 1
          OBVIOUS
        <4>1. Len(t) = 1
          BY <3>2
        <4>2. Size(c) = (c.size + 1) * 2
          BY <3>3
        <4> QED BY <3>3, <4>1, <4>2 DEF room
      <3>8. m \in 0 .. Len(s)
        BY <3>4, <3>5, <3>6, <3>7
      <3>9. PICK p \in Seq(Nat) : p = SubSeq(s, 1, m) /\ Len(p) = m
        BY <3>8, Prefix
      <3>10. PICK n \in Seq(Nat) : n = p \o t /\ Len(n) = Len(p) + Len(t)
        BY <3>1, ConcatProperties
      <3>11. PICK e \in Seq(Nat) : e = SubSeq(slot.bytes, Len(n) + 1, Len(slot.bytes))
        <4>1. \A i \in Len(n) + 1 .. Len(slot.bytes) : slot.bytes[i] \in Nat
          BY <1>0
        <4>2. Len(n) + 1 \in Int /\ Len(slot.bytes) \in Int
          BY <1>0
        <4>3. SubSeq(slot.bytes, Len(n) + 1, Len(slot.bytes)) \in Seq(Nat)
          BY <4>1, <4>2, SubSeqProperties
        <4> QED BY <4>3, Zenon
      <3>12. PICK b \in Seq(Nat) : b = n \o e
        BY ConcatProperties
      <3>13. PICK r : r = Store(c, v, slot)
        OBVIOUS
      <3>14. r = [ind |-> Len(s), bytes |-> b]
        BY <2>2, <2>4, <3>9, <3>10, <3>11, <3>12, <3>13 DEF Store, t, room, m
      <3>15. r \in Slots /\ r.ind = Len(s) /\ r.bytes = b
        BY <3>4, <3>14 DEF Slots
      <3>16. Content(c, r) = SubSeq(b, 1, IF Len(s) <= Size(c) THEN Len(s) ELSE Size(c))
        <4>1. Min({r.ind, Size(c)}) = IF Len(s) <= Size(c) THEN Len(s) ELSE Size(c)
          <5>1. PICK l \in Int, z \in Int : l = Len(s) /\ z = Size(c)
            BY <3>3, <3>4
          <5>2. Min({l, z}) = IF l <= z THEN l ELSE z
            BY MinTwo
          <5> QED BY <3>15, <5>1, <5>2, Zenon
        <4> QED BY <2>4, <3>15, <4>1 DEF Content
      <3>17. CASE Len(s) <= room
        <4>1. Len(s) <= Size(c) /\ m = Len(s)
          BY <3>1, <3>3, <3>4, <3>6, <3>17 DEF room
        <4>2. p = s
          BY <3>9, <4>1, SubSeqFull
        <4>3. PICK q \in Seq(Nat) : q = t
          BY <3>1, Zenon
        <4>4. n = s \o q
          BY <3>10, <4>2, <4>3, Zenon
        <4>5. SubSeq(b, 1, Len(s)) = s
          BY <3>12, <4>4, PrefixOfMore
        <4>6. Content(c, r) = s
          BY <3>16, <4>1, <4>5
        <4> QED BY <2>2, <2>4, <3>13, <3>15, <4>6 DEF Filled
      <3>18. CASE ~(Len(s) <= room)
        <4>1. CType(c.stype) = "CHAR" /\ ~Decimal(c.stype)
          BY <3>5, <3>18
        <4>2. /\ Len(s) >= Size(c) /\ m = Size(c) - 1 /\ Len(n) = Size(c)
              /\ (IF Len(s) <= Size(c) THEN Len(s) ELSE Size(c)) = Size(c)
          <5>1. Len(t) = 1 /\ room = Size(c) - 1 /\ m = room
            BY <3>6, <3>7, <3>18, <4>1, Zenon
          <5>2. Len(s) >= Size(c) /\ m = Size(c) - 1
            BY <3>3, <3>4, <3>18, <5>1
          <5>3. Len(n) = Size(c)
            BY <3>3, <3>9, <3>10, <5>1
          <5> QED BY <3>3, <3>4, <5>2, <5>3
        <4>3. SubSeq(b, 1, Len(n)) = n
          BY <3>12, PrefixOf
        <4>4. Content(c, r) = n
          BY <3>16, <4>2, <4>3
        <4>5. n = CutBytes(c, v)
          BY <2>2, <3>2, <3>9, <3>10, <4>1, <4>2, Zenon DEF CutBytes
        <4>6. r.ind = Len(v.data) /\ Content(c, r) = CutBytes(c, v) /\ Len(v.data) >= Size(c) /\ ~v.null
          BY <2>2, <3>4, <3>15, <4>2, <4>4, <4>5
        <4>7. Filled(c, v, r)
          BY <2>4, <4>1, <4>6 DEF Filled
        <4> QED BY <3>13, <3>15, <4>7
      <3> QED BY <3>17, <3>18
    <2> QED BY <2>3, <2>4
  <1> QED BY <1>1, <1>2

\* The parts of a Go value, and of one in a slot.
LEMMA OfParts ==
  ASSUME NEW k, NEW x
  PROVE  Of(k, x).val = x /\ Of(k, x).kind = k
  BY DEF Of

LEMMA AtParts ==
  ASSUME NEW k, NEW x, NEW n
  PROVE  /\ At(n, Of(k, x)).val = x /\ At(n, Of(k, x)).kind = k /\ At(n, Of(k, x)).slot = n
         /\ Copy(Of(k, x)).val = x /\ Copy(Of(k, x)).kind = k /\ Copy(Of(k, x)).slot = 0
  BY DEF Of, At, Copy

LEMMA CopyParts ==
  ASSUME NEW w
  PROVE  Copy(w).val = w.val /\ Copy(w).kind = w.kind /\ Copy(w).slot = 0
  BY DEF At, Copy

\* What becomes of a value: its kind, the text that is too long, and the memory
\* that may be shared with a slot.
KindRead == IF Fixed(col.stype) THEN TypeScan(col.stype) ELSE "bytes"
LongText(d) == Wide(col.stype) /\ Elements(CType(col.stype), d) > MaxElements
Handed == CType(col.stype) \in {"CHAR", "BINARY"} /\ ~Decimal(col.stype)

\* What a client expects of a value that is not NULL.
LEMMA ExpectedIs ==
  ASSUME NEW v
  PROVE  /\ Decimal(col.stype) => Expected(v) = Pointed(v.data)
         /\ CType(col.stype) = "WCHAR" => Expected(v) = Text(FromLittleEndian(v.data))
         /\ CType(col.stype) = "DBCHAR" => Expected(v) = Text(BigUnits(v.data))
         /\ ~Decimal(col.stype) /\ ~Wide(col.stype) => Expected(v) = v.data
  <1>1. ~(Decimal(col.stype) /\ CType(col.stype) = "WCHAR")
    BY DEF Decimal, CType
  <1>2. Decimal(col.stype) => CType(col.stype) /= "DBCHAR"
    BY DEF Decimal, CType
  <1> QED BY <1>1, <1>2 DEF Expected, Wide, BigUnits

\* The text of a wide type, decoded, is what a client expects.
LEMMA DecodedRight ==
  ASSUME NEW d \in Seq(Nat), NEW v, v.data = d, Wide(col.stype)
  PROVE  Decoded(CType(col.stype), d) = Expected(v)
  <1>1. PICK u : u = UnitsOf(CType(col.stype), d)
    OBVIOUS
  <1>2. Decoded(CType(col.stype), d) = Text(u)
    BY <1>1, UnitsType
  <1>3. CASE CType(col.stype) = "WCHAR"
    <2>1. u = FromLittleEndian(v.data)
      BY <1>1, <1>3, Zenon DEF UnitsOf
    <2>2. Expected(v) = Text(FromLittleEndian(v.data))
      BY <1>3, ExpectedIs
    <2> QED BY <1>2, <2>1, <2>2, Zenon
  <1>4. CASE CType(col.stype) = "DBCHAR"
    <2>1. u = BigUnits(v.data)
      <3>1. CType(col.stype) /= "WCHAR"
        BY <1>4
      <3> QED BY <1>1, <3>1, Zenon DEF UnitsOf
    <2>2. Expected(v) = Text(BigUnits(v.data))
      BY <1>4, ExpectedIs
    <2> QED BY <1>2, <2>1, <2>2, Zenon
  <1> QED BY <1>3, <1>4 DEF Wide

\* What BaseValue makes of the bytes of a value is what a client expects of it.
LEMMA BaseExact ==
  ASSUME NEW d \in Seq(Nat), NEW v, v.data = d, NEW n, NEW b, b = BaseValue(col.stype, d, n)
  PROVE  /\ \/ Wide(col.stype) /\ d = <<>> /\ b.kind = "nil"
            \/ LongText(d) /\ b.kind = "panic"
            \/ b.kind = KindRead /\ b.val = Expected(v)
         /\ b.slot = 0 \/ Handed
  <1> DEFINE t == col.stype
  <1>0. /\ Fixed(t) => ~Decimal(t) /\ ~Wide(t)
        /\ Decimal(t) => ~Wide(t)
    BY DEF Fixed, Decimal, CType, Wide
  <1>1. CASE Fixed(t)
    <2>1. b = Copy(Of(TypeScan(t), d))
      BY <1>0, <1>1 DEF BaseValue
    <2>3. Expected(v) = d
      <3>1. ~Decimal(t) /\ ~Wide(t)
        BY <1>1 DEF Fixed, Decimal, CType, Wide
      <3> QED BY <3>1, ExpectedIs
    <2>4. b.val = d /\ b.kind = TypeScan(t) /\ b.slot = 0
      BY <2>1, AtParts
    <2> QED BY <1>1, <2>3, <2>4 DEF KindRead
  <1>2. CASE Decimal(t)
    <2>0. CType(t) = "CHAR"
      BY <1>2 DEF Decimal, CType
    <2>1. ~Fixed(t)
      BY <2>0 DEF Fixed
    <2>2. b = Copy(Of("bytes", Pointed(d)))
      BY <1>0, <1>2, <2>1 DEF BaseValue
    <2>3. b.val = Pointed(d) /\ b.kind = "bytes" /\ b.slot = 0
      BY <2>2, AtParts
    <2> QED BY <1>2, <2>1, <2>3, ExpectedIs DEF KindRead
  <1>3. CASE Wide(t)
    <2>1. ~Fixed(t) /\ ~Decimal(t)
      BY <1>3 DEF Fixed, Wide, Decimal, CType
    <2>2. PICK w : w = WideValue(CType(t), d)
      OBVIOUS
    <2>3. b = Copy(w)
      BY <1>3, <2>1, <2>2 DEF BaseValue
    <2>4. b.kind = w.kind /\ b.val = w.val /\ b.slot = 0
      BY <2>3, CopyParts
    <2>5. \/ d = <<>> /\ w.kind = "nil"
          \/ Elements(CType(t), d) > MaxElements /\ w.kind = "panic"
          \/ w.kind = "bytes" /\ w.val = Decoded(CType(t), d)
      BY <2>2, WideRight
    <2>6. Decoded(CType(t), d) = Expected(v)
      BY <1>3, DecodedRight
    <2> QED BY <1>3, <2>1, <2>4, <2>5, <2>6 DEF KindRead, LongText
  <1>4. CASE ~Fixed(t) /\ ~Decimal(t) /\ ~Wide(t)
    <2>1. b = At(n, Of("bytes", d))
      BY <1>4 DEF BaseValue
    <2>2. b.val = d /\ b.kind = "bytes"
      BY <2>1, AtParts
    <2>3. Handed
      BY <1>4 DEF Handed, Fixed, Wide
    <2> QED BY <1>4, <2>2, <2>3, ExpectedIs DEF KindRead
  <1> QED BY <1>1, <1>2, <1>3, <1>4

\* As long as a row is current its slot holds its value.
SlotsInv ==
  /\ col \in Columns /\ bound \in BOOLEAN /\ (bound => Bindable(col))
  /\ slots \in [1 .. FetchSize -> Slots]
  /\ \E n \in 0 .. FetchSize : rows \in [1 .. n -> Values(col)]
  /\ bound => \A i \in DOMAIN rows : Filled(col, rows[i], slots[i])

\* A row of the rowset, and its slot.
LEMMA RowTypes ==
  ASSUME SlotsInv, NEW i \in DOMAIN rows
  PROVE  i \in 1 .. FetchSize /\ i \in DOMAIN slots /\ slots[i] \in Slots /\ rows[i] \in Values(col)
  <1>1. PICK n \in 0 .. FetchSize : rows \in [1 .. n -> Values(col)]
    BY DEF SlotsInv
  <1>2. FetchSize \in Nat
    BY ColumnValuesAssumption
  <1>3. i \in 1 .. FetchSize
    BY <1>1, <1>2
  <1> QED BY <1>1, <1>3 DEF SlotsInv

\* The bytes of a value are numbers.
LEMMA RowData ==
  ASSUME SlotsInv, NEW i \in DOMAIN rows
  PROVE  rows[i].null \in BOOLEAN /\ (~rows[i].null => rows[i].data \in Seq(Nat))
  <1>1. rows[i] \in Values(col) /\ col \in Columns
    BY RowTypes DEF SlotsInv
  <1>2. rows[i] = Null \/ \E s \in Seq(Nat) : rows[i] = Data(s)
    BY <1>1, ValueForm
  <1>3. CASE rows[i] = Null
    <2>1. rows[i].null
      BY <1>3 DEF Null
    <2> QED BY <2>1
  <1>4. CASE \E s \in Seq(Nat) : rows[i] = Data(s)
    <2>1. PICK s \in Seq(Nat) : rows[i] = Data(s)
      BY <1>4
    <2>2. rows[i].null = FALSE /\ rows[i].data = s
      BY <2>1 DEF Data
    <2> QED BY <2>2
  <1> QED BY <1>2, <1>3, <1>4

\* A length that looks like NULL is no small one ...
LEMMA NullLengthIs ==
  ASSUME NEW n \in Nat, NullLength(n)
  PROVE  n % Int16Range = Int16Range - 1 /\ n >= Int16Range - 1 /\ n > 1
  <1>1. Int16Range \in Nat /\ Int16Range > 3
    BY ColumnValuesAssumption
  <1>2. n % Int16Range = Int16Range - 1
    BY DEF NullLength
  <1>3. \A r \in Nat \ {0} : n < r => n % r = n
    OBVIOUS
  <1>4. ~(n < Int16Range - 1)
    <2> SUFFICES ASSUME n < Int16Range - 1 PROVE FALSE
      OBVIOUS
    <2>1. n % Int16Range = n
      BY <1>1, <1>3
    <2> QED BY <1>1, <1>2, <2>1
  <1> QED BY <1>1, <1>2, <1>4

\* ... and as the length of a last chunk it follows a chunk of the first buffer.
LEMMA LastChunkNull ==
  ASSUME NEW n \in Nat, NEW l \in LastChunks(n), NullLength(l)
  PROVE  n >= Int16Range + FirstBuffer - 3
  <1> DEFINE t == Len(Terminator(CType(col.stype)))
             chunk == FirstBuffer - t
  <1>1. t \in 0 .. 2
    BY TerminatorType
  <1> HIDE DEF t
  <1>2. /\ Int16Range \in Nat /\ FirstBuffer \in Nat /\ 2 < FirstBuffer
        /\ FirstBuffer < Int16Range - 1
    BY ColumnValuesAssumption
  <1>3. chunk \in Int /\ chunk >= FirstBuffer - 2 /\ chunk <= FirstBuffer
    BY <1>1, <1>2
  <1>4. l \in IF n <= chunk THEN {n} ELSE {k \in 1 .. n - chunk : (n - k) % chunk = 0}
    BY DEF LastChunks, t
  <1> HIDE DEF chunk
  <1>5. l \in Nat
    BY <1>4
  <1>6. l >= Int16Range - 1
    BY <1>5, NullLengthIs
  <1>7. CASE n <= chunk
    BY <1>2, <1>3, <1>4, <1>6, <1>7
  <1>8. CASE ~(n <= chunk)
    <2>1. l <= n - chunk
      BY <1>3, <1>4, <1>8
    <2> QED BY <1>2, <1>3, <1>5, <1>6, <2>1
  <1> QED BY <1>7, <1>8

\* What the driver takes from the slot of row i.
LEMMA SlotContent ==
  ASSUME SlotsInv, bound, NEW i \in DOMAIN rows
  PROVE  /\ rows[i].null => NullLength(slots[i].ind)
         /\ ~rows[i].null =>
              /\ NullLength(slots[i].ind) => Len(rows[i].data) % Int16Range = Int16Range - 1
              /\ \/ Slot(i) = rows[i].data
                 \/ /\ CType(col.stype) = "CHAR" /\ ~Decimal(col.stype)
                    /\ Len(rows[i].data) >= Size(col) /\ Slot(i) = CutBytes(col, rows[i])
  <1>1. Filled(col, rows[i], slots[i])
    BY DEF SlotsInv
  <1>2. Slot(i) = Content(col, slots[i])
    BY DEF Slot, boundDataLen, Content
  <1>3. rows[i].null \in BOOLEAN /\ (~rows[i].null => rows[i].data \in Seq(Nat))
    BY RowData
  <1>4. rows[i].null => NullLength(slots[i].ind)
    BY <1>1 DEF Filled, NullLength
  <1>5. ASSUME ~rows[i].null, NullLength(slots[i].ind)
        PROVE  Len(rows[i].data) % Int16Range = Int16Range - 1
    <2>1. Len(rows[i].data) \in Nat
      BY <1>3, <1>5
    <2>2. slots[i].ind = IF Fixed(col.stype) THEN 1 ELSE Len(rows[i].data)
      BY <1>1, <1>5 DEF Filled
    <2>3. PICK n \in Nat : n = slots[i].ind
      BY <2>1, <2>2
    <2>4. n % Int16Range = Int16Range - 1 /\ n > 1
      BY <1>5, <2>3, NullLengthIs
    <2>5. n = Len(rows[i].data)
      BY <2>2, <2>3, <2>4
    <2> QED BY <2>4, <2>5
  <1>6. ~rows[i].null =>
          \/ Slot(i) = rows[i].data
          \/ /\ CType(col.stype) = "CHAR" /\ ~Decimal(col.stype)
             /\ Len(rows[i].data) >= Size(col) /\ Slot(i) = CutBytes(col, rows[i])
    BY <1>1, <1>2, <1>3 DEF Filled
  <1> QED BY <1>3, <1>4, <1>5, <1>6

\* What is read of a row v as the value x: NULL, a panic, or what is expected.
LooksLikeNull(v) == IF bound THEN Len(v.data) % Int16Range = Int16Range - 1
                    ELSE Len(v.data) >= Int16Range + FirstBuffer - 3
CutTo(v, x) == /\ bound /\ CType(col.stype) = "CHAR" /\ ~Decimal(col.stype)
               /\ Len(v.data) >= Size(col) /\ x.val = CutBytes(col, v)
TakenForNull(v) == LooksLikeNull(v) \/ (Wide(col.stype) /\ v.data = <<>>)
RowRead(v, x) ==
  \/ v.null /\ x.kind = "nil"
  \/ ~v.null /\ x.kind = "nil" /\ TakenForNull(v)
  \/ ~v.null /\ x.kind = "panic" /\ LongText(v.data)
  \/ ~v.null /\ x.kind = KindRead /\ (x.val = Expected(v) \/ CutTo(v, x))
Keeps(x) == x.slot = 0 \/ (bound /\ Handed)

LEMMA KindsRead == KindRead \notin {"nil", "error", "panic"}
  BY DEF KindRead, TypeScan

\* A cut text.
LEMMA CutValue ==
  ASSUME CType(col.stype) = "CHAR", ~Decimal(col.stype), NEW d, NEW n, NEW b,
         b = BaseValue(col.stype, d, n)
  PROVE  b.kind = KindRead /\ b.val = d /\ Handed
  <1>1. ~Fixed(col.stype) /\ ~Wide(col.stype)
    BY DEF Fixed, Wide
  <1>2. b = At(n, Of("bytes", d))
    BY <1>1 DEF BaseValue
  <1>3. b.kind = "bytes" /\ b.val = d
    BY <1>2, AtParts
  <1> QED BY <1>1, <1>3 DEF KindRead, Handed

\* Value, of a bound column and of one that is not.
LEMMA ValueRead ==
  ASSUME SlotsInv, NEW i \in DOMAIN rows, NEW x \in Value(i)
  PROVE  RowRead(rows[i], x) /\ Keeps(x)
  <1>0. PICK r : r = rows[i]
    OBVIOUS
  <1>1. r.null \in BOOLEAN /\ (~r.null => r.data \in Seq(Nat)) /\ bound \in BOOLEAN
    BY <1>0, RowData DEF SlotsInv
  <1>2. Copy(Nil).kind = "nil" /\ Copy(Nil).slot = 0
    BY DEF Copy, At, Nil, Of
  <1>3. CASE bound
    <2>1. x = IF NullLength(slots[i].ind) THEN Copy(Nil) ELSE BaseValue(col.stype, Slot(i), i)
      BY <1>3 DEF Value
    <2>2. /\ r.null => NullLength(slots[i].ind)
          /\ ~r.null =>
               /\ NullLength(slots[i].ind) => Len(r.data) % Int16Range = Int16Range - 1
               /\ \/ Slot(i) = r.data
                  \/ /\ CType(col.stype) = "CHAR" /\ ~Decimal(col.stype)
                     /\ Len(r.data) >= Size(col) /\ Slot(i) = CutBytes(col, r)
      BY <1>0, <1>3, SlotContent
    <2>3. CASE NullLength(slots[i].ind)
      <3>1. x.kind = "nil" /\ x.slot = 0
        BY <1>2, <2>1, <2>3
      <3>2. ~r.null => LooksLikeNull(r)
        BY <1>3, <2>2, <2>3 DEF LooksLikeNull
      <3> QED BY <1>0, <1>1, <3>1, <3>2 DEF RowRead, Keeps, TakenForNull
    <2>4. CASE ~NullLength(slots[i].ind)
      <3>0. ~r.null
        BY <1>1, <2>2, <2>4
      <3>1. x = BaseValue(col.stype, Slot(i), i)
        BY <2>1, <2>4
      <3>2. PICK d \in Seq(Nat) : d = r.data
        BY <1>1, <3>0
      <3>3. CASE Slot(i) = d
        <4>1. x = BaseValue(col.stype, d, i)
          BY <3>1, <3>3
        <4>2. /\ \/ Wide(col.stype) /\ d = <<>> /\ x.kind = "nil"
                 \/ LongText(d) /\ x.kind = "panic"
                 \/ x.kind = KindRead /\ x.val = Expected(r)
              /\ x.slot = 0 \/ Handed
          BY <3>2, <4>1, BaseExact
        <4> QED BY <1>0, <1>3, <3>0, <3>2, <4>2, Zenon DEF RowRead, Keeps, TakenForNull
      <3>4. CASE Slot(i) /= d
        <4>1. /\ CType(col.stype) = "CHAR" /\ ~Decimal(col.stype)
              /\ Len(r.data) >= Size(col) /\ Slot(i) = CutBytes(col, r)
          BY <2>2, <3>0, <3>2, <3>4
        <4>2. x.kind = KindRead /\ x.val = CutBytes(col, r) /\ Handed
          BY <3>1, <4>1, CutValue
        <4>3. CutTo(r, x)
          BY <1>3, <4>1, <4>2 DEF CutTo
        <4> QED BY <1>0, <1>3, <3>0, <4>2, <4>3, Zenon DEF RowRead, Keeps
      <3> QED BY <3>3, <3>4
    <2> QED BY <2>3, <2>4
  <1>4. CASE ~bound /\ r.null
    <2>1. x = Copy(Nil)
      BY <1>0, <1>4 DEF Value
    <2> QED BY <1>0, <1>2, <1>4, <2>1 DEF RowRead, Keeps
  <1>5. CASE ~bound /\ ~r.null
    <2>1. PICK d \in Seq(Nat) : d = r.data /\ d = rows[i].data
      BY <1>0, <1>1, <1>5
    <2>2. PICK n \in LastChunks(Len(d)) :
             x = IF NullLength(n) THEN Copy(Nil) ELSE BaseValue(col.stype, d, 0)
      BY <1>0, <1>5, <2>1 DEF Value
    <2>3. CASE NullLength(n)
      <3>1. x.kind = "nil" /\ x.slot = 0
        BY <1>2, <2>2, <2>3
      <3>2. Len(d) >= Int16Range + FirstBuffer - 3
        <4>1. Len(d) \in Nat
          OBVIOUS
        <4> QED BY <2>3, <4>1, LastChunkNull
      <3>3. LooksLikeNull(r)
        BY <1>5, <2>1, <3>2 DEF LooksLikeNull
      <3> QED BY <1>0, <1>5, <3>1, <3>3 DEF RowRead, Keeps, TakenForNull
    <2>4. CASE ~NullLength(n)
      <3>1. PICK k : x = BaseValue(col.stype, d, k) /\ k = 0
        BY <2>2, <2>4
      <3>2. /\ \/ Wide(col.stype) /\ d = <<>> /\ x.kind = "nil"
               \/ LongText(d) /\ x.kind = "panic"
               \/ x.kind = KindRead /\ x.val = Expected(r)
            /\ x.slot = 0 \/ Handed
        <4>1. r.data = d /\ d \in Seq(Nat) /\ x = BaseValue(col.stype, d, k)
          BY <2>1, <3>1
        <4> QED BY <4>1, BaseExact
      <3>3. x.slot = 0
        <4>1. \A y : At(0, y).slot = 0 /\ Copy(y).slot = 0
          BY DEF Copy, At
        <4> QED BY <3>1, <4>1 DEF BaseValue
      <3> QED BY <1>0, <1>5, <2>1, <3>2, <3>3, Zenon DEF RowRead, Keeps, TakenForNull
    <2> QED BY <2>3, <2>4
  <1> QED BY <1>1, <1>3, <1>4, <1>5

\* The element types that ReadBatch is given for a column.
LEMMA SuitedTypes ==
  ASSUME NEW t \in Suited(col.stype)
  PROVE  /\ t \notin {"error", "nil", "panic"}
         /\ Fixed(col.stype) => t = TypeScan(col.stype)
         /\ ~Fixed(col.stype) => t \in {"string", "bytes"}
  <1>1. ~Fixed(col.stype) => TypeScan(col.stype) \in {"string", "bytes"}
    BY DEF Fixed, TypeScan
  <1>2. TypeScan(col.stype) \notin {"error", "nil", "panic"}
    BY DEF TypeScan
  <1> QED BY <1>1, <1>2 DEF Suited

\* What a batch stores of a row v, as z in the null mask and x in the slice.
BatchRead(v, z, x) ==
  \/ v.null /\ z /\ x.kind \notin {"error", "panic"}
  \/ ~v.null /\ z /\ (LooksLikeNull(v) \/ (Wide(col.stype) /\ v.data = <<>> /\ ~bound))
  \/ ~v.null /\ ~z /\ x.kind = "panic" /\ LongText(v.data)
  \/ /\ ~v.null /\ ~z /\ x.kind \notin {"error", "panic"}
     /\ x.val = Expected(v) \/ CutTo(v, x)
  \/ ~v.null /\ ~z /\ Wide(col.stype) /\ bound /\ x = Copy(Of("bytes", v.data))

\* What ReadBatch stores for a row of an unbound column ...
LEMMA UnboundBatch ==
  ASSUME SlotsInv, NEW i \in DOMAIN rows, ~bound, NEW t \in Suited(col.stype),
         NEW v \in Value(i), NEW x, x = UnboundElement(t, v), NEW z, z = (v.kind = "nil")
  PROVE  BatchRead(rows[i], z, x) /\ x.slot = 0
  <1>0. PICK r : r = rows[i]
    OBVIOUS
  <1>1. RowRead(r, v) /\ v.slot = 0
    BY <1>0, ValueRead DEF Keeps
  <1>2. r.null \in BOOLEAN
    BY <1>0, RowData
  <1>3. t \notin {"error", "nil", "panic"}
    BY SuitedTypes
  <1>4. CASE v.kind = "nil"
    <2>1. x = Copy(Of(t, <<>>)) /\ z
      BY <1>4 DEF UnboundElement
    <2>2. x.kind = t /\ x.slot = 0
      BY <2>1, AtParts
    <2>3. ~r.null => TakenForNull(r)
      BY <1>1, <1>4, KindsRead DEF RowRead
    <2> QED BY <1>0, <1>2, <1>3, <2>1, <2>2, <2>3 DEF BatchRead, TakenForNull
  <1>5. CASE v.kind = "panic"
    <2>1. ~(v.kind = t \/ {v.kind, t} \subseteq {"string", "bytes"})
      BY <1>3, <1>5
    <2>2. x = v /\ ~z
      BY <1>5, <2>1 DEF UnboundElement
    <2>3. ~r.null /\ LongText(r.data)
      BY <1>1, <1>5, KindsRead DEF RowRead
    <2> QED BY <1>0, <1>1, <1>5, <2>2, <2>3 DEF BatchRead
  <1>6. CASE v.kind \notin {"nil", "panic"}
    <2>1. ~r.null /\ v.kind = KindRead /\ v.val = Expected(r)
      BY <1>1, <1>6 DEF RowRead, CutTo
    <2>2. v.kind = t \/ {v.kind, t} \subseteq {"string", "bytes"}
      BY <2>1, SuitedTypes DEF KindRead
    <2>3. x = [v EXCEPT !.kind = t] /\ ~z
      BY <1>6, <2>2 DEF UnboundElement
    <2>4. DOMAIN v = {"kind", "val", "slot"}
      <3>1. \A n, y : DOMAIN At(n, y) = {"kind", "val", "slot"}
        BY DEF At
      <3>2. \E n, y : v = At(n, y)
        <4>1. PICK d, n : v = BaseValue(col.stype, d, n) \/ v = Copy(Nil)
          BY DEF Value
        <4> QED BY <4>1, Zenon DEF BaseValue, Copy
      <3> QED BY <3>1, <3>2
    <2>5. x.kind = t /\ x.val = v.val /\ x.slot = v.slot
      BY <2>3, <2>4
    <2> QED BY <1>0, <1>1, <1>3, <2>1, <2>3, <2>5 DEF BatchRead
  <1> QED BY <1>4, <1>5, <1>6

\* ... and for a row of a bound one.
LEMMA BoundBatch ==
  ASSUME SlotsInv, NEW i \in DOMAIN rows, bound, NEW t \in Suited(col.stype),
         NEW x, x = BoundElement(t, i), NEW z, z = NullLength(slots[i].ind)
  PROVE  BatchRead(rows[i], z, x) /\ x.slot = 0
  <1>0. PICK r : r = rows[i]
    OBVIOUS
  <1>1. r.null \in BOOLEAN /\ (~r.null => r.data \in Seq(Nat))
    BY <1>0, RowData
  <1>2. /\ r.null => NullLength(slots[i].ind)
        /\ ~r.null =>
             /\ NullLength(slots[i].ind) => Len(r.data) % Int16Range = Int16Range - 1
             /\ \/ Slot(i) = r.data
                \/ /\ CType(col.stype) = "CHAR" /\ ~Decimal(col.stype)
                   /\ Len(r.data) >= Size(col) /\ Slot(i) = CutBytes(col, r)
    BY <1>0, SlotContent
  <1>3. t \notin {"error", "nil", "panic"}
    BY SuitedTypes
  <1>4. CASE NullLength(slots[i].ind)
    <2>1. x = Copy(Of(t, <<>>)) /\ z
      BY <1>4 DEF BoundElement
    <2>2. x.kind = t /\ x.slot = 0
      BY <2>1, AtParts
    <2>3. ~r.null => LooksLikeNull(r)
      BY <1>2, <1>4 DEF LooksLikeNull
    <2> QED BY <1>0, <1>1, <1>3, <2>1, <2>2, <2>3 DEF BatchRead
  <1>5. CASE ~NullLength(slots[i].ind)
    <2>0. ~r.null /\ ~z
      BY <1>1, <1>2, <1>5
    <2>1. PICK d \in Seq(Nat) : d = r.data
      BY <1>1, <2>0
    <2>2. CASE t = "string" /\ CType(col.stype) = "WCHAR"
      <3>0. Wide(col.stype) /\ Slot(i) = d
        BY <1>2, <2>0, <2>1, <2>2 DEF Wide
      <3>1. PICK w : w = WideValue("WCHAR", d)
        OBVIOUS
      <3>2. x = Copy(IF w.kind = "panic" THEN w ELSE Of(t, w.val))
        BY <1>5, <2>2, <3>0, <3>1, Zenon DEF BoundElement
      <3>3. x.slot = 0
        BY <3>2 DEF Copy, At
      <3>4. Decoded("WCHAR", d) = Expected(r)
        BY <2>1, <2>2, <3>0, DecodedRight
      <3>5. CASE d = <<>> /\ w.kind = "nil" /\ w.val = <<>>
        <4>1. x = Copy(Of(t, <<>>))
          BY <3>2, <3>5
        <4>2. x.kind = t /\ x.val = <<>>
          BY <4>1, AtParts
        <4>3. Expected(r) = <<>>
          <5>1. PICK u \in Seq(Nat) : u = UnitsOf("WCHAR", d) /\ Len(u) = Len(d) \div 2
                                      /\ Decoded("WCHAR", d) = Text(u)
            BY UnitsType, Zenon
          <5>2. Len(u) = 0
            BY <3>5, <5>1
          <5> QED BY <3>4, <5>1, <5>2, EmptyText
        <4> QED BY <1>0, <1>3, <2>0, <3>3, <4>2, <4>3 DEF BatchRead
      <3>6. CASE Elements("WCHAR", d) > MaxElements /\ w.kind = "panic"
        <4>1. x = Copy(w)
          BY <3>2, <3>6
        <4>2. x.kind = "panic"
          BY <3>6, <4>1, CopyParts
        <4>3. LongText(r.data)
          BY <2>1, <2>2, <3>0, <3>6 DEF LongText
        <4> QED BY <1>0, <2>0, <3>3, <4>2, <4>3 DEF BatchRead
      <3>7. CASE w.kind = "bytes" /\ w.val = Decoded("WCHAR", d)
        <4>1. x = Copy(Of(t, Expected(r)))
          BY <3>2, <3>4, <3>7
        <4>2. x.kind = t /\ x.val = Expected(r)
          BY <4>1, AtParts
        <4> QED BY <1>0, <1>3, <2>0, <3>3, <4>2 DEF BatchRead
      <3> QED BY <3>1, <3>5, <3>6, <3>7, WideRight
    <2>3. CASE ~(t = "string" /\ CType(col.stype) = "WCHAR")
      <3> DEFINE e == IF Decimal(col.stype) THEN Pointed(Slot(i)) ELSE Slot(i)
      <3>1. x = Copy(Of(t, e))
        BY <1>5, <2>3, Zenon DEF BoundElement
      <3>2. x.kind = t /\ x.val = e /\ x.slot = 0
        BY <3>1, AtParts
      <3>3. CASE Slot(i) /= d
        <4>1. CutTo(r, x)
          BY <1>2, <2>0, <2>1, <3>2, <3>3 DEF CutTo
        <4> QED BY <1>0, <1>3, <2>0, <3>2, <4>1 DEF BatchRead
      <3>4. CASE Slot(i) = d /\ ~Wide(col.stype)
        <4>1. x.val = Expected(r)
          BY <2>1, <3>2, <3>4, ExpectedIs
        <4> QED BY <1>0, <1>3, <2>0, <3>2, <4>1 DEF BatchRead
      <3>5. CASE Slot(i) = d /\ Wide(col.stype)
        <4>1. CType(col.stype) = "WCHAR" /\ ~Decimal(col.stype) /\ ~Fixed(col.stype)
          <5>1. CType(col.stype) /= "DBCHAR"
            BY Sizes DEF SlotsInv
          <5> QED BY <3>5, <5>1 DEF Wide, Decimal, CType, Fixed
        <4>2. t = "bytes" /\ e = d
          BY <2>3, <3>5, <4>1, SuitedTypes
        <4>3. x = Copy(Of("bytes", r.data))
          BY <2>1, <3>1, <4>2
        <4> QED BY <1>0, <2>0, <3>2, <3>5, <4>3 DEF BatchRead
      <3> QED BY <3>3, <3>4, <3>5
    <2> QED BY <2>2, <2>3
  <1> QED BY <1>4, <1>5

\* Memory shared with the slots is handed out by Next alone.
SharedInv == got.value.slot = 0 \/ (got.how = "next" /\ got.bound /\ Handed)

\* The inductive invariant.
ColumnInv == SlotsInv /\ NextExact /\ BatchExact /\ SharedInv

\* What was said of a value holds as long as neither it nor the column changes.
LEMMA ReadStands ==
  ASSUME NextExact, BatchExact, SharedInv, got' = got, col' = col
  PROVE  NextExact' /\ BatchExact' /\ SharedInv'
  <1>1. NextExact'
    BY DEF NextExact, Exact, CutText, LooksNull, TooWide, Expected
  <1>2. BatchExact'
    BY DEF BatchExact, Exact, CutText, LooksNull, TooWide, Expected
  <1>3. SharedInv'
    BY DEF SharedInv, Handed
  <1> QED BY <1>1, <1>2, <1>3

\* One lemma for each action.
LEMMA ColumnStart == ColumnInit => ColumnInv
  <1> SUFFICES ASSUME ColumnInit PROVE ColumnInv
    OBVIOUS
  <1>0. FetchSize \in Nat
    BY ColumnValuesAssumption
  <1>1. col \in Columns /\ bound \in BOOLEAN /\ (bound => Bindable(col))
    BY DEF ColumnInit
  <1>2. slots \in [1 .. FetchSize -> Slots]
    <2>1. PICK n \in Nat : n = Size(col)
      BY <1>1, Sizes
    <2>2. Zeros(n) \in Seq(Nat)
      BY DEF Zeros
    <2>3. [ind |-> 0, bytes |-> Zeros(Size(col))] \in Slots
      BY <2>1, <2>2 DEF Slots
    <2> QED BY <2>3 DEF ColumnInit
  <1>3. rows = <<>>
    BY DEF ColumnInit
  <1>4. SlotsInv
    <2>1. 0 \in 0 .. FetchSize
      BY <1>0
    <2>2. rows \in [1 .. 0 -> Values(col)] /\ DOMAIN rows = {}
      BY <1>3
    <2> QED BY <1>1, <1>2, <2>1, <2>2 DEF SlotsInv
  <1>5. got.how = "none" /\ got.value.slot = 0
    BY DEF ColumnInit, NotRead, Copy, At
  <1> QED BY <1>4, <1>5 DEF ColumnInv, NextExact, BatchExact, SharedInv

LEMMA ColumnFetch == ColumnInv /\ Fetch => ColumnInv'
  <1> SUFFICES ASSUME ColumnInv, Fetch PROVE ColumnInv'
    OBVIOUS
  <1>0. FetchSize \in Nat \ {0} /\ SlotsInv
    BY ColumnValuesAssumption DEF ColumnInv
  <1>1. col' = col /\ bound' = bound /\ got' = got
    BY DEF Fetch
  <1>2. PICK n \in 1 .. IF bound THEN FetchSize ELSE 1 :
           /\ rows' \in [1 .. n -> Values(col)]
           /\ slots' = IF bound
                       THEN [i \in DOMAIN slots |-> IF i <= n THEN Store(col, rows'[i], slots[i])
                                                    ELSE slots[i]]
                       ELSE slots
    BY DEF Fetch
  <1>3. n \in 0 .. FetchSize /\ n \in Nat
    BY <1>0, <1>2
  <1>4. slots \in [1 .. FetchSize -> Slots] /\ DOMAIN slots = 1 .. FetchSize
        /\ col \in Columns /\ bound \in BOOLEAN /\ (bound => Bindable(col))
    BY <1>0 DEF SlotsInv
  <1>5. ASSUME bound, NEW i \in 1 .. n
        PROVE  /\ i \in 1 .. FetchSize
               /\ slots'[i] = Store(col, rows'[i], slots[i])
               /\ slots'[i] \in Slots /\ Filled(col, rows'[i], slots'[i])
    <2>1. i \in 1 .. FetchSize /\ i <= n
      BY <1>0, <1>3
    <2>2. slots'[i] = Store(col, rows'[i], slots[i])
      BY <1>2, <1>4, <1>5, <2>1
    <2>3. PICK v \in Values(col), o \in Slots : v = rows'[i] /\ o = slots[i]
      BY <1>2, <1>4, <2>1
    <2>4. Store(col, v, o) \in Slots /\ Filled(col, v, Store(col, v, o))
      BY <1>4, <1>5, StoreFills
    <2> QED BY <2>1, <2>2, <2>3, <2>4, Zenon
  <1>6. slots' \in [1 .. FetchSize -> Slots]
    <2>1. CASE bound
      <3>1. ASSUME NEW i \in 1 .. FetchSize PROVE slots'[i] \in Slots
        <4>1. CASE i <= n
          <5>1. i \in 1 .. n
            BY <1>3, <4>1
          <5> QED BY <1>5, <2>1, <5>1
        <4>2. CASE ~(i <= n)
          <5>1. slots'[i] = slots[i]
            BY <1>2, <1>4, <2>1, <4>2
          <5> QED BY <1>4, <5>1
        <4> QED BY <4>1, <4>2
      <3>2. slots' = [i \in 1 .. FetchSize |-> slots'[i]]
        BY <1>2, <1>4, <2>1
      <3> QED BY <3>1, <3>2
    <2>2. CASE ~bound
      BY <1>2, <1>4, <2>2
    <2> QED BY <2>1, <2>2
  <1>7. DOMAIN rows' = 1 .. n
    BY <1>2
  <1>8. SlotsInv'
    <2>1. \E k \in 0 .. FetchSize : rows' \in [1 .. k -> Values(col)]
      BY <1>2, <1>3
    <2>2. bound => \A i \in DOMAIN rows' : Filled(col, rows'[i], slots'[i])
      BY <1>5, <1>7
    <2> QED BY <1>1, <1>4, <1>6, <2>1, <2>2 DEF SlotsInv
  <1>9. NextExact' /\ BatchExact' /\ SharedInv'
    BY <1>1, ReadStands DEF ColumnInv
  <1> QED BY <1>8, <1>9 DEF ColumnInv

\* Reading a row changes got only.
LEMMA ReadKeeps ==
  ASSUME SlotsInv, NEW h, NEW i, NEW z, NEW x, Read(h, i, z, x)
  PROVE  /\ SlotsInv' /\ col' = col
         /\ got'.how = h /\ got'.row = rows[i] /\ got'.null = z /\ got'.value = x
         /\ got'.bound = bound
  <1>1. col' = col /\ bound' = bound /\ slots' = slots /\ rows' = rows
    BY DEF Read
  <1>2. SlotsInv'
    BY <1>1 DEF SlotsInv
  <1>3. /\ got'.how = h /\ got'.row = rows[i] /\ got'.null = z /\ got'.value = x
        /\ got'.bound = bound
    BY DEF Read
  <1> QED BY <1>1, <1>2, <1>3

LEMMA ColumnNext1 == ColumnInv /\ Next1 => ColumnInv'
  <1> SUFFICES ASSUME ColumnInv, Next1 PROVE ColumnInv'
    OBVIOUS
  <1>0. SlotsInv
    BY DEF ColumnInv
  <1>1. PICK i \in DOMAIN rows : \E v \in Value(i) : Read("next", i, v.kind = "nil", v)
    BY DEF Next1
  <1>2. PICK x \in Value(i) : Read("next", i, x.kind = "nil", x)
    BY <1>1
  <1>3. PICK z : z = (x.kind = "nil")
    OBVIOUS
  <1>4. Read("next", i, z, x)
    BY <1>2, <1>3
  <1>5. /\ SlotsInv' /\ col' = col
        /\ got'.how = "next" /\ got'.row = rows[i] /\ got'.null = z /\ got'.value = x
        /\ got'.bound = bound
    BY <1>0, <1>4, ReadKeeps
  <1>6. RowRead(rows[i], x) /\ Keeps(x) /\ rows[i].null \in BOOLEAN
    BY <1>0, ValueRead, RowData
  <1>7. NextExact'
    <2>1. CASE rows[i].null
      <3>1. Exact'
        BY <1>3, <1>5, <1>6, <2>1 DEF RowRead, Exact
      <3> QED BY <3>1 DEF NextExact
    <2>2. CASE ~rows[i].null /\ x.kind = "nil" /\ LooksLikeNull(rows[i])
      <3>1. LooksNull(got.row)'
        BY <1>3, <1>5, <2>2 DEF LooksNull, LooksLikeNull
      <3> QED BY <3>1 DEF NextExact
    <2>3. CASE ~rows[i].null /\ x.kind = "nil" /\ Wide(col.stype) /\ rows[i].data = <<>>
      BY <1>3, <1>5, <2>3 DEF NextExact
    <2>4. CASE ~rows[i].null /\ x.kind = "panic" /\ LongText(rows[i].data)
      <3>1. TooWide(got.row)'
        BY <1>5, <2>4 DEF TooWide, LongText
      <3> QED BY <3>1 DEF NextExact
    <2>5. CASE ~rows[i].null /\ x.kind = KindRead /\ x.val = Expected(rows[i])
      <3>0. Expected(got.row)' = Expected(rows[i])
        BY <1>5 DEF Expected
      <3>1. Exact'
        BY <1>3, <1>5, <1>6, <2>5, <3>0, KindsRead DEF Exact
      <3> QED BY <3>1 DEF NextExact
    <2>6. CASE ~rows[i].null /\ CutTo(rows[i], x)
      <3>1. CutText(got.row)'
        BY <1>5, <2>6 DEF CutText, CutTo, CutBytes
      <3> QED BY <3>1 DEF NextExact
    <2> QED BY <1>6, <2>1, <2>2, <2>3, <2>4, <2>5, <2>6 DEF RowRead, TakenForNull
  <1>8. BatchExact' /\ SharedInv'
    BY <1>5, <1>6 DEF BatchExact, SharedInv, Keeps, Handed
  <1> QED BY <1>5, <1>7, <1>8 DEF ColumnInv

LEMMA ColumnBatch == ColumnInv /\ ReadBatch => ColumnInv'
  <1> SUFFICES ASSUME ColumnInv, ReadBatch PROVE ColumnInv'
    OBVIOUS
  <1>0. SlotsInv /\ bound \in BOOLEAN
    BY DEF ColumnInv, SlotsInv
  <1>1. PICK i \in DOMAIN rows, t \in Suited(col.stype) :
          IF bound THEN Read("batch", i, NullLength(slots[i].ind), BoundElement(t, i))
          ELSE \E v \in Value(i) : Read("batch", i, v.kind = "nil", UnboundElement(t, v))
    BY DEF ReadBatch
  <1>2. \E z, x : z \in BOOLEAN /\ Read("batch", i, z, x) /\ BatchRead(rows[i], z, x) /\ x.slot = 0
    <2>1. CASE bound
      <3>1. PICK z, x : z \in BOOLEAN /\ z = NullLength(slots[i].ind) /\ x = BoundElement(t, i)
        BY DEF NullLength
      <3>2. BatchRead(rows[i], z, x) /\ x.slot = 0
        BY <1>0, <2>1, <3>1, BoundBatch
      <3>3. Read("batch", i, z, x)
        BY <1>1, <2>1, <3>1
      <3>4. z \in BOOLEAN /\ Read("batch", i, z, x) /\ BatchRead(rows[i], z, x) /\ x.slot = 0
        BY <3>1, <3>2, <3>3, Zenon
      <3> QED BY <3>4, Zenon
    <2>2. CASE ~bound
      <3>1. PICK v \in Value(i) : Read("batch", i, v.kind = "nil", UnboundElement(t, v))
        BY <1>1, <2>2
      <3>2. PICK z, x : z \in BOOLEAN /\ z = (v.kind = "nil") /\ x = UnboundElement(t, v)
        OBVIOUS
      <3>3. BatchRead(rows[i], z, x) /\ x.slot = 0
        BY <1>0, <2>2, <3>2, UnboundBatch
      <3>4. Read("batch", i, z, x)
        BY <3>1, <3>2
      <3>5. z \in BOOLEAN /\ Read("batch", i, z, x) /\ BatchRead(rows[i], z, x) /\ x.slot = 0
        BY <3>2, <3>3, <3>4, Zenon
      <3> QED BY <3>5, Zenon
    <2> QED BY <1>0, <2>1, <2>2
  <1>3. PICK z, x : z \in BOOLEAN /\ Read("batch", i, z, x) /\ BatchRead(rows[i], z, x) /\ x.slot = 0
    BY <1>2
  <1>4. /\ SlotsInv' /\ col' = col
        /\ got'.how = "batch" /\ got'.row = rows[i] /\ got'.null = z /\ got'.value = x
        /\ got'.bound = bound
    BY <1>0, <1>3, ReadKeeps
  <1>5. BatchExact'
    <2>0. rows[i].null \in BOOLEAN
      BY <1>0, RowData
    <2>1. CASE rows[i].null /\ z /\ x.kind \notin {"error", "panic"}
      <3>1. Exact'
        BY <1>4, <2>1 DEF Exact
      <3> QED BY <3>1 DEF BatchExact
    <2>2. CASE ~rows[i].null /\ z /\ LooksLikeNull(rows[i])
      <3>1. LooksNull(got.row)'
        BY <1>4, <2>2 DEF LooksNull, LooksLikeNull
      <3> QED BY <3>1 DEF BatchExact
    <2>3. CASE ~rows[i].null /\ z /\ Wide(col.stype) /\ rows[i].data = <<>> /\ ~bound
      BY <1>4, <2>3 DEF BatchExact
    <2>4. CASE ~rows[i].null /\ ~z /\ x.kind = "panic" /\ LongText(rows[i].data)
      <3>1. TooWide(got.row)'
        BY <1>4, <2>4 DEF TooWide, LongText
      <3> QED BY <3>1 DEF BatchExact
    <2>5. CASE ~rows[i].null /\ ~z /\ x.kind \notin {"error", "panic"} /\ x.val = Expected(rows[i])
      <3>0. Expected(got.row)' = Expected(rows[i])
        BY <1>4 DEF Expected
      <3>1. Exact'
        BY <1>3, <1>4, <2>0, <2>5, <3>0 DEF Exact
      <3> QED BY <3>1 DEF BatchExact
    <2>6. CASE ~rows[i].null /\ CutTo(rows[i], x)
      <3>1. CutText(got.row)'
        BY <1>4, <2>6 DEF CutText, CutTo, CutBytes
      <3> QED BY <3>1 DEF BatchExact
    <2>7. CASE ~z /\ Wide(col.stype) /\ bound /\ x = Copy(Of("bytes", rows[i].data))
      BY <1>4, <2>7 DEF BatchExact
    <2> QED BY <1>3, <2>1, <2>2, <2>3, <2>4, <2>5, <2>6, <2>7 DEF BatchRead
  <1>6. NextExact' /\ SharedInv'
    BY <1>3, <1>4 DEF NextExact, SharedInv
  <1> QED BY <1>4, <1>5, <1>6 DEF ColumnInv

\* The invariant holds in every state: it is kept by a fetch, which stores rows
\* in the slots, and by both ways of reading a row.
THEOREM ColumnInductive == ColumnSpec => []ColumnInv
  <1>1. ColumnInv /\ [ColumnNext]_columnVars => ColumnInv'
    <2> SUFFICES ASSUME ColumnInv, [ColumnNext]_columnVars PROVE ColumnInv'
      OBVIOUS
    <2>1. CASE UNCHANGED columnVars
      <3>1. /\ col' = col /\ bound' = bound /\ slots' = slots /\ rows' = rows /\ got' = got
        BY <2>1 DEF columnVars
      <3>2. SlotsInv'
        BY <3>1 DEF ColumnInv, SlotsInv
      <3>3. NextExact' /\ BatchExact' /\ SharedInv'
        BY <3>1, ReadStands DEF ColumnInv
      <3> QED BY <3>2, <3>3 DEF ColumnInv
    <2> QED BY <2>1, ColumnFetch, ColumnNext1, ColumnBatch DEF ColumnNext
  <1> QED BY <1>1, ColumnStart, PTL DEF ColumnSpec

\* Next gives the value the server has, in a column of any type and size: what
\* is in the slot of its row, or what SQLGetData reads; with the exceptions that
\* NextExact names: cut texts, the lengths that IsNull takes for NULL, and the
\* wide texts that are empty or longer than the array they are cast to.
THEOREM NextRight == ColumnSpec => []NextExact
  <1>1. ColumnInv => NextExact
    BY DEF ColumnInv
  <1> QED BY <1>1, ColumnInductive, PTL

\* So does a batch, whatever element type the column is read into, with the
\* exceptions of BatchExact, for bound columns as for those that are not.
THEOREM BatchRight == ColumnSpec => []BatchExact
  <1>1. ColumnInv => BatchExact
    BY DEF ColumnInv
  <1> QED BY <1>1, ColumnInductive, PTL

\* No fetch changes what was read before, in a batch or by Next, except for
\* the values of bound columns that Next does not copy.
THEOREM ReadUnchanged == ColumnSpec => ReadStays
  <1>1. ColumnInv /\ [ColumnNext]_columnVars =>
          [got' = got =>
             \/ Held' = Held
             \/ got.how = "next" /\ got.bound /\ CType(col.stype) \in {"CHAR", "BINARY"}
                /\ ~Decimal(col.stype)]_columnVars
    <2> SUFFICES ASSUME ColumnInv, got' = got,
                        ~(got.how = "next" /\ got.bound /\ CType(col.stype) \in {"CHAR", "BINARY"}
                          /\ ~Decimal(col.stype))
                 PROVE  Held' = Held
      OBVIOUS
    <2>1. got.value.slot = 0
      BY DEF ColumnInv, SharedInv, Handed
    <2> QED BY <2>1 DEF Held
  <1> QED BY <1>1, ColumnInductive, PTL DEF ColumnSpec, ReadStays

------------------------------------------------------------------------------
(***************************************************************************)
(* ParamValues: strings and arrays of strings arrive; and what Exec leaves *)
(* in the variable of an sql.Out.                                          *)
(***************************************************************************)

\* One string in a slot of n units.
FilledTo(s, n, zos) ==
  LET u == StringToUTF16(s, zos) IN IF Len(u) < n THEN Padded(u, n) ELSE u

\* It is the string up to a NUL, whatever is on its right.
LEMMA FilledRight ==
  ASSUME NEW s \in Seq(Nat), NEW n \in Nat, Len(Utf8(s)) + 1 <= n, NEW zos \in BOOLEAN
  PROVE  /\ FilledTo(s, n, zos) \in Seq(Nat) /\ Len(FilledTo(s, n, zos)) = n
         /\ UpToNul(FilledTo(s, n, zos)) = UpToNul(Utf16(s))
  <1>1. PICK a \in Seq(Nat) : a = Utf16(s) /\ Len(a) \in Nat /\ Len(a) < n
    <2>1. /\ Utf8(s) \in Seq(Nat) /\ Utf16(s) \in Seq(Nat)
          /\ Len(Utf16(s)) <= Len(Utf8(s))
      BY Utf16Shorter
    <2>2. Len(Utf8(s)) \in Nat /\ Len(Utf16(s)) \in Nat
      BY <2>1
    <2>3. Len(Utf16(s)) < n
      BY <2>1, <2>2
    <2> QED BY <2>1, <2>2, <2>3, Zenon
  <1> DEFINE z == IF zos THEN <<>> ELSE <<0>>
  <1>2. z \in Seq(Nat) /\ Len(z) <= 1 /\ Len(z) \in Nat /\ (\A i \in 1 .. Len(z) : z[i] = 0)
        /\ (zos => Len(z) = 0) /\ (~zos => Len(z) = 1)
    <2>1. CASE zos
      <3>1. z = <<>>
        BY <2>1
      <3> HIDE DEF z
      <3>2. z \in Seq(Nat) /\ Len(z) = 0
        BY <3>1
      <3> QED BY <2>1, <3>2
    <2>2. CASE ~zos
      <3>1. z = <<0>>
        BY <2>2
      <3> HIDE DEF z
      <3>2. z \in Seq(Nat) /\ Len(z) = 1 /\ z[1] = 0
        BY <3>1
      <3> QED BY <2>2, <3>2
    <2> QED BY <2>1, <2>2
  <1>9. StringToUTF16(s, zos) = a \o z
    BY <1>1, Zenon DEF StringToUTF16
  <1> HIDE DEF z
  <1>3. PICK u \in Seq(Nat) : u = a \o z /\ Len(u) = Len(a) + Len(z)
    <2>1. PICK y \in Seq(Nat) : y = z
      BY <1>2, Zenon
    <2>2. a \o y \in Seq(Nat) /\ Len(a \o y) = Len(a) + Len(y)
      BY ConcatProperties
    <2> QED BY <2>1, <2>2, Zenon
  <1>4. u = StringToUTF16(s, zos)
    BY <1>3, <1>9, Zenon
  <1>5. Len(u) <= n
    BY <1>1, <1>2, <1>3
  <1>6. CASE Len(u) < n
    <2>1. PICK y \in Seq(Nat) : y = Zeros(n - Len(u)) /\ Len(y) = n - Len(u)
                                /\ \A i \in 1 .. Len(y) : y[i] = 0
      <3>1. n - Len(u) \in Int /\ n - Len(u) >= 0
        BY <1>6
      <3> QED BY <3>1, ZerosType
    <2>4. PICK c \in Seq(Nat) : c = u \o y /\ Len(c) = n
      <3>1. u \o y \in Seq(Nat) /\ Len(u \o y) = Len(u) + Len(y)
        BY ConcatProperties
      <3>2. Len(u) + Len(y) = n
        BY <1>6, <2>1
      <3> QED BY <3>1, <3>2, Zenon
    <2>2. \A i \in 1 .. Len(a) : c[i] = a[i]
      <3>1. \A i \in 1 .. Len(a) : u[i] = a[i] /\ i \in 1 .. Len(u)
        BY <1>3
      <3>2. \A i \in 1 .. Len(u) : c[i] = u[i]
        BY <2>4
      <3> QED BY <3>1, <3>2, Zenon
    <2>3. c[Len(a) + 1] = 0
      <3>1. CASE Len(z) = 0
        <4>1. 1 \in 1 .. Len(y) /\ Len(u) = Len(a)
          BY <1>3, <1>6, <2>1, <3>1
        <4>2. c[Len(u) + 1] = y[1]
          BY <2>4, <4>1
        <4> QED BY <2>1, <4>1, <4>2, Zenon
      <3>2. CASE Len(z) /= 0
        <4>1. 1 \in 1 .. Len(z) /\ Len(a) + 1 \in 1 .. Len(u)
          BY <1>2, <1>3, <3>2
        <4>2. u[Len(a) + 1] = z[1]
          BY <1>3, <4>1
        <4>3. c[Len(a) + 1] = u[Len(a) + 1]
          BY <2>4, <4>1
        <4> QED BY <1>2, <4>1, <4>2, <4>3, Zenon
      <3> QED BY <3>1, <3>2
    <2>5. Len(a) \in 0 .. Len(a) /\ Len(a) <= Len(c)
      BY <1>1, <2>4
    <2>6. UpToNul(c) = UpToNul(SubSeq(a, 1, Len(a)))
      BY <2>2, <2>3, <2>5, UpToNulAgree
    <2>7. UpToNul(c) = UpToNul(a)
      BY <2>6, SubSeqFull
    <2>8. FilledTo(s, n, zos) = c
      BY <1>4, <1>6, <2>1, <2>4 DEF FilledTo, Padded
    <2> QED BY <1>1, <2>4, <2>7, <2>8, Zenon
  <1>7. CASE ~(Len(u) < n)
    <2>1. FilledTo(s, n, zos) = u /\ Len(u) = n
      BY <1>4, <1>5, <1>7 DEF FilledTo
    <2>2. z /= <<>> /\ z[1] = 0
      BY <1>1, <1>2, <1>3, <1>7
    <2>3. UpToNul(u) = UpToNul(a)
      <3>1. PICK y \in Seq(Nat) : y = z
        BY <1>2, Zenon
      <3>2. u = a \o y /\ y /= <<>> /\ y[1] = 0
        BY <1>3, <2>2, <3>1, Zenon
      <3> QED BY <3>2, UpToNulPadded
    <2> QED BY <1>1, <2>1, <2>3, Zenon
  <1> QED BY <1>6, <1>7

\* The slots of two strings in memory: both are of n units and hold their strings up to a NUL.
SlotsOf(s, t, size, data) ==
  \E a, b \in Seq(Nat), n \in Nat :
    /\ size = 2 * n /\ Len(a) = n /\ Len(b) = n
    /\ data = LittleEndian(a \o b)
    /\ UpToNul(a) = UpToNul(Utf16(s)) /\ UpToNul(b) = UpToNul(Utf16(t))

\* The inductive invariant of StringsArrive.
StringsInv ==
  /\ param.mode \in Modes
  /\ param.mode = "in" => before.val \in Strings
  /\ param.mode = "array" => \E s, t \in Strings : before.val = <<s, t>>
  /\ pc = "bound" /\ param.mode = "in" =>
       SubSeq(buf.data, 1, buf.size) = LittleEndian(Utf16(before.val))
  /\ pc = "bound" /\ param.mode = "array" =>
       SlotsOf(before.val[1], before.val[2], buf.size, buf.data)
  /\ pc = "executed" => param.mode \in {"inout", "out"}
  /\ StringsArrive

\* One lemma for each action.
LEMMA StringsStart == ParamInit => StringsInv
  <1> SUFFICES ASSUME ParamInit PROVE StringsInv
    OBVIOUS
  <1>1. pc = "new"
    BY DEF ParamInit
  <1>2. PICK p \in ParamTypes : IF p.stype = "WVARCHAR" THEN InitIn(p) \/ InitOut(p) ELSE InitOut(p)
    BY DEF ParamInit
  <1>3. CASE InitIn(p)
    <2>1. PICK mode \in {"in", "array"} :
            param = [stype |-> p.stype, size |-> p.size, mode |-> mode, dest |-> "none", nilDest |-> FALSE]
      BY <1>3, Zenon DEF InitIn
    <2>2. param.mode \in {"in", "array"}
      BY <2>1
    <2>3. CASE param.mode = "in"
      <3>1. PICK s \in Strings : before = Of("string", s)
        BY <1>3, <2>3 DEF InitIn
      <3>2. before.val \in Strings
        BY <3>1 DEF Of
      <3> QED BY <1>1, <2>3, <3>2 DEF StringsInv, StringsArrive, Modes
    <2>4. CASE param.mode = "array"
      <3>1. PICK s \in Strings, t \in Strings : before = Of("strings", <<s, t>>)
        BY <1>3, <2>4 DEF InitIn
      <3>2. \E v, w \in Strings : before.val = <<v, w>>
        BY <3>1 DEF Of
      <3> QED BY <1>1, <2>4, <3>2 DEF StringsInv, StringsArrive, Modes
    <2> QED BY <2>2, <2>3, <2>4
  <1>4. CASE InitOut(p)
    <2>1. param.mode \in {"inout", "out"}
      BY <1>4 DEF InitOut
    <2> QED BY <1>1, <2>1 DEF StringsInv, StringsArrive, Modes
  <1> QED BY <1>2, <1>3, <1>4

\* Only an empty string has no units.
LEMMA Utf16Some ==
  ASSUME NEW s \in Seq(Nat), Utf16(s) = <<>>
  PROVE  s = <<>>
  <1> SUFFICES ASSUME s /= <<>> PROVE FALSE
    OBVIOUS
  <1>0. Len(s) \in Nat /\ Len(s) >= 1 /\ \A i \in 1 .. Len(s) : s[i] \in Nat
    OBVIOUS
  <1>1. PICK w \in Seq(Seq(Nat)) : Utf16(s) = FlattenSeq(w) /\ Len(w) = Len(s)
                                  /\ \A i \in 1 .. Len(s) : w[i] = Units16(s[i])
    BY StringPieces, Zenon
  <1>2. w /= <<>>
    BY <1>0, <1>1
  <1>3. PICK f \in [1 .. Len(w) -> Seq(Nat)] :
           /\ f[1] = w[1]
           /\ \A i \in 1 .. Len(w) - 1 : f[i + 1] = f[i] \o w[i + 1]
           /\ FlattenSeq(w) = f[Len(w)]
    BY <1>2, FlattenUnfold, Zenon
  <1>4. \A i \in 1 .. Len(w) : w[i] \in Seq(Nat) /\ Len(w[i]) >= 1
    <2>1. \A r \in Nat : Len(Units16(r)) >= 1
      BY DEF Units16
    <2>2. \A i \in 1 .. Len(w) : Len(w[i]) >= 1
      BY <1>0, <1>1, <2>1, Zenon
    <2> QED BY <2>2
  <1>5. CASE Len(w) = 1
    <2>1. FlattenSeq(w) = w[1] /\ Len(w[1]) >= 1
      BY <1>3, <1>4, <1>5
    <2> QED BY <1>1, <2>1
  <1>6. CASE Len(w) /= 1
    <2>0. PICK n \in Nat : n = Len(w) /\ n >= 1
      BY <1>0, <1>1, Zenon
    <2> DEFINE k == n - 1
    <2>1. k \in Nat /\ k \in 1 .. n - 1 /\ k \in 1 .. n /\ k + 1 \in 1 .. n /\ k + 1 = n
      BY <1>6, <2>0
    <2> HIDE DEF k
    <2>2. PICK x \in Seq(Nat), y \in Seq(Nat) : x = f[k] /\ y = w[k + 1] /\ Len(y) >= 1
      BY <1>4, <2>0, <2>1
    <2>3. FlattenSeq(w) = x \o y
      BY <1>3, <2>0, <2>1, <2>2, Zenon
    <2>4. Len(x \o y) \in Nat /\ Len(x \o y) >= 1
      <3>1. Len(x \o y) = Len(x) + Len(y)
        BY ConcatProperties
      <3>2. Len(x) \in Nat /\ Len(y) \in Nat /\ Len(y) >= 1
        BY <2>2
      <3> QED BY <3>1, <3>2
    <2>5. x \o y = <<>>
      BY <1>1, <2>3, Zenon
    <2> QED BY <2>4, <2>5
  <1> QED BY <1>5, <1>6

\* The bytes of the first units are the first bytes.
LEMMA LittleEndianFirst ==
  ASSUME NEW u \in Seq(Nat), NEW x \in Seq(Nat), Len(u) <= Len(x),
         \A i \in 1 .. Len(u) : x[i] = u[i]
  PROVE  SubSeq(LittleEndian(x), 1, 2 * Len(u)) = LittleEndian(u)
  <1>1. PICK c \in Seq(Nat) : c = LittleEndian(u) /\ Len(c) = 2 * Len(u) /\ Len(u) \in Nat
    BY LittleEndianType
  <1>2. PICK b \in Seq(Nat) : b = LittleEndian(x) /\ Len(b) = 2 * Len(x) /\ Len(x) \in Nat
    BY LittleEndianType
  <1>3. \A i \in 1 .. 2 * Len(u) : b[i] = c[i]
    <2> SUFFICES ASSUME NEW i \in 1 .. 2 * Len(u) PROVE b[i] = c[i]
      OBVIOUS
    <2>1. i \in 1 .. 2 * Len(x) /\ i \in Nat
      BY <1>1, <1>2
    <2>2. c[i] = IF i % 2 = 1 THEN u[(i + 1) \div 2] % 256 ELSE u[i \div 2] \div 256
      BY <1>1 DEF LittleEndian
    <2>3. b[i] = IF i % 2 = 1 THEN x[(i + 1) \div 2] % 256 ELSE x[i \div 2] \div 256
      BY <1>2, <2>1 DEF LittleEndian
    <2>4. CASE i % 2 = 1
      <3>1. (i + 1) \div 2 \in 1 .. Len(u)
        BY <1>1, <2>4
      <3> QED BY <2>2, <2>3, <2>4, <3>1
    <2>5. CASE i % 2 /= 1
      <3>1. i \div 2 \in 1 .. Len(u)
        BY <1>1, <2>5
      <3> QED BY <2>2, <2>3, <2>5, <3>1
    <2> QED BY <2>4, <2>5
  <1>4. 2 * Len(u) \in 0 .. Len(b)
    BY <1>1, <1>2
  <1>5. PICK n \in Nat : n = 2 * Len(u) /\ n \in 0 .. Len(b) /\ Len(c) = n
    BY <1>1, <1>4
  <1>6. PICK a \in Seq(Nat) : a = SubSeq(b, 1, n) /\ Len(a) = n /\ \A i \in 1 .. n : a[i] = b[i]
    <2>1. /\ SubSeq(b, 1, n) \in Seq(Nat) /\ Len(SubSeq(b, 1, n)) = n
          /\ \A i \in 1 .. n : SubSeq(b, 1, n)[i] = b[i]
      BY <1>5, Prefix
    <2> QED BY <2>1, Zenon
  <1>7. a = c
    <2>1. a \in Seq(Nat) /\ c \in Seq(Nat) /\ Len(a) = Len(c)
      BY <1>1, <1>5, <1>6, Zenon
    <2>2. \A i \in 1 .. Len(a) : a[i] = c[i]
      BY <1>3, <1>5, <1>6, Zenon
    <2> QED BY <2>1, <2>2, SeqEqual
  <1> QED BY <1>1, <1>2, <1>5, <1>6, <1>7, Zenon

LEMMA StringBound == StringsInv /\ BindString => StringsInv'
  <1> SUFFICES ASSUME StringsInv, BindString PROVE StringsInv'
    OBVIOUS
  <1>1. /\ pc = "new" /\ param.mode = "in" /\ pc' \in {"bound", "panic"}
        /\ param' = param /\ before' = before /\ sent' = sent /\ variable' = variable
    BY DEF BindString
  <1>2. PICK s : s \in Strings /\ s = before.val /\ s \in Seq(Nat)
    BY <1>1, ParamValuesAssumption DEF StringsInv
  <1>3. PICK u \in Seq(Nat) : u = Utf16(s) /\ Len(u) \in Nat
    BY <1>2, Utf16Shorter
  <1>4. PICK zos \in BOOLEAN, x \in Seq(Nat) :
          /\ x = StringToUTF16(s, zos) /\ Len(x) = Len(u) + (IF zos THEN 0 ELSE 1)
          /\ \A i \in 1 .. Len(u) : x[i] = u[i]
          /\ \/ x = <<>> /\ pc' = "panic"
             \/ /\ x /= <<>> /\ pc' = "bound"
                /\ buf' = Buffer("WCHAR", 2 * Len(x) - (IF zos THEN 0 ELSE 2), LittleEndian(x))
    <2>1. PICK zos \in BOOLEAN :
            \/ StringToUTF16(s, zos) = <<>> /\ pc' = "panic"
            \/ /\ StringToUTF16(s, zos) /= <<>> /\ pc' = "bound"
               /\ buf' = Buffer("WCHAR", 2 * Len(StringToUTF16(s, zos)) - (IF zos THEN 0 ELSE 2),
                                LittleEndian(StringToUTF16(s, zos)))
      BY <1>2, Zenon DEF BindString
    <2>2. PICK z \in Seq(Nat) : z = (IF zos THEN <<>> ELSE <<0>>) /\ Len(z) = IF zos THEN 0 ELSE 1
      <3> DEFINE z == IF zos THEN <<>> ELSE <<0>>
      <3>1. CASE zos
        <4>1. z = <<>>
          BY <3>1
        <4>2. z \in Seq(Nat) /\ Len(z) = 0
          BY <4>1
        <4> QED BY <3>1, <4>2
      <3>2. CASE ~zos
        <4>1. z = <<0>>
          BY <3>2
        <4>2. z \in Seq(Nat) /\ Len(z) = 1
          BY <4>1
        <4> QED BY <3>2, <4>2
      <3> QED BY <3>1, <3>2
    <2>3. StringToUTF16(s, zos) = u \o z
      BY <1>3, <2>2 DEF StringToUTF16
    <2>4. PICK x \in Seq(Nat) : x = u \o z /\ Len(x) = Len(u) + Len(z)
                               /\ \A i \in 1 .. Len(u) : x[i] = u[i]
      <3>1. /\ u \o z \in Seq(Nat) /\ Len(u \o z) = Len(u) + Len(z)
            /\ \A i \in 1 .. Len(u) : (u \o z)[i] = u[i]
        BY ConcatElements
      <3> QED BY <3>1, Zenon
    <2>5. Len(x) = Len(u) + (IF zos THEN 0 ELSE 1)
      BY <2>2, <2>4
    <2> QED BY <2>1, <2>3, <2>4, <2>5, Zenon
  <1>5. CASE pc' = "panic"
    <2>1. Len(u) = 0
      BY <1>3, <1>4, <1>5
    <2>2. u = <<>>
      BY <2>1
    <2>3. s = <<>>
      BY <1>2, <1>3, <2>2, Utf16Some
    <2> QED BY <1>1, <1>2, <1>5, <2>3 DEF StringsInv, StringsArrive
  <1>6. CASE pc' = "bound"
    <2>0. Len(x) = Len(u) + (IF zos THEN 0 ELSE 1) /\ Len(u) \in Nat
      BY <1>3, <1>4, Zenon
    <2>1. PICK m \in Nat : m = 2 * Len(x) - (IF zos THEN 0 ELSE 2) /\ m = 2 * Len(u)
      <3>1. CASE zos
        BY <2>0, <3>1
      <3>2. CASE ~zos
        BY <2>0, <3>2
      <3> QED BY <3>1, <3>2
    <2>2. PICK b \in Seq(Nat) : b = LittleEndian(x) /\ Len(b) = 2 * Len(x) /\ Len(x) \in Nat
      BY LittleEndianType
    <2>3. Padded(b, m) = b
      <3>1. m - Len(b) \in Int /\ m - Len(b) <= 0
        <4>1. Len(u) <= Len(x)
          BY <2>0
        <4>2. m = 2 * Len(u) /\ Len(b) = 2 * Len(x) /\ Len(x) \in Nat /\ Len(u) \in Nat
          BY <2>0, <2>1, <2>2, Zenon
        <4> QED BY <4>1, <4>2
      <3>2. Zeros(m - Len(b)) = <<>>
        BY <3>1, ZerosType
      <3>3. Padded(b, m) = b \o <<>>
        BY <3>1, <3>2 DEF Padded
      <3> QED BY <3>3, ConcatEmptySeq
    <2>4. buf' = Buffer("WCHAR", m, b)
      BY <1>4, <1>6, <2>1, <2>2, Zenon
    <2>5. buf'.data = b /\ buf'.size = m
      BY <2>3, <2>4 DEF Buffer, NoBuffer
    <2>6. Len(u) <= Len(x)
      BY <1>3, <1>4
    <2>7. SubSeq(LittleEndian(x), 1, 2 * Len(u)) = LittleEndian(u)
      BY <1>4, <2>6, LittleEndianFirst
    <2>8. SubSeq(buf'.data, 1, buf'.size) = LittleEndian(Utf16(before'.val))
      BY <1>1, <1>2, <1>3, <2>1, <2>2, <2>5, <2>7, Zenon
    <2> QED BY <1>1, <1>2, <1>6, <2>8 DEF StringsInv, StringsArrive
  <1> QED BY <1>1, <1>5, <1>6

LEMMA StringsBound == StringsInv /\ BindStrings => StringsInv'
  <1> SUFFICES ASSUME StringsInv, BindStrings PROVE StringsInv'
    OBVIOUS
  <1>1. /\ pc = "new" /\ param.mode = "array" /\ pc' = "bound"
        /\ param' = param /\ before' = before /\ sent' = sent /\ variable' = variable
    BY DEF BindStrings
  <1>2. PICK s \in Strings, t \in Strings : before.val = <<s, t>>
    BY <1>1 DEF StringsInv
  <1>3. s \in Seq(Nat) /\ t \in Seq(Nat)
    BY ParamValuesAssumption
  <1>4. PICK v : v = before.val /\ v = <<s, t>> /\ v[1] = s /\ v[2] = t /\ DOMAIN v = {1, 2}
    <2>1. PICK v : v = <<s, t>>
      OBVIOUS
    <2>2. v[1] = s /\ v[2] = t /\ DOMAIN v = {1, 2}
      BY <2>1
    <2> QED BY <1>2, <2>1, <2>2
  <1>5. PICK zos \in BOOLEAN :
          buf' = Buffer("WCHAR", 2 * MaxLen(v),
                        LittleEndian(FlattenSeq([i \in DOMAIN v |-> FilledTo(v[i], MaxLen(v), zos)])))
    BY <1>4, Zenon DEF BindStrings, FilledTo
  <1>6. PICK n \in Nat : n = MaxLen(v) /\ Len(Utf8(s)) + 1 <= n /\ Len(Utf8(t)) + 1 <= n
    <2>1. PICK x \in Nat, y \in Nat : x = Len(Utf8(s)) /\ y = Len(Utf8(t))
      BY <1>3, Utf16Shorter, LenProperties
    <2>2. {Len(Utf8(v[i])) : i \in DOMAIN v} = {x, y}
      BY <1>4, <2>1
    <2>3. MaxLen(v) = 1 + (IF x <= y THEN y ELSE x)
      BY <2>2, MaxTwo DEF MaxLen
    <2> QED BY <2>1, <2>3
  <1>7. PICK a \in Seq(Nat) : /\ a = FilledTo(s, n, zos) /\ Len(a) = n
                              /\ UpToNul(a) = UpToNul(Utf16(s))
    BY <1>3, <1>6, FilledRight
  <1>8. PICK b \in Seq(Nat) : /\ b = FilledTo(t, n, zos) /\ Len(b) = n
                              /\ UpToNul(b) = UpToNul(Utf16(t))
    BY <1>3, <1>6, FilledRight
  <1>9. [i \in DOMAIN v |-> FilledTo(v[i], n, zos)] = <<a, b>>
    BY <1>4, <1>7, <1>8
  <1>10. PICK c \in Seq(Nat) : c = a \o b /\ Len(c) = 2 * n
                               /\ c = FlattenSeq([i \in DOMAIN v |-> FilledTo(v[i], n, zos)])
    <2>1. a \o b \in Seq(Nat) /\ Len(a \o b) = Len(a) + Len(b)
      BY ConcatProperties
    <2>2. Len(a) + Len(b) = 2 * n
      BY <1>7, <1>8
    <2>3. FlattenSeq(<<a, b>>) = a \o b
      BY FlattenTwo
    <2> QED BY <1>9, <2>1, <2>2, <2>3, Zenon
  <1>11. PICK d \in Seq(Nat) : d = LittleEndian(c) /\ Len(d) = 2 * (2 * n)
    <2>1. PICK d : d = LittleEndian(c)
      OBVIOUS
    <2>2. d \in Seq(Nat) /\ Len(d) = 2 * Len(c)
      BY <2>1, LittleEndianType, Zenon
    <2> QED BY <1>10, <2>1, <2>2, Zenon
  <1>12. buf' = Buffer("WCHAR", 2 * n, d)
    BY <1>5, <1>6, <1>10, <1>11, Zenon
  <1>13. Padded(d, 2 * n) = d
    <2>1. PICK z \in Int : z = 2 * n - Len(d) /\ z <= 0
      BY <1>11
    <2>2. Zeros(z) = <<>>
      BY <2>1, ZerosType
    <2>3. Padded(d, 2 * n) = d \o <<>>
      BY <2>1, <2>2 DEF Padded
    <2> QED BY <2>3, ConcatEmptySeq
  <1>14. buf'.data = d /\ buf'.size = 2 * n
    BY <1>12, <1>13 DEF Buffer, NoBuffer
  <1>15. SlotsOf(s, t, buf'.size, buf'.data)
    <2>1. d = LittleEndian(a \o b)
      BY <1>10, <1>11, Zenon
    <2> QED BY <1>7, <1>8, <1>14, <2>1, Zenon DEF SlotsOf
  <1>16. SlotsOf(before'.val[1], before'.val[2], buf'.size, buf'.data)
    BY <1>1, <1>4, <1>15, Zenon
  <1> QED BY <1>1, <1>2, <1>16 DEF StringsInv, StringsArrive

LEMMA StringsReadIn == StringsInv /\ ReadIn => StringsInv'
  <1> SUFFICES ASSUME StringsInv, ReadIn PROVE StringsInv'
    OBVIOUS
  <1>1. /\ pc = "bound" /\ param.mode \in {"in", "array"} /\ pc' = "done"
        /\ param' = param /\ before' = before /\ buf' = buf /\ variable' = variable
    BY DEF ReadIn
  <1>2. CASE param.mode = "in"
    <2>1. PICK s : s \in Strings /\ s = before.val /\ s \in Seq(Nat)
      BY <1>2, ParamValuesAssumption DEF StringsInv
    <2>2. PICK u \in Seq(Nat) : u = Utf16(s)
      BY <2>1, Utf16Shorter
    <2>3. FromLittleEndian(SubSeq(buf.data, 1, buf.size)) = u
      <3>1. SubSeq(buf.data, 1, buf.size) = LittleEndian(u)
        BY <1>1, <1>2, <2>1, <2>2 DEF StringsInv
      <3> QED BY <3>1, LittleEndianRead
    <2>4. sent' = Of("text", u)
      BY <1>2, <2>3, Zenon DEF ReadIn
    <2>5. sent'.val = Utf16(before'.val)
      BY <1>1, <2>1, <2>2, <2>4 DEF Of
    <2> QED BY <1>1, <1>2, <2>5 DEF StringsInv, StringsArrive
  <1>3. CASE param.mode = "array"
    <2>1. PICK s \in Strings, t \in Strings : before.val = <<s, t>>
      BY <1>3 DEF StringsInv
    <2>2. PICK v : v = before.val /\ v[1] = s /\ v[2] = t /\ DOMAIN v = {1, 2}
      <3>1. PICK v : v = <<s, t>>
        OBVIOUS
      <3>2. v[1] = s /\ v[2] = t /\ DOMAIN v = {1, 2}
        BY <3>1
      <3> QED BY <2>1, <3>1, <3>2
    <2>3. PICK a \in Seq(Nat), b \in Seq(Nat), n \in Nat :
            /\ buf.size = 2 * n /\ Len(a) = n /\ Len(b) = n
            /\ buf.data = LittleEndian(a \o b)
            /\ UpToNul(a) = UpToNul(Utf16(s)) /\ UpToNul(b) = UpToNul(Utf16(t))
      <3>1. SlotsOf(s, t, buf.size, buf.data)
        BY <1>1, <1>3, <2>2 DEF StringsInv
      <3> QED BY <3>1, Zenon DEF SlotsOf
    <2>4. PICK c \in Seq(Nat) : c = a \o b /\ Len(c) = n + n
      <3>1. a \o b \in Seq(Nat) /\ Len(a \o b) = Len(a) + Len(b)
        BY ConcatProperties
      <3> QED BY <2>3, <3>1, Zenon
    <2> DEFINE SlotAt(i) == FromLittleEndian(SubSeq(buf.data, (i - 1) * buf.size + 1, i * buf.size))
    <2>5. SlotAt(1) = a
      <3>1. (1 - 1) * buf.size + 1 = 2 * 0 + 1 /\ 1 * buf.size = 2 * 0 + 2 * n /\ 0 + n <= Len(c)
        BY <2>3, <2>4
      <3>2. FromLittleEndian(SubSeq(LittleEndian(c), 2 * 0 + 1, 2 * 0 + 2 * n)) = SubSeq(c, 0 + 1, 0 + n)
        BY <3>1, LittleEndianPart
      <3>3. 0 + 1 = 1 /\ 0 + n = n
        OBVIOUS
      <3>4. SubSeq(c, 1, n) = a
        BY <2>3, <2>4, PrefixOf
      <3> QED BY <2>3, <2>4, <3>1, <3>2, <3>3, <3>4, Zenon
    <2>6. SlotAt(2) = b
      <3>1. (2 - 1) * buf.size + 1 = 2 * n + 1 /\ 2 * buf.size = 2 * n + 2 * n /\ n + n <= Len(c)
        BY <2>3, <2>4
      <3>2. FromLittleEndian(SubSeq(LittleEndian(c), 2 * n + 1, 2 * n + 2 * n)) = SubSeq(c, n + 1, n + n)
        BY <3>1, LittleEndianPart
      <3>4. SubSeq(c, n + 1, n + n) = b
        BY <2>3, <2>4, SuffixOf
      <3> QED BY <2>3, <2>4, <3>1, <3>2, <3>4, Zenon
    <2>7. sent' = Of("texts", [i \in DOMAIN v |-> UpToNul(SlotAt(i))])
      BY <1>3, <2>2 DEF ReadIn
    <2> HIDE DEF SlotAt
    <2>8. [i \in DOMAIN v |-> UpToNul(SlotAt(i))] = [i \in DOMAIN v |-> UpToNul(Utf16(v[i]))]
      <3>1. \A i \in DOMAIN v : UpToNul(SlotAt(i)) = UpToNul(Utf16(v[i]))
        <4>1. UpToNul(SlotAt(1)) = UpToNul(Utf16(v[1]))
          BY <2>2, <2>3, <2>5, Zenon
        <4>2. UpToNul(SlotAt(2)) = UpToNul(Utf16(v[2]))
          BY <2>2, <2>3, <2>6, Zenon
        <4> QED BY <2>2, <4>1, <4>2
      <3> QED BY <3>1
    <2>9. sent'.val = [i \in DOMAIN before'.val |-> UpToNul(Utf16(before'.val[i]))]
      BY <1>1, <2>2, <2>7, <2>8 DEF Of
    <2>10. \E x, y \in Strings : before'.val = <<x, y>>
      BY <1>1, <2>1
    <2> QED BY <1>1, <1>3, <2>9, <2>10 DEF StringsInv, StringsArrive, Modes
  <1> QED BY <1>1, <1>2, <1>3

LEMMA StringsOther == StringsInv /\ (newOut \/ Execute \/ Assign) => StringsInv'
  <1> SUFFICES ASSUME StringsInv, newOut \/ Execute \/ Assign PROVE StringsInv'
    OBVIOUS
  <1>1. param' = param /\ before' = before /\ param.mode \in {"inout", "out"}
    BY DEF StringsInv, newOut, Execute, Assign
  <1>2. param'.mode \in Modes /\ param'.mode \notin {"in", "array"}
    BY <1>1 DEF Modes
  <1>3. pc' /= "done"
    <2>1. newOut => pc' /= "done"
      BY DEF newOut, Ends
    <2>2. Execute => pc' /= "done"
      BY DEF Execute
    <2>3. Assign => pc' /= "done"
      <3>1. ConvertAssign(param.dest, OutValue).how \in {"ok", "error", "panic"}
        BY DEF ConvertAssign, Stored, Failed, Checked, Unchecked
      <3> QED BY <3>1, Zenon DEF Assign
    <2> QED BY <2>1, <2>2, <2>3
  <1> QED BY <1>1, <1>2, <1>3 DEF StringsInv, StringsArrive

LEMMA StringsKept == StringsInv /\ UNCHANGED paramVars => StringsInv'
  BY DEF StringsInv, StringsArrive, paramVars

\* The server gets a string, and each of the strings of an array, as it is (up
\* to a NUL), however long the others are, surrogate pairs included.
THEOREM StringsRight == ParamSpec => []StringsArrive
  <1>1. ParamInit => StringsInv
    BY StringsStart
  <1>2. StringsInv /\ [ParamNext]_paramVars => StringsInv'
    BY StringBound, StringsBound, StringsReadIn, StringsOther, StringsKept DEF ParamNext
  <1>3. StringsInv => StringsArrive
    BY DEF StringsInv
  <1> QED BY <1>1, <1>2, <1>3, PTL DEF ParamSpec

------------------------------------------------------------------------------
\* What is cut.
LEMMA CutType ==
  ASSUME NEW s \in Seq(Nat), NEW n \in Nat
  PROVE  \E m \in 0 .. Len(s) :
           /\ m <= n /\ (m = Len(s) \/ m = n)
           /\ Cut(s, n) = SubSeq(s, 1, m)
           /\ Cut(s, n) \in Seq(Nat) /\ Len(Cut(s, n)) = m
           /\ \A i \in 1 .. m : Cut(s, n)[i] = s[i]
  <1>1. PICK m \in 0 .. Len(s) : m = Min({Len(s), n}) /\ m <= n /\ (m = Len(s) \/ m = n)
    <2>1. Len(s) \in Nat
      OBVIOUS
    <2>2. Min({Len(s), n}) = IF Len(s) <= n THEN Len(s) ELSE n
      BY <2>1, MinTwo
    <2> QED BY <2>1, <2>2
  <1>2. Cut(s, n) = SubSeq(s, 1, m)
    BY <1>1 DEF Cut
  <1>3. /\ SubSeq(s, 1, m) \in Seq(Nat) /\ Len(SubSeq(s, 1, m)) = m
        /\ \A i \in 1 .. m : SubSeq(s, 1, m)[i] = s[i]
    BY Prefix
  <1> QED BY <1>1, <1>2, <1>3, Zenon

\* What is in memory after a text with its terminator has been written.
CutWritten(whole, fit, t, old, size) ==
     LET new == Cut(Cut(whole, fit) \o t, size) IN new \o SubSeq(old, Len(new) + 1, size)

WrittenHolds(whole, fit, t, old, size) ==
  \E d \in Seq(Nat), p \in Nat :
    /\ d = CutWritten(whole, fit, t, old, size) /\ Len(d) = size
    /\ p <= Len(whole) /\ p <= fit /\ (p = Len(whole) \/ p = fit)
    /\ p <= size
    /\ \A i \in 1 .. p : d[i] = whole[i]
    /\ \A i \in 1 .. size : p < i /\ i <= p + Len(t) => d[i] = 0
    /\ \A i \in 1 .. size : p + Len(t) < i => d[i] = old[i]

LEMMA WrittenIs ==
  ASSUME NEW whole \in Seq(Nat), NEW fit \in Nat, NEW t \in Seq(Nat), NEW size \in Nat,
         NEW old \in Seq(Nat), Len(old) = size, \A i \in 1 .. Len(t) : t[i] = 0,
         fit + Len(t) <= size \/ fit = 0
  PROVE  WrittenHolds(whole, fit, t, old, size)
  <1>1. PICK a \in Seq(Nat), p \in 0 .. Len(whole) :
          /\ a = Cut(whole, fit) /\ Len(a) = p
          /\ p <= fit /\ (p = Len(whole) \/ p = fit)
          /\ \A i \in 1 .. p : a[i] = whole[i]
    <2>1. \E p \in 0 .. Len(whole) :
            /\ p <= fit /\ (p = Len(whole) \/ p = fit)
            /\ Cut(whole, fit) = SubSeq(whole, 1, p)
            /\ Cut(whole, fit) \in Seq(Nat) /\ Len(Cut(whole, fit)) = p
            /\ \A i \in 1 .. p : Cut(whole, fit)[i] = whole[i]
      BY CutType, Zenon
    <2> QED BY <2>1, Zenon
  <1>2. PICK c \in Seq(Nat) :
          /\ c = a \o t /\ Len(c) = p + Len(t)
          /\ \A i \in 1 .. p : c[i] = a[i]
          /\ \A i \in 1 .. Len(t) : c[p + i] = t[i]
    <2>1. /\ a \o t \in Seq(Nat) /\ Len(a \o t) = Len(a) + Len(t)
          /\ \A i \in 1 .. Len(a) : (a \o t)[i] = a[i]
          /\ \A i \in 1 .. Len(t) : (a \o t)[Len(a) + i] = t[i]
      BY ConcatElements
    <2> QED BY <1>1, <2>1, Zenon
  <1>3. PICK m \in Nat, new \in Seq(Nat) :
          /\ new = Cut(c, size) /\ Len(new) = m /\ m <= size /\ (m = Len(c) \/ m = size)
          /\ m <= Len(c)
          /\ \A i \in 1 .. m : new[i] = c[i]
    <2>1. PICK m \in 0 .. Len(c), new \in Seq(Nat) :
            /\ new = Cut(c, size) /\ Len(new) = m /\ m <= size /\ (m = Len(c) \/ m = size)
            /\ \A i \in 1 .. m : new[i] = c[i]
      <3>1. \E m \in 0 .. Len(c) :
              /\ m <= size /\ (m = Len(c) \/ m = size)
              /\ Cut(c, size) = SubSeq(c, 1, m)
              /\ Cut(c, size) \in Seq(Nat) /\ Len(Cut(c, size)) = m
              /\ \A i \in 1 .. m : Cut(c, size)[i] = c[i]
        BY CutType, Zenon
      <3> QED BY <3>1, Zenon
    <2>2. m \in Nat /\ m <= Len(c)
      OBVIOUS
    <2> QED BY <2>1, <2>2, Zenon
  <1>4. Len(t) \in Nat /\ p \in Nat /\ m \in Nat /\ Len(whole) \in Nat
    OBVIOUS
  <1>5. PICK n \in Nat : m + n = size
    <2>1. size - m \in Nat /\ m + (size - m) = size
      BY <1>3, <1>4
    <2> QED BY <2>1
  <1>6. PICK r \in Seq(Nat) : /\ r = SubSeq(old, m + 1, m + n) /\ Len(r) = n
                              /\ \A i \in 1 .. n : r[i] = old[m + i]
    <2>1. m + n <= Len(old)
      BY <1>5
    <2>2. /\ SubSeq(old, m + 1, m + n) \in Seq(Nat) /\ Len(SubSeq(old, m + 1, m + n)) = n
          /\ \A i \in 1 .. n : SubSeq(old, m + 1, m + n)[i] = old[m + i]
      BY <2>1, PartOf
    <2> QED BY <2>2, Zenon
  <1>7. PICK d \in Seq(Nat) :
          /\ d = new \o r /\ Len(d) = m + n
          /\ \A i \in 1 .. m : d[i] = new[i]
          /\ \A i \in 1 .. n : d[m + i] = r[i]
    <2>1. /\ new \o r \in Seq(Nat) /\ Len(new \o r) = Len(new) + Len(r)
          /\ \A i \in 1 .. Len(new) : (new \o r)[i] = new[i]
          /\ \A i \in 1 .. Len(r) : (new \o r)[Len(new) + i] = r[i]
      BY ConcatElements
    <2>2. Len(new) = m /\ Len(r) = n
      BY <1>3, <1>6
    <2> QED BY <2>1, <2>2, Zenon
  <1>8. d = CutWritten(whole, fit, t, old, size)
    BY <1>1, <1>2, <1>3, <1>5, <1>6, <1>7, Zenon DEF CutWritten
  <1>9. p <= m
    BY <1>1, <1>2, <1>3, <1>4
  <1>10. \A i \in 1 .. p : d[i] = whole[i]
    <2>1. ASSUME NEW i \in 1 .. p PROVE d[i] = whole[i]
      <3>1. i \in 1 .. m
        BY <1>4, <1>9
      <3>2. d[i] = new[i] /\ new[i] = c[i]
        BY <1>3, <1>7, <3>1, Zenon
      <3>3. c[i] = a[i] /\ a[i] = whole[i]
        BY <1>1, <1>2, Zenon
      <3> QED BY <3>2, <3>3, Zenon
    <2> QED BY <2>1
  <1>11. ASSUME NEW i \in 1 .. size, p < i, i <= p + Len(t) PROVE d[i] = 0
    <2>1. PICK j \in 1 .. Len(t) : i = p + j
      <3>1. i - p \in 1 .. Len(t) /\ i = p + (i - p)
        BY <1>4, <1>11
      <3> QED BY <3>1
    <2>2. i \in 1 .. m
      BY <1>2, <1>3, <1>4, <1>11
    <2>3. d[i] = new[i] /\ new[i] = c[i]
      BY <1>3, <1>7, <2>2, Zenon
    <2>4. c[i] = t[j] /\ t[j] = 0
      BY <1>2, <2>1, Zenon
    <2> QED BY <2>3, <2>4, Zenon
  <1>12. ASSUME NEW i \in 1 .. size, p + Len(t) < i PROVE d[i] = old[i]
    <2>1. PICK j \in 1 .. n : i = m + j
      <3>1. m = p + Len(t)
        BY <1>1, <1>2, <1>3, <1>4, <1>12
      <3>2. i - m \in 1 .. n /\ i = m + (i - m)
        BY <1>4, <1>5, <1>12, <3>1
      <3> QED BY <3>2
    <2> QED BY <1>6, <1>7, <2>1, Zenon
  <1>13. p <= size /\ p <= Len(whole) /\ p \in Nat /\ Len(d) = size
    BY <1>3, <1>4, <1>5, <1>7, <1>9
  <1>14. \A i \in 1 .. size : p < i /\ i <= p + Len(t) => d[i] = 0
    BY <1>11
  <1>15. \A i \in 1 .. size : p + Len(t) < i => d[i] = old[i]
    BY <1>12
  <1> QED BY <1>1, <1>7, <1>8, <1>10, <1>13, <1>14, <1>15, Zenon DEF WrittenHolds

\* Zeros at the end are trimmed.
LEMMA TrimAgree ==
  ASSUME NEW a \in Seq(Nat), NEW c \in Seq(Nat), Len(a) <= Len(c),
         \A i \in 1 .. Len(a) : c[i] = a[i],
         \A i \in 1 .. Len(c) : Len(a) < i => c[i] = 0
  PROVE  Trim(c) = Trim(a)
  <1>0. Len(a) \in Nat /\ Len(c) \in Nat /\ DOMAIN a = 1 .. Len(a) /\ DOMAIN c = 1 .. Len(c)
    OBVIOUS
  <1> DEFINE k == {i \in DOMAIN a : a[i] /= 0}
  <1>1. {i \in DOMAIN c : c[i] /= 0} = k
    <2>1. ASSUME NEW i \in DOMAIN c, c[i] /= 0 PROVE i \in DOMAIN a /\ a[i] /= 0
      <3>1. i \in 1 .. Len(a)
        BY <1>0, <2>1
      <3> QED BY <1>0, <2>1, <3>1
    <2>2. ASSUME NEW i \in DOMAIN a, a[i] /= 0 PROVE i \in DOMAIN c /\ c[i] /= 0
      <3>1. i \in 1 .. Len(c)
        BY <1>0
      <3> QED BY <1>0, <2>2, <3>1
    <2> QED BY <2>1, <2>2
  <1>2. k \subseteq 1 .. Len(a) /\ k \subseteq Nat /\ k \subseteq 0 .. Len(a)
    BY <1>0
  <1>3. Trim(c) = (IF k = {} THEN <<>> ELSE SubSeq(c, Min(k), Max(k)))
    BY <1>1, Zenon DEF Trim
  <1>4. Trim(a) = (IF k = {} THEN <<>> ELSE SubSeq(a, Min(k), Max(k)))
    BY Zenon DEF Trim
  <1> HIDE DEF k
  <1>5. CASE k = {}
    BY <1>3, <1>4, <1>5
  <1>6. CASE k /= {}
    <2>1. PICK x \in 1 .. Len(a) : x = Min(k)
      <3>1. \E x \in k : \A y \in k : x <= y
        BY <1>2, <1>6, Least
      <3>2. Min(k) \in k
        BY <3>1 DEF Min
      <3> QED BY <1>2, <3>2
    <2>2. PICK y \in 1 .. Len(a) : y = Max(k)
      <3>1. \E h \in k : \A l \in k : h >= l
        <4>1. PICK x2 \in k : \A y \in k : y <= x2
          BY <1>0, <1>2, <1>6, Greatest
        <4>2. \A y \in k : x2 >= y
          BY <1>2, <4>1
        <4> QED BY <4>2
      <3>2. Max(k) \in k
        BY <3>1 DEF Max
      <3> QED BY <1>2, <3>2
    <2>3. \A i \in x .. y : a[i] = c[i]
      <3>1. \A i \in x .. y : i \in 1 .. Len(a)
        BY <1>0
      <3> QED BY <3>1
    <2>4. SubSeq(c, x, y) = SubSeq(a, x, y)
      <3>1. x \in Int /\ y \in Int
        OBVIOUS
      <3>2. \A i \in x .. y : a[i] \in Nat /\ c[i] \in Nat
        <4>1. \A i \in x .. y : i \in 1 .. Len(a)
          BY <1>0
        <4>2. \A i \in x .. y : a[i] \in Nat
          BY <4>1, ElementOfSeq
        <4> QED BY <2>3, <4>2
      <3>a. \A i \in x .. y : c[i] \in Nat
        BY <3>2
      <3>b. \A i \in x .. y : a[i] \in Nat
        BY <3>2
      <3>c. /\ SubSeq(c, x, y) \in Seq(Nat)
            /\ Len(SubSeq(c, x, y)) = (IF x <= y THEN y - x + 1 ELSE 0)
            /\ \A i \in 1 .. y - x + 1 : SubSeq(c, x, y)[i] = c[x + i - 1]
        BY <3>1, <3>a, SubSeqProperties
      <3>d. /\ SubSeq(a, x, y) \in Seq(Nat)
            /\ Len(SubSeq(a, x, y)) = (IF x <= y THEN y - x + 1 ELSE 0)
            /\ \A i \in 1 .. y - x + 1 : SubSeq(a, x, y)[i] = a[x + i - 1]
        BY <3>1, <3>b, SubSeqProperties
      <3>3. PICK f, g : f = SubSeq(c, x, y) /\ g = SubSeq(a, x, y)
        OBVIOUS
      <3>4. /\ f \in Seq(Nat) /\ Len(f) = (IF x <= y THEN y - x + 1 ELSE 0)
            /\ \A i \in 1 .. y - x + 1 : f[i] = c[x + i - 1]
        BY <3>c, <3>3, Zenon
      <3>5. /\ g \in Seq(Nat) /\ Len(g) = (IF x <= y THEN y - x + 1 ELSE 0)
            /\ \A i \in 1 .. y - x + 1 : g[i] = a[x + i - 1]
        BY <3>d, <3>3, Zenon
      <3>6. ASSUME NEW i \in 1 .. Len(f) PROVE f[i] = g[i]
        <4>1. i \in 1 .. y - x + 1 /\ x + i - 1 \in x .. y
          BY <3>1, <3>4
        <4> QED BY <2>3, <3>4, <3>5, <4>1, Zenon
      <3>7. f = g
        BY <3>4, <3>5, <3>6, SeqEqual
      <3> QED BY <3>3, <3>7
    <2> QED BY <1>3, <1>4, <1>6, <2>1, <2>2, <2>4, Zenon
  <1> QED BY <1>5, <1>6

\* A cut that is no longer than what is cut.
LEMMA CutIs ==
  ASSUME NEW s \in Seq(Nat), NEW j \in 0 .. Len(s)
  PROVE  /\ Cut(s, j) = SubSeq(s, 1, j) /\ Cut(s, j) \in Seq(Nat) /\ Len(Cut(s, j)) = j
         /\ \A i \in 1 .. j : Cut(s, j)[i] = s[i]
  <1>1. j \in Nat /\ Len(s) \in Nat /\ j <= Len(s)
    OBVIOUS
  <1>2. PICK m \in 0 .. Len(s) :
          /\ m <= j /\ (m = Len(s) \/ m = j)
          /\ Cut(s, j) = SubSeq(s, 1, m) /\ Cut(s, j) \in Seq(Nat) /\ Len(Cut(s, j)) = m
          /\ \A i \in 1 .. m : Cut(s, j)[i] = s[i]
    BY <1>1, CutType
  <1>3. m = j
    BY <1>1, <1>2
  <1> QED BY <1>2, <1>3, Zenon

\* A text of a wide type in memory.
Bytes16(ct, s) == IF ct = "WCHAR" THEN LittleEndian(s) ELSE BigEndian(s)

Agree(s, x, j) == \A i \in 1 .. j : s[i] = x[i]

\* Memory that holds the beginning of a text is read as that beginning.
LEMMA UnitsRead ==
  ASSUME NEW ct, NEW x \in Seq(Nat), NEW j \in Nat, j <= Len(x),
         NEW p \in Seq(Nat), 2 * j <= Len(p),
         NEW b \in Seq(Nat), b = Bytes16(ct, x), \A i \in 1 .. 2 * j : p[i] = b[i]
  PROVE  Agree(UnitsOf(ct, p), x, j)
  <1>0. Len(x) \in Nat /\ Len(p) \in Nat /\ 0 \in Nat /\ 0 + j <= Len(x) /\ \A i \in Int : 0 + i = i
    OBVIOUS
  <1>1. ASSUME NEW i \in 1 .. j
        PROVE  p[2 * i - 1] = b[2 * i - 1] /\ p[2 * i] = b[2 * i] /\ i \in 1 .. Len(x) /\ i \in Int
    <2>1. 2 * i - 1 \in 1 .. 2 * j /\ 2 * i \in 1 .. 2 * j /\ i \in 1 .. Len(x) /\ i \in Int
      BY <1>0
    <2> QED BY <2>1
  <1>2. CASE ct = "WCHAR"
    <2>1. \A i \in 1 .. Len(x) : b[2 * i - 1] = x[i] % 256 /\ b[2 * i] = x[i] \div 256
      <3>1. b = LittleEndian(x)
        BY <1>2, Zenon DEF Bytes16
      <3>2. PICK r \in Seq(Nat) : /\ r = LittleEndian(x)
                                  /\ \A i \in 1 .. Len(x) : r[2 * i - 1] = x[i] % 256 /\ r[2 * i] = x[i] \div 256
        BY LittleEndianType
      <3>3. r = b
        BY <3>1, <3>2
      <3>4. ASSUME NEW i \in 1 .. Len(x)
            PROVE  b[2 * i - 1] = x[i] % 256 /\ b[2 * i] = x[i] \div 256
        <4>1. r[2 * i - 1] = x[i] % 256 /\ r[2 * i] = x[i] \div 256
          BY <3>2, Zenon
        <4> QED BY <3>3, <4>1, Zenon
      <3> QED BY <3>4, Zenon
    <2>2. ASSUME NEW i \in 1 .. j
          PROVE  p[2 * i - 1] = x[0 + i] % 256 /\ p[2 * i] = x[0 + i] \div 256
      <3>1. 0 + i = i
        BY <1>0, <1>1
      <3>2. b[2 * i - 1] = x[i] % 256 /\ b[2 * i] = x[i] \div 256
        BY <1>1, <2>1
      <3> QED BY <1>1, <3>1, <3>2, Zenon
    <2>3. LittleEndianHolds(p, x, 0, j)
      BY <1>0, <2>2, Zenon DEF LittleEndianHolds
    <2>4. UnitsFrom(FromLittleEndian(p), x, 0, j)
      BY <1>0, <2>3, LittleEndianUnits, Zenon
    <2>5. \A i \in 1 .. j : FromLittleEndian(p)[i] = x[i]
      BY <1>0, <1>1, <2>4, Zenon DEF UnitsFrom
    <2> QED BY <1>2, <2>5, Zenon DEF UnitsOf, Agree
  <1>3. CASE ct /= "WCHAR"
    <2>1. \A i \in 1 .. Len(x) : b[2 * i - 1] = x[i] \div 256 /\ b[2 * i] = x[i] % 256
      <3>1. b = BigEndian(x)
        BY <1>3, Zenon DEF Bytes16
      <3>2. PICK r \in Seq(Nat) : /\ r = BigEndian(x)
                                  /\ \A i \in 1 .. Len(x) : r[2 * i - 1] = x[i] \div 256 /\ r[2 * i] = x[i] % 256
        BY BigEndianType
      <3>3. r = b
        BY <3>1, <3>2
      <3>4. ASSUME NEW i \in 1 .. Len(x)
            PROVE  b[2 * i - 1] = x[i] \div 256 /\ b[2 * i] = x[i] % 256
        <4>1. r[2 * i - 1] = x[i] \div 256 /\ r[2 * i] = x[i] % 256
          BY <3>2, Zenon
        <4> QED BY <3>3, <4>1, Zenon
      <3> QED BY <3>4, Zenon
    <2>2. ASSUME NEW i \in 1 .. j
          PROVE  p[2 * i - 1] = x[0 + i] \div 256 /\ p[2 * i] = x[0 + i] % 256
      <3>1. 0 + i = i
        BY <1>0, <1>1
      <3>2. b[2 * i - 1] = x[i] \div 256 /\ b[2 * i] = x[i] % 256
        BY <1>1, <2>1
      <3> QED BY <1>1, <3>1, <3>2, Zenon
    <2>3. BigEndianHolds(p, x, 0, j)
      BY <1>0, <2>2, Zenon DEF BigEndianHolds
    <2>4. UnitsFrom(BigUnits(p), x, 0, j)
      BY <1>0, <2>3, BigEndianUnits, Zenon
    <2>5. \A i \in 1 .. j : BigUnits(p)[i] = x[i]
      BY <1>0, <1>1, <2>4, Zenon DEF UnitsFrom
    <2> QED BY <1>3, <2>5, Zenon DEF UnitsOf, Agree
  <1> QED BY <1>2, <1>3

LEMMA Bytes16Type ==
  ASSUME NEW ct, NEW x \in Seq(Nat)
  PROVE  Bytes16(ct, x) \in Seq(Nat) /\ Len(Bytes16(ct, x)) = 2 * Len(x) /\ Len(x) \in Nat
  BY LittleEndianType, BigEndianType DEF Bytes16

\* The three kinds of text, written over what is in the buffer.
LEMMA CharWritten ==
  ASSUME NEW x \in Seq(Nat), NEW fit \in Nat, NEW size \in Nat,
         NEW old \in Seq(Nat), Len(old) = size, \A i \in 1 .. size : old[i] = 0,
         fit + 1 <= size \/ fit = 0
  PROVE  \E j \in 0 .. Len(x) :
           /\ Trim(CutWritten(x, fit, <<0>>, old, size)) = Trim(Cut(x, j))
           /\ j < Len(x) => j = fit
  <1>0. PICK t \in Seq(Nat) : t = <<0>> /\ Len(t) = 1 /\ \A i \in 1 .. Len(t) : t[i] = 0
    <2>1. <<0>> \in Seq(Nat)
      OBVIOUS
    <2>2. PICK t \in Seq(Nat) : t = <<0>>
      BY <2>1
    <2>3. Len(t) = 1 /\ t[1] = 0
      BY <2>2
    <2>4. \A i \in 1 .. 1 : i = 1
      OBVIOUS
    <2> QED BY <2>2, <2>3, <2>4, Zenon
  <1>1. PICK d \in Seq(Nat), p \in Nat :
          /\ d = CutWritten(x, fit, t, old, size) /\ Len(d) = size
          /\ p <= Len(x) /\ p <= fit /\ (p = Len(x) \/ p = fit)
          /\ p <= size
          /\ \A i \in 1 .. p : d[i] = x[i]
          /\ \A i \in 1 .. size : p < i /\ i <= p + Len(t) => d[i] = 0
          /\ \A i \in 1 .. size : p + Len(t) < i => d[i] = old[i]
    <2>1. fit + Len(t) <= size \/ fit = 0
      BY <1>0
    <2>2. WrittenHolds(x, fit, t, old, size)
      BY <1>0, <2>1, WrittenIs
    <2> QED BY <2>2, Zenon DEF WrittenHolds
  <1>2. p \in 0 .. Len(x)
    BY <1>1
  <1>3. PICK a \in Seq(Nat) : /\ a = Cut(x, p) /\ Len(a) = p
                              /\ \A i \in 1 .. p : a[i] = x[i]
    BY <1>2, CutIs
  <1>4. \A i \in 1 .. Len(a) : d[i] = a[i]
    BY <1>1, <1>3, Zenon
  <1>5. ASSUME NEW i \in 1 .. Len(d), Len(a) < i PROVE d[i] = 0
    <2>1. i \in 1 .. size /\ p < i /\ (i <= p + Len(t) \/ p + Len(t) < i)
      BY <1>0, <1>1, <1>3, <1>5
    <2> QED BY <1>1, <2>1, Zenon
  <1>6. Trim(d) = Trim(a)
    <2>1. Len(a) <= Len(d)
      BY <1>1, <1>3
    <2> QED BY <1>4, <1>5, <2>1, TrimAgree
  <1>7. p < Len(x) => p = fit
    BY <1>1
  <1>8. Trim(CutWritten(x, fit, <<0>>, old, size)) = Trim(Cut(x, p))
    BY <1>0, <1>1, <1>3, <1>6, Zenon
  <1> QED BY <1>2, <1>7, <1>8, Zenon

WideHolds(ct, x, fit, old, size) ==
  LET d == CutWritten(Bytes16(ct, x), fit, <<0, 0>>, old, size)
  IN  /\ Len(d) = size
      /\ \E j \in 0 .. Len(x) :
           /\ Decoded(ct, d) = Text(Cut(x, j))
           /\ j < Len(x) => 2 * j = fit

LEMMA WideWritten ==
  ASSUME NEW ct, NEW x \in Seq(Nat), NEW fit \in Nat, fit % 2 = 0, NEW size \in Nat,
         NEW old \in Seq(Nat), Len(old) = size,
         fit + 2 <= size \/ fit = 0
  PROVE  WideHolds(ct, x, fit, old, size)
  <1>0. PICK t \in Seq(Nat) : t = <<0, 0>> /\ Len(t) = 2 /\ \A i \in 1 .. Len(t) : t[i] = 0
    <2>1. <<0, 0>> \in Seq(Nat)
      OBVIOUS
    <2>2. PICK t \in Seq(Nat) : t = <<0, 0>>
      BY <2>1
    <2>3. Len(t) = 2 /\ t[1] = 0 /\ t[2] = 0
      BY <2>2
    <2>4. \A i \in 1 .. 2 : i = 1 \/ i = 2
      OBVIOUS
    <2> QED BY <2>2, <2>3, <2>4, Zenon
  <1>9. PICK b \in Seq(Nat) : b = Bytes16(ct, x) /\ Len(b) = 2 * Len(x) /\ Len(x) \in Nat
    BY Bytes16Type
  <1>1. PICK d \in Seq(Nat), p \in Nat :
          /\ d = CutWritten(b, fit, t, old, size) /\ Len(d) = size
          /\ p <= Len(b) /\ p <= fit /\ (p = Len(b) \/ p = fit)
          /\ p <= size
          /\ \A i \in 1 .. p : d[i] = b[i]
          /\ \A i \in 1 .. size : p < i /\ i <= p + Len(t) => d[i] = 0
    <2>1. fit + Len(t) <= size \/ fit = 0
      BY <1>0
    <2>2. WrittenHolds(b, fit, t, old, size)
      BY <1>0, <2>1, WrittenIs
    <2> QED BY <2>2, Zenon DEF WrittenHolds
  <1>2. PICK j \in Nat : p = 2 * j /\ j <= Len(x) /\ (j < Len(x) => 2 * j = fit)
    <2>1. p % 2 = 0
      <3>1. PICK l \in Nat : l = Len(x)
        BY <1>9
      <3>2. p = 2 * l \/ p = fit
        BY <1>1, <1>9, <3>1
      <3>3. (2 * l) % 2 = 0
        OBVIOUS
      <3> QED BY <3>2, <3>3, Zenon
    <2>2. p = 2 * (p \div 2) /\ p \div 2 \in Nat
      BY <2>1
    <2>3. PICK j \in Nat : p = 2 * j
      BY <2>2
    <2>4. PICK l \in Nat : l = Len(x) /\ Len(b) = 2 * l
      BY <1>9, Zenon
    <2>5. 2 * j <= 2 * l /\ (2 * j = 2 * l \/ 2 * j = fit)
      BY <1>1, <2>3, <2>4, Zenon
    <2>6. j <= l /\ (j < l => 2 * j = fit)
      BY <2>5
    <2> QED BY <2>3, <2>4, <2>6, Zenon
  <1>3. PICK u \in Seq(Nat) :
          /\ u = UnitsOf(ct, d) /\ Len(u) = Len(d) \div 2
          /\ \A i \in 1 .. Len(u) : d[2 * i - 1] = 0 /\ d[2 * i] = 0 => u[i] = 0
          /\ Decoded(ct, d) = Text(u)
    BY UnitsType
  <1>4. \A i \in 1 .. j : u[i] = x[i]
    <2>1. 2 * j <= Len(d) /\ \A i \in 1 .. 2 * j : d[i] = b[i]
      BY <1>1, <1>2
    <2>2. Agree(UnitsOf(ct, d), x, j)
      BY <1>2, <1>9, <2>1, UnitsRead
    <2> QED BY <1>3, <2>2, Zenon DEF Agree
  <1>5. j < Len(u) => u[j + 1] = 0
    <2>1. SUFFICES ASSUME j < Len(u) PROVE u[j + 1] = 0
      OBVIOUS
    <2>2. j + 1 \in 1 .. Len(u) /\ 2 * (j + 1) <= size
      BY <1>1, <1>3, <2>1
    <2>3. /\ 2 * (j + 1) - 1 \in 1 .. size /\ p < 2 * (j + 1) - 1 /\ 2 * (j + 1) - 1 <= p + Len(t)
          /\ 2 * (j + 1) \in 1 .. size /\ p < 2 * (j + 1) /\ 2 * (j + 1) <= p + Len(t)
      BY <1>0, <1>2, <2>2
    <2>4. d[2 * (j + 1) - 1] = 0 /\ d[2 * (j + 1)] = 0
      BY <1>1, <2>3, Zenon
    <2> QED BY <1>3, <2>2, <2>4, Zenon
  <1>6. j \in 0 .. Len(x) /\ j <= Len(u)
    <2>1. 2 * j <= Len(d)
      BY <1>1, <1>2
    <2> QED BY <1>2, <1>3, <1>9, <2>1
  <1>7. UpToNul(u) = UpToNul(SubSeq(x, 1, j))
    BY <1>4, <1>5, <1>6, UpToNulAgree
  <1>8. PICK a \in Seq(Nat) : a = Cut(x, j) /\ a = SubSeq(x, 1, j)
    BY <1>6, CutIs
  <1>10. Text(u) = Text(a)
    <2>1. UpToNul(u) = UpToNul(a)
      BY <1>7, <1>8, Zenon
    <2> QED BY <2>1, TextPadded
  <1>11. /\ Decoded(ct, CutWritten(Bytes16(ct, x), fit, <<0, 0>>, old, size)) = Text(Cut(x, j))
         /\ Len(CutWritten(Bytes16(ct, x), fit, <<0, 0>>, old, size)) = size
    BY <1>0, <1>1, <1>3, <1>8, <1>9, <1>10, Zenon
  <1> QED BY <1>2, <1>6, <1>11, Zenon DEF WideHolds

LEMMA NoTerminator == \E t \in Seq(Nat) : t = <<>> /\ Len(t) = 0 /\ \A i \in 1 .. Len(t) : t[i] = 0
  <1>1. <<>> \in Seq(Nat)
    OBVIOUS
  <1>2. PICK t \in Seq(Nat) : t = <<>>
    BY <1>1
  <1>3. Len(t) = 0
    BY <1>2
  <1>4. 1 .. 0 = {}
    OBVIOUS
  <1> QED BY <1>2, <1>3, <1>4, Zenon

LEMMA BinaryWritten ==
  ASSUME NEW x \in Seq(Nat), NEW size \in Nat, NEW old \in Seq(Nat), Len(old) = size
  PROVE  \/ Cut(CutWritten(x, size, <<>>, old, size), Len(x)) = x
         \/ size < Len(x) /\ CutWritten(x, size, <<>>, old, size) = Cut(x, size)
  <1>0. PICK t \in Seq(Nat) : t = <<>> /\ Len(t) = 0 /\ \A i \in 1 .. Len(t) : t[i] = 0
    BY NoTerminator, Zenon
  <1>1. PICK d \in Seq(Nat), p \in Nat :
          /\ d = CutWritten(x, size, t, old, size) /\ Len(d) = size
          /\ p <= Len(x) /\ p <= size /\ (p = Len(x) \/ p = size)
          /\ \A i \in 1 .. p : d[i] = x[i]
    <2>1. size + Len(t) <= size \/ size = 0
      BY <1>0
    <2>2. WrittenHolds(x, size, t, old, size)
      BY <1>0, <2>1, WrittenIs
    <2> QED BY <2>2, Zenon DEF WrittenHolds
  <1>2. CASE size < Len(x)
    <2>1. p = size /\ size \in 0 .. Len(x)
      BY <1>1, <1>2
    <2>2. PICK a \in Seq(Nat) : /\ a = Cut(x, size) /\ Len(a) = size
                                /\ \A i \in 1 .. size : a[i] = x[i]
      BY <2>1, CutIs
    <2>3. \A i \in 1 .. size : d[i] = a[i]
      BY <1>1, <2>1, <2>2, Zenon
    <2>4. d = a
      BY <1>1, <2>2, <2>3, SeqEqual
    <2> QED BY <1>0, <1>1, <1>2, <2>2, <2>4, Zenon
  <1>3. CASE ~(size < Len(x))
    <2>1. p = Len(x) /\ Len(x) \in 0 .. Len(d)
      BY <1>1, <1>3
    <2>2. PICK a \in Seq(Nat) : /\ a = Cut(d, Len(x)) /\ Len(a) = Len(x)
                                /\ \A i \in 1 .. Len(x) : a[i] = d[i]
      BY <2>1, CutIs
    <2>3. \A i \in 1 .. Len(x) : a[i] = x[i]
      BY <1>1, <2>1, <2>2, Zenon
    <2>4. a = x
      BY <2>2, <2>3, SeqEqual
    <2> QED BY <1>0, <1>1, <2>2, <2>4, Zenon
  <1> QED BY <1>2, <1>3

\* What was in the buffer beyond binary data is still there.
LEMMA BinaryLeft ==
  ASSUME NEW x \in Seq(Nat), NEW size \in Nat, NEW old \in Seq(Nat), Len(old) = size, Len(x) < size,
         old[size] = 0
  PROVE  LET d == CutWritten(x, size, <<>>, old, size) IN size \in DOMAIN d /\ d[size] = 0
  <1>0. PICK t \in Seq(Nat) : t = <<>> /\ Len(t) = 0 /\ \A i \in 1 .. Len(t) : t[i] = 0
    BY NoTerminator, Zenon
  <1>1. PICK d \in Seq(Nat), p \in Nat :
          /\ d = CutWritten(x, size, t, old, size) /\ Len(d) = size
          /\ p <= Len(x)
          /\ \A i \in 1 .. size : p + Len(t) < i => d[i] = old[i]
    <2>1. size + Len(t) <= size \/ size = 0
      BY <1>0
    <2>2. WrittenHolds(x, size, t, old, size)
      BY <1>0, <2>1, WrittenIs
    <2> QED BY <2>2, Zenon DEF WrittenHolds
  <1>2. size \in 1 .. size /\ p + Len(t) < size
    BY <1>0, <1>1
  <1>3. d[size] = 0
    BY <1>1, <1>2, Zenon
  <1>4. size \in DOMAIN d
    BY <1>1, <1>2
  <1>5. d = CutWritten(x, size, <<>>, old, size)
    BY <1>0, <1>1, Zenon
  <1> QED BY <1>3, <1>4, <1>5, Zenon

\* A buffer of zeros that nothing was written to.
LEMMA ZerosRead ==
  ASSUME NEW ct, NEW d \in Seq(Nat), \A i \in 1 .. Len(d) : d[i] = 0
  PROVE  Trim(d) = <<>> /\ Decoded(ct, d) = <<>>
  <1>1. Trim(d) = <<>>
    <2>1. {i \in DOMAIN d : d[i] /= 0} = {}
      OBVIOUS
    <2> QED BY <2>1, Zenon DEF Trim
  <1>2. PICK u \in Seq(Nat) :
          /\ u = UnitsOf(ct, d) /\ Len(u) = Len(d) \div 2
          /\ \A i \in 1 .. Len(u) : d[2 * i - 1] = 0 /\ d[2 * i] = 0 => u[i] = 0
          /\ Decoded(ct, d) = Text(u)
    BY UnitsType
  <1>3. PICK e \in Seq(Nat) : e = <<>> /\ Len(e) = 0
    <2>1. <<>> \in Seq(Nat)
      OBVIOUS
    <2>2. PICK e \in Seq(Nat) : e = <<>>
      BY <2>1
    <2> QED BY <2>2
  <1>4. 0 < Len(u) => u[0 + 1] = 0
    <2>1. SUFFICES ASSUME 0 < Len(u) PROVE u[0 + 1] = 0
      OBVIOUS
    <2>2. 0 + 1 \in 1 .. Len(u) /\ 2 * (0 + 1) - 1 \in 1 .. Len(d) /\ 2 * (0 + 1) \in 1 .. Len(d)
      BY <1>2, <2>1
    <2>3. d[2 * (0 + 1) - 1] = 0 /\ d[2 * (0 + 1)] = 0
      BY <2>2, Zenon
    <2> QED BY <1>2, <2>2, <2>3, Zenon
  <1>5. 0 \in 0 .. Len(e) /\ 0 <= Len(u) /\ \A i \in 1 .. 0 : u[i] = e[i]
    <2>1. Len(u) \in Nat /\ 1 .. 0 = {}
      OBVIOUS
    <2> QED BY <1>3, <2>1
  <1>6. UpToNul(u) = UpToNul(SubSeq(e, 1, 0))
    BY <1>4, <1>5, UpToNulAgree
  <1>7. SubSeq(e, 1, 0) = e
    BY <1>3, SubSeqEmpty
  <1>8. Text(u) = Text(e)
    <2>1. UpToNul(u) = UpToNul(e)
      BY <1>6, <1>7, Zenon
    <2> QED BY <2>1, TextPadded
  <1> QED BY <1>1, <1>2, <1>3, <1>8, EmptyText, Zenon

\* The client's own string, in a buffer that has room for it.
LEMMA OwnStringRead ==
  ASSUME NEW s \in Seq(Nat), \A i \in 1 .. Len(s) : 1 <= s[i] /\ s[i] < 128,
         NEW n \in Nat, 2 * (Len(s) + 1) <= n
  PROVE  LET d == Padded(ExtractUTF16Str(StringToUTF16(s, FALSE)), n)
         IN  d \in Seq(Nat) /\ Len(d) = n /\ Decoded("WCHAR", d) = s
  <1>0. Len(s) \in Nat /\ \A i \in 1 .. Len(s) : s[i] \in Nat
    OBVIOUS
  <1>1. PICK c \in Seq(Nat) : /\ c = StringToUTF16(s, FALSE) /\ Len(c) = Len(s) + 1
                              /\ \A i \in 1 .. Len(s) : c[i] = s[i]
                              /\ c[Len(s) + 1] = 0
    <2>1. Utf16(s) = s
      BY <1>0, Ascii
    <2>2. PICK z \in Seq(Nat) : z = <<0>> /\ Len(z) = 1 /\ z[1] = 0
      <3>1. <<0>> \in Seq(Nat)
        OBVIOUS
      <3>2. PICK z \in Seq(Nat) : z = <<0>>
        BY <3>1
      <3> QED BY <3>2
    <2>3. StringToUTF16(s, FALSE) = s \o z
      BY <2>1, <2>2, Zenon DEF StringToUTF16
    <2>4. /\ s \o z \in Seq(Nat) /\ Len(s \o z) = Len(s) + Len(z)
          /\ \A i \in 1 .. Len(s) : (s \o z)[i] = s[i]
          /\ \A i \in 1 .. Len(z) : (s \o z)[Len(s) + i] = z[i]
      BY ConcatElements
    <2>5. 1 \in 1 .. Len(z)
      BY <2>2
    <2> QED BY <2>2, <2>3, <2>4, <2>5, Zenon
  <1>2. PICK b \in Seq(Nat) : b = LittleEndian(c) /\ Len(b) = 2 * Len(c)
    BY LittleEndianType
  <1>16. PICK l \in Nat : l = Len(s) /\ Len(c) = l + 1 /\ Len(b) = 2 * (l + 1) /\ 2 * (l + 1) <= n
    <2>1. PICK l \in Nat : l = Len(s)
      BY <1>0
    <2>2. Len(c) = l + 1 /\ 2 * (l + 1) <= n
      BY <1>1, <2>1, Zenon
    <2> QED BY <1>2, <2>1, <2>2, Zenon
  <1>3. PICK z \in Seq(Nat) : z = Zeros(n - Len(b)) /\ Len(z) = n - Len(b)
    <2>1. n - Len(b) \in Int /\ n - Len(b) >= 0
      BY <1>16
    <2> QED BY <2>1, ZerosType
  <1>4. PICK d \in Seq(Nat) : /\ d = b \o z /\ Len(d) = Len(b) + Len(z)
                              /\ \A i \in 1 .. Len(b) : d[i] = b[i]
    <2>1. /\ b \o z \in Seq(Nat) /\ Len(b \o z) = Len(b) + Len(z)
          /\ \A i \in 1 .. Len(b) : (b \o z)[i] = b[i]
      BY ConcatElements
    <2> QED BY <2>1, Zenon
  <1>5. d = Padded(ExtractUTF16Str(StringToUTF16(s, FALSE)), n)
    BY <1>1, <1>2, <1>3, <1>4, Zenon DEF Padded, ExtractUTF16Str
  <1>6. Len(d) = n
    <2>1. Len(d) = Len(b) + Len(z) /\ Len(z) = n - Len(b)
      BY <1>3, <1>4
    <2> QED BY <1>16, <2>1
  <1>7. PICK u \in Seq(Nat) : u = UnitsOf("WCHAR", d) /\ Len(u) = Len(d) \div 2
                              /\ Decoded("WCHAR", d) = Text(u)
    BY UnitsType
  <1>8. Agree(u, c, Len(c))
    <2>1. b = Bytes16("WCHAR", c)
      BY <1>2, Zenon DEF Bytes16
    <2>2. PICK j \in Nat : j = Len(c) /\ j <= Len(c) /\ 2 * j <= Len(d) /\ Len(b) = 2 * j
      BY <1>6, <1>16
    <2>3. \A i \in 1 .. 2 * j : d[i] = b[i]
      BY <1>4, <2>2, Zenon
    <2>4. Agree(UnitsOf("WCHAR", d), c, j)
      BY <2>1, <2>2, <2>3, UnitsRead
    <2> QED BY <1>7, <2>2, <2>4, Zenon
  <1>9. \A i \in 1 .. Len(s) : u[i] = s[i]
    <2>1. \A i \in 1 .. Len(s) : i \in 1 .. Len(c)
      BY <1>16
    <2> QED BY <1>1, <1>8, <2>1, Zenon DEF Agree
  <1>10. u[Len(s) + 1] = 0
    <2>1. Len(s) + 1 \in 1 .. Len(c)
      BY <1>16
    <2> QED BY <1>1, <1>8, <2>1, Zenon DEF Agree
  <1>11. Len(s) \in 0 .. Len(s) /\ Len(s) <= Len(u)
    BY <1>6, <1>7, <1>16
  <1>12. UpToNul(u) = UpToNul(SubSeq(s, 1, Len(s)))
    BY <1>9, <1>10, <1>11, UpToNulAgree
  <1>13. SubSeq(s, 1, Len(s)) = s
    BY SubSeqFull
  <1>14. Text(u) = Text(s)
    <2>1. UpToNul(u) = UpToNul(s)
      BY <1>12, <1>13, Zenon
    <2> QED BY <2>1, TextPadded
  <1>15. Text(s) = s
    BY AsciiText
  <1> QED BY <1>5, <1>6, <1>7, <1>14, <1>15, Zenon

------------------------------------------------------------------------------
\* What is known of an OUT parameter p, of the variable's value bf, of the
\* buffer b and of the server's value v.
NumTypes == {"BIT", "LONG", "SBIGINT", "DOUBLE"}

\* An sql.Out that the client may pass.
TypedOut(p, bf) ==
  /\ p.mode \in {"inout", "out"} /\ p.size \in Nat /\ p.dest \in GoTypes /\ p.nilDest \in BOOLEAN
  /\ bf \in Before(p.dest)
  /\ p.mode = "inout" /\ ~p.nilDest => Suits(p.dest, p.stype)

\* The buffer has the variable's own value.
Own(p, bf) == p.mode = "inout" /\ ~p.nilDest /\ bf /= Nil

OwnType(d) == CASE d = "string" -> "WCHAR"
                [] d = "bytes" -> "BINARY"
                [] d \in {"int8", "int64"} -> "SBIGINT"
                [] d = "float64" -> "DOUBLE"
                [] d = "bool" -> "BIT"
                [] OTHER -> "TIMESTAMP"

OwnBuffer(p, bf, b) ==
  /\ bf.kind = p.dest /\ p.dest /= "interface" /\ b.ctype = OwnType(p.dest)
  /\ b.ctype = "WCHAR" =>
       /\ SqltoCtype(p.stype) \in {"CHAR", "WCHAR"} /\ b.size = p.size * 2 + 2
       /\ b.data \in Seq(Nat) /\ Len(b.data) = b.size /\ Decoded("WCHAR", b.data) = bf.val
  /\ b.ctype = "BINARY" =>
       /\ SqltoCtype(p.stype) = "BINARY" /\ b.size = Len(bf.val)
       /\ b.data \in Seq(Nat) /\ b.data = bf.val
  /\ b.ctype \notin Texts =>
       /\ b.fixed = bf.val /\ bf.val \in Int
       /\ IF b.ctype = "TIMESTAMP" THEN SqltoCtype(p.stype) = "TIMESTAMP"
          ELSE SqltoCtype(p.stype) \in NumTypes \cup {"panic"}

PlainBuffer(p, bf, b) ==
  /\ b.ctype = SqltoCtype(p.stype) /\ b.ctype /= "panic"
  /\ b.size = (IF p.mode = "out" THEN p.size + 1 ELSE p.size)
  /\ b.data = Zeros(b.size) /\ b.fixed = 0

IsBuffer(b) == b \in [ctype : {b.ctype}, size : {b.size}, data : {b.data},
                      fixed : {b.fixed}, overrun : {b.overrun}]

BufferRight(p, bf, b) ==
  /\ b.size \in Nat /\ IsBuffer(b)
  /\ IF Own(p, bf) THEN OwnBuffer(p, bf, b) ELSE PlainBuffer(p, bf, b)

\* What SqltoCtype may give.
LEMMA SqlTypeKnown ==
  ASSUME NEW t
  PROVE  SqltoCtype(t) \in NumTypes \cup Times \cup Texts \cup {"panic"}
  BY DEF SqltoCtype, NumTypes, Times, Texts

\* The server's values, by the type of the parameter.
LEMMA ServerValuesIs ==
  ASSUME NEW p, p.size \in Nat, NEW c, NEW v \in ServerValues(p, c)
  PROVE  /\ v /= Nil /\ v = Of(v.kind, v.val)
         /\ SqltoCtype(p.stype) \in Texts =>
              /\ v.kind = IF SqltoCtype(p.stype) = "BINARY" THEN "binary" ELSE "text"
              /\ v.val \in Seq(Nat) /\ (c = SqltoCtype(p.stype) => Len(v.val) <= p.size)
         /\ SqltoCtype(p.stype) \in Times => v.kind = "time" /\ v.val \in Int
         /\ SqltoCtype(p.stype) \in NumTypes \cup {"panic"} => v.kind = "number" /\ v.val \in Int
  <1> DEFINE k == SqltoCtype(p.stype)
  <1>0. k \in NumTypes \cup Times \cup Texts \cup {"panic"}
    BY SqlTypeKnown
  <1>1. CASE k = "CHAR"
    <2>1. PICK x \in CharTexts : v = Of("text", IF c = "CHAR" THEN x ELSE Utf16(x)) /\ Len(x) <= p.size
      <3>1. v \in {Of("text", IF c = "CHAR" THEN s ELSE Utf16(s)) : s \in {x \in CharTexts : Len(x) <= p.size}}
        BY <1>1 DEF ServerValues, Times
      <3> QED BY <3>1, Zenon
    <2>2. x \in Seq(Nat) /\ Utf16(x) \in Seq(Nat)
      <3>1. x \in Seq(Nat)
        BY <2>1, TextsTypes
      <3> QED BY <3>1, Utf16Shorter
    <2>3. PICK y \in Seq(Nat) : v = Of("text", y) /\ (c = "CHAR" => y = x)
      BY <2>1, <2>2
    <2>4. c = k => Len(y) <= p.size
      BY <1>1, <2>1, <2>3
    <2> QED BY <1>1, <2>3, <2>4 DEF Of, Nil, Times, NumTypes
  <1>2. CASE k \in {"WCHAR", "DBCHAR"}
    <2>1. PICK x \in WideTexts : v = Of("text", x) /\ Len(x) <= p.size
      <3>1. v \in {Of("text", s) : s \in {x \in WideTexts : Len(x) <= p.size}}
        BY <1>2 DEF ServerValues, Times
      <3> QED BY <3>1, Zenon
    <2>2. x \in Seq(Nat)
      BY <2>1, TextsTypes
    <2> QED BY <1>2, <2>1, <2>2 DEF Of, Nil, Times, NumTypes
  <1>3. CASE k = "BINARY"
    <2>1. PICK x \in Binaries : v = Of("binary", x) /\ Len(x) <= p.size
      <3>1. v \in {Of("binary", s) : s \in {x \in Binaries : Len(x) <= p.size}}
        BY <1>3 DEF ServerValues, Times
      <3> QED BY <3>1, Zenon
    <2>2. x \in Seq(Nat)
      BY <2>1, TextsTypes
    <2> QED BY <1>3, <2>1, <2>2 DEF Of, Nil, Times, NumTypes
  <1>4. CASE k \in Times
    <2>1. v = Of("time", 18)
      BY <1>4 DEF ServerValues, Times
    <2> QED BY <1>4, <2>1 DEF Of, Nil, Times, NumTypes, Texts
  <1>5. CASE k \in NumTypes \cup {"panic"}
    <2>1. PICK n \in Numbers(p.stype) : v = Of("number", n)
      BY <1>5 DEF ServerValues, Times, NumTypes
    <2>2. n \in Int
      BY DEF Numbers
    <2> QED BY <1>5, <2>1, <2>2 DEF Of, Nil, Times, NumTypes, Texts
  <1> QED BY <1>0, <1>1, <1>2, <1>3, <1>4, <1>5 DEF Texts

\* What the variable held is in Before of its type.
LEMMA BeforeIs ==
  ASSUME NEW d \in GoTypes, NEW bf \in Before(d)
  PROVE  /\ bf = Of(bf.kind, bf.val)
         /\ IF d = "interface" THEN bf = Nil ELSE bf.kind = d /\ bf /= Nil
         /\ d \in {"string", "bytes"} =>
              /\ bf.val \in Seq(Nat)
              /\ \A i \in 1 .. Len(bf.val) : 1 <= bf.val[i] /\ bf.val[i] < 128
         /\ d \notin {"string", "bytes", "interface"} => bf.val \in Int
  <1>1. CASE d \in {"string", "bytes"}
    <2>1. bf \in {Of(d, <<>>), Of(d, <<97, 98>>)}
      BY <1>1 DEF Before
    <2>2. PICK s \in {<<>>, <<97, 98>>} : bf = Of(d, s)
      BY <2>1
    <2>3. s \in Seq(Nat) /\ \A i \in 1 .. Len(s) : 1 <= s[i] /\ s[i] < 128
      <3>1. CASE s = <<>>
        <4>1. <<>> \in Seq(Nat)
          OBVIOUS
        <4>2. 1 .. Len(s) = {}
          BY <3>1
        <4> QED BY <3>1, <4>1, <4>2, Zenon
      <3>2. CASE s = <<97, 98>>
        <4>1. <<97, 98>> \in Seq(Nat)
          OBVIOUS
        <4>2. Len(s) = 2 /\ s[1] = 97 /\ s[2] = 98
          BY <3>2
        <4>3. \A i \in 1 .. Len(s) : i = 1 \/ i = 2
          BY <4>2
        <4>4. \A i \in 1 .. Len(s) : 1 <= s[i] /\ s[i] < 128
          BY <4>2, <4>3
        <4> QED BY <3>2, <4>1, <4>4, Zenon
      <3> QED BY <3>1, <3>2
    <2>4. bf.kind = d /\ bf.val = s
      BY <2>2 DEF Of
    <2>5. bf /= Nil
      BY <1>1, <2>2 DEF Of, Nil
    <2> QED BY <1>1, <2>2, <2>3, <2>4, <2>5, Zenon
  <1>2. CASE d \in {"int8", "int64", "float64", "time"}
    <2>1. bf = Of(d, 6)
      BY <1>2 DEF Before
    <2> QED BY <1>2, <2>1 DEF Of, Nil
  <1>3. CASE d = "bool"
    <2>1. bf = Of(d, 2)
      BY <1>3 DEF Before
    <2> QED BY <1>3, <2>1 DEF Of, Nil
  <1>4. CASE d = "interface"
    <2>1. bf = Nil
      BY <1>4 DEF Before
    <2> QED BY <1>4, <2>1 DEF Of, Nil
  <1> QED BY <1>1, <1>2, <1>3, <1>4 DEF GoTypes

LEMMA PaddedEmpty ==
  ASSUME NEW n \in Nat
  PROVE  Padded(<<>>, n) = Zeros(n)
  <1>1. PICK z \in Seq(Nat) : z = Zeros(n)
    BY ZerosType
  <1>2. Len(<<>>) = 0 /\ n - 0 = n
    OBVIOUS
  <1>3. Padded(<<>>, n) = <<>> \o z
    BY <1>1, <1>2, Zenon DEF Padded
  <1> QED BY <1>1, <1>3, ConcatEmptySeq

\* The parts of a new buffer.
LEMMA NewBuffer ==
  ASSUME NEW c, NEW n, NEW s
  PROVE  /\ IsBuffer(Buffer(c, n, s)) /\ Buffer(c, n, s).ctype = c /\ Buffer(c, n, s).size = n
         /\ Buffer(c, n, s).data = Padded(s, n) /\ Buffer(c, n, s).fixed = 0
  <1>1. /\ Buffer(c, n, s).ctype = c /\ Buffer(c, n, s).size = n
        /\ Buffer(c, n, s).data = Padded(s, n) /\ Buffer(c, n, s).fixed = 0
    BY DEF Buffer, NoBuffer
  <1>2. IsBuffer(Buffer(c, n, s))
    BY DEF Buffer, NoBuffer, IsBuffer
  <1> QED BY <1>1, <1>2

LEMMA NewNumber ==
  ASSUME NEW c, NEW n
  PROVE  /\ IsBuffer(Number(c, n)) /\ Number(c, n).ctype = c /\ Number(c, n).size = Width(c)
         /\ Number(c, n).fixed = n
  <1>3. /\ Number(c, n).ctype = c /\ Number(c, n).size = Width(c) /\ Number(c, n).fixed = n
    BY DEF Number, NoBuffer
  <1>4. IsBuffer(Number(c, n))
    BY DEF Number, NoBuffer, IsBuffer
  <1> QED BY <1>3, <1>4

\* newOut, by the kind of value passed in.
LEMMA Allocated ==
  ASSUME TypedOut(param, before),
         NEW b, b = IF param.mode = "inout" THEN BufferInOut ELSE BufferOut,
         b.ctype /= "panic", ~TooLong
  PROVE  BufferRight(param, before, b)
  <1> DEFINE k == SqltoCtype(param.stype)
  <1>0. param.size \in Nat /\ param.size + 1 \in Nat /\ param.mode \in {"inout", "out"}
    BY DEF TypedOut
  <1>1. CASE param.mode = "out"
    <2>1. b = Buffer(k, param.size + 1, <<>>)
      BY <1>1 DEF BufferOut
    <2>2. /\ b.ctype = k /\ b.size = param.size + 1 /\ b.data = Zeros(param.size + 1)
          /\ b.fixed = 0 /\ IsBuffer(b)
      BY <1>0, <2>1, PaddedEmpty, NewBuffer
    <2> QED BY <1>0, <1>1, <2>2 DEF BufferRight, PlainBuffer, Own
  <1>2. CASE param.mode = "inout" /\ (param.nilDest \/ before = Nil)
    <2>1. b = Buffer(k, param.size, <<>>)
      BY <1>2 DEF BufferInOut
    <2>2. /\ b.ctype = k /\ b.size = param.size /\ b.data = Zeros(param.size)
          /\ b.fixed = 0 /\ IsBuffer(b)
      BY <1>0, <2>1, PaddedEmpty, NewBuffer
    <2> QED BY <1>0, <1>2, <2>2 DEF BufferRight, PlainBuffer, Own
  <1>3. CASE param.mode = "inout" /\ ~(param.nilDest \/ before = Nil)
    <2>1. Own(param, before) /\ b = BufferInOut
      BY <1>3 DEF Own
    <2>2. /\ param.dest \in GoTypes /\ before \in Before(param.dest) /\ Suits(param.dest, param.stype)
      BY <1>3 DEF TypedOut
    <2>3. before.kind = param.dest /\ param.dest /= "interface"
      BY <1>3, <2>2, BeforeIs
    <2>4. CASE param.dest = "string"
      <3>1. PICK s \in Seq(Nat) : s = before.val /\ \A i \in 1 .. Len(s) : 1 <= s[i] /\ s[i] < 128
        BY <2>2, <2>4, BeforeIs
      <3>2. PICK n \in Nat : n = param.size * 2 + 2 /\ 2 * (Len(s) + 1) <= n
        <4>1. ~(2 * (Len(s) + 1) > param.size * 2 + 2)
          BY <1>3, <2>3, <2>4, <3>1 DEF TooLong
        <4> QED BY <1>0, <4>1
      <3>3. PICK d : /\ d = Padded(ExtractUTF16Str(StringToUTF16(s, FALSE)), n)
                     /\ d \in Seq(Nat) /\ Len(d) = n /\ Decoded("WCHAR", d) = s
        BY <3>1, <3>2, OwnStringRead
      <3>4. b = Buffer("WCHAR", n, ExtractUTF16Str(StringToUTF16(s, FALSE)))
        BY <1>3, <2>1, <2>3, <2>4, <3>1, <3>2, Zenon DEF BufferInOut
      <3>5. b.ctype = "WCHAR" /\ b.size = n /\ b.data = d /\ IsBuffer(b)
        <4>1. PICK e : e = ExtractUTF16Str(StringToUTF16(s, FALSE))
          OBVIOUS
        <4>2. b = Buffer("WCHAR", n, e) /\ Padded(e, n) = d
          BY <3>3, <3>4, <4>1, Zenon
        <4> QED BY <4>2, NewBuffer
      <3>6. k \in {"CHAR", "WCHAR"}
        BY <2>2, <2>4 DEF Suits
      <3> QED BY <2>1, <2>3, <2>4, <3>1, <3>2, <3>3, <3>5, <3>6
              DEF BufferRight, OwnBuffer, OwnType, Texts
    <2>5. CASE param.dest = "bytes"
      <3>1. PICK s \in Seq(Nat) : s = before.val /\ Len(s) \in Nat
        BY <2>2, <2>5, BeforeIs
      <3>2. Padded(s, Len(s)) = s
        <4>1. PICK n \in Int : n = Len(s) - Len(s) /\ n <= 0
          BY <3>1
        <4>2. Zeros(n) = <<>>
          BY <4>1, ZerosType
        <4>3. Padded(s, Len(s)) = s \o <<>>
          BY <4>1, <4>2 DEF Padded
        <4> QED BY <4>3, ConcatEmptySeq
      <3>3. b = Buffer("BINARY", Len(s), s)
        BY <1>3, <2>1, <2>3, <2>5, <3>1 DEF BufferInOut
      <3>4. b.ctype = "BINARY" /\ b.size = Len(s) /\ b.data = s /\ IsBuffer(b)
        BY <3>2, <3>3, NewBuffer
      <3>5. k = "BINARY"
        BY <2>2, <2>5 DEF Suits
      <3> QED BY <2>1, <2>3, <2>5, <3>1, <3>4, <3>5 DEF BufferRight, OwnBuffer, OwnType, Texts
    <2>6. CASE param.dest \in {"int8", "int64", "float64", "bool", "time"}
      <3>1. PICK c : c = OwnType(param.dest) /\ b = Number(c, before.val)
        BY <1>3, <2>1, <2>3, <2>6 DEF BufferInOut, OwnType
      <3>2. c \in {"SBIGINT", "DOUBLE", "BIT", "TIMESTAMP"}
        BY <2>6, <3>1 DEF OwnType
      <3>3. b.ctype = c /\ b.size = Width(c) /\ b.fixed = before.val /\ IsBuffer(b)
        BY <3>1, NewNumber
      <3>4. b.size \in Nat
        BY <3>2, <3>3 DEF Width
      <3>5. before.val \in Int
        BY <2>2, <2>6, BeforeIs
      <3>6. IF c = "TIMESTAMP" THEN k = "TIMESTAMP" ELSE k \in NumTypes \cup {"panic"}
        BY <2>2, <2>6, <3>1 DEF Suits, OwnType, SqltoCtype, NumTypes
      <3> QED BY <2>1, <2>3, <3>1, <3>2, <3>3, <3>4, <3>5, <3>6, <2>6
              DEF BufferRight, OwnBuffer, Texts
    <2> QED BY <2>2, <2>3, <2>4, <2>5, <2>6 DEF GoTypes
  <1> QED BY <1>0, <1>1, <1>2, <1>3

------------------------------------------------------------------------------
\* The buffer b after the server's value v has been written to it.
Even(b) ==
  LET t == Terminator(b.ctype)
      room == Max({0, b.size - Len(t)})
  IN  IF Len(t) = 2 THEN room - (room % 2) ELSE room

After(b, v) ==
  IF v = Nil THEN b
  ELSE IF b.ctype \notin Texts
    THEN [b EXCEPT !.fixed = v.val, !.overrun = Width(b.ctype) > b.size]
  ELSE [b EXCEPT !.data = CutWritten(Encoded(v, b.ctype), Even(b), Terminator(b.ctype), @, b.size)]

\* That is what Execute does.
LEMMA ExecuteIs == Execute => buf' = After(buf, sent')
  BY DEF Execute, After, CutWritten, Even

\* There is no room for v.
NoRoomFor(p, bf, b, v) ==
  LET n == Len(Encoded(v, b.ctype))
      wide == Len(Terminator(b.ctype)) = 2
  IN  \/ p.mode = "out" /\ b.ctype /= "BINARY" /\ n > p.size - (IF wide THEN 1 ELSE 0)
      \/ /\ p.mode = "inout" /\ (p.nilDest \/ bf = Nil)
         /\ b.ctype /= "BINARY" /\ n >= p.size - (IF wide THEN 1 ELSE 0)
      \/ p.mode = "inout" /\ bf.kind = "string" /\ n > 2 * p.size
      \/ p.mode = "inout" /\ bf.kind = "bytes" /\ n > Len(bf.val)

\* What OutValue reads, by the type of the buffer.
NumberRead(p, bf, b, v) ==
  b.ctype \notin Texts =>
    /\ b.ctype \in NumTypes \cup Times /\ b.fixed \in Int
    /\ v = Nil => b.fixed = IF Own(p, bf) THEN bf.val ELSE 0
    /\ v /= Nil => v.val = b.fixed /\ v.kind = IF b.ctype \in Times THEN "time" ELSE "number"

CharRead(p, bf, b, v) ==
  b.ctype = "CHAR" =>
    /\ v = Nil => Trim(b.data) = <<>>
    /\ v /= Nil =>
         /\ v.kind = "text" /\ v.val \in Seq(Nat) /\ Utf8(v.val) \in Seq(Nat)
         /\ \E n \in 0 .. Len(Utf8(v.val)) :
              /\ Trim(b.data) = Trim(Cut(Utf8(v.val), n))
              /\ n < Len(Utf8(v.val)) => NoRoomFor(p, bf, b, v)

WideRead(p, bf, b, v) ==
  b.ctype \in {"WCHAR", "DBCHAR"} =>
    /\ b.data = <<>> => p.nilDest \/ bf = Nil
    /\ v = Nil => Decoded(b.ctype, b.data) = IF Own(p, bf) THEN bf.val ELSE <<>>
    /\ v /= Nil =>
         /\ v.kind = "text" /\ v.val \in Seq(Nat) /\ (b.data = <<>> => v.val = <<>>)
         /\ \E n \in 0 .. Len(v.val) :
              /\ Decoded(b.ctype, b.data) = Text(Cut(v.val, n))
              /\ n < Len(v.val) => NoRoomFor(p, bf, b, v)

BinaryRead(p, bf, b, v) ==
  b.ctype = "BINARY" =>
    /\ p.mode = "out" => \E i \in DOMAIN b.data : b.data[i] = 0
    /\ v = Nil => b.data = IF Own(p, bf) THEN bf.val ELSE Zeros(b.size)
    /\ v /= Nil =>
         /\ v.kind = "binary" /\ v.val \in Seq(Nat)
         /\ \/ Cut(b.data, Len(v.val)) = v.val
            \/ /\ NoRoomFor(p, bf, b, v)
               /\ \E n \in 0 .. Len(v.val) : b.data = Cut(v.val, n)

OutRead(p, bf, b, v) ==
  /\ v = Of(v.kind, v.val)
  /\ Own(p, bf) => bf.kind = p.dest /\ p.dest /= "interface" /\ b.ctype = OwnType(p.dest)
  /\ b.ctype \in NumTypes \cup Times \cup Texts
  /\ NumberRead(p, bf, b, v) /\ CharRead(p, bf, b, v)
  /\ WideRead(p, bf, b, v) /\ BinaryRead(p, bf, b, v)

\* A buffer that newOut has made is of a type that OutValue knows.
LEMMA BufferTypes ==
  ASSUME NEW p, NEW bf, NEW b, BufferRight(p, bf, b), TypedOut(p, bf)
  PROVE  /\ b.ctype \in NumTypes \cup Times \cup Texts
         /\ b.ctype \in {"CHAR", "WCHAR", "DBCHAR"} => SqltoCtype(p.stype) \in Texts \ {"BINARY"}
         /\ b.ctype \in Texts => b.data \in Seq(Nat) /\ Len(b.data) = b.size /\ b.size \in Nat
  <1>1. CASE Own(p, bf)
    <2>1. OwnBuffer(p, bf, b)
      BY <1>1 DEF BufferRight
    <2>2. b.ctype \in {"WCHAR", "BINARY", "SBIGINT", "DOUBLE", "BIT", "TIMESTAMP"}
      BY <2>1 DEF OwnBuffer, OwnType
    <2> QED BY <2>1, <2>2 DEF OwnBuffer, NumTypes, Times, Texts, BufferRight
  <1>2. CASE ~Own(p, bf)
    <2>1. PlainBuffer(p, bf, b) /\ b.size \in Nat
      BY <1>2 DEF BufferRight
    <2>2. b.ctype \in NumTypes \cup Times \cup Texts
      BY <2>1, SqlTypeKnown DEF PlainBuffer
    <2>3. b.data \in Seq(Nat) /\ Len(b.data) = b.size
      <3>1. b.size >= 0 /\ b.size \in Int
        BY <2>1
      <3> QED BY <2>1, <3>1, ZerosType DEF PlainBuffer
    <2> QED BY <2>1, <2>2, <2>3 DEF PlainBuffer, Texts
  <1> QED BY <1>1, <1>2

\* What OutValue reads once Execute has run: a number or a time, ...
LEMMA NumberAfter ==
  ASSUME NEW p, NEW bf, NEW b, TypedOut(p, bf), BufferRight(p, bf, b),
         NEW v \in ServerValues(p, b.ctype) \cup {Nil}
  PROVE  NumberRead(p, bf, After(b, v), v)
  <1>1. IsBuffer(b) /\ p.size \in Nat
    BY DEF BufferRight, TypedOut
  <1>2. CASE v = Nil
    <2>1. After(b, v) = b
      BY <1>2 DEF After
    <2>2. ASSUME b.ctype \notin Texts
          PROVE  b.fixed \in Int /\ b.fixed = IF Own(p, bf) THEN bf.val ELSE 0
      BY <2>2 DEF BufferRight, OwnBuffer, PlainBuffer
    <2> QED BY <1>2, <2>1, <2>2, BufferTypes DEF NumberRead
  <1>3. CASE v /= Nil
    <2>1. v \in ServerValues(p, b.ctype)
      BY <1>3
    <2>2. CASE b.ctype \in Texts
      <3>1. After(b, v).ctype = b.ctype
        BY <1>1, <1>3, <2>2 DEF After, IsBuffer
      <3> QED BY <2>2, <3>1 DEF NumberRead
    <2>3. CASE b.ctype \notin Texts
      <3>1. After(b, v) = [b EXCEPT !.fixed = v.val, !.overrun = Width(b.ctype) > b.size]
        BY <1>3, <2>3 DEF After
      <3>2. After(b, v).ctype = b.ctype /\ After(b, v).fixed = v.val
        BY <1>1, <3>1 DEF IsBuffer
      <3>3. b.ctype \in NumTypes \cup Times
        BY <2>3, BufferTypes
      <3>4. IF b.ctype \in Times THEN SqltoCtype(p.stype) \in Times
            ELSE SqltoCtype(p.stype) \in NumTypes \cup {"panic"}
        <4>1. CASE Own(p, bf)
          <5>1. OwnBuffer(p, bf, b)
            BY <4>1 DEF BufferRight
          <5> QED BY <2>3, <5>1 DEF OwnBuffer, OwnType, Times
        <4>2. CASE ~Own(p, bf)
          BY <3>3, <4>2 DEF BufferRight, PlainBuffer
        <4> QED BY <4>1, <4>2
      <3>5. v.val \in Int /\ v.kind = IF b.ctype \in Times THEN "time" ELSE "number"
        BY <1>1, <2>1, <3>4, ServerValuesIs
      <3> QED BY <1>3, <3>2, <3>3, <3>5 DEF NumberRead
    <2> QED BY <2>2, <2>3
  <1> QED BY <1>2, <1>3

\* A text that is written leaves the rest of the buffer's record alone.
LEMMA AfterText ==
  ASSUME NEW p, NEW bf, NEW b, TypedOut(p, bf), BufferRight(p, bf, b), b.ctype \in Texts,
         NEW v, v /= Nil
  PROVE  /\ After(b, v).ctype = b.ctype /\ After(b, v).size = b.size
         /\ After(b, v).data
              = CutWritten(Encoded(v, b.ctype), Even(b), Terminator(b.ctype), b.data, b.size)
  <1>1. IsBuffer(b)
    BY DEF BufferRight
  <1>2. PICK d : d = CutWritten(Encoded(v, b.ctype), Even(b), Terminator(b.ctype), b.data, b.size)
    OBVIOUS
  <1>3. After(b, v) = [b EXCEPT !.data = d]
    BY <1>2 DEF After
  <1> QED BY <1>1, <1>2, <1>3 DEF IsBuffer

LEMMA AfterType ==
  ASSUME NEW p, NEW bf, NEW b, TypedOut(p, bf), BufferRight(p, bf, b), NEW v
  PROVE  After(b, v).ctype = b.ctype
  <1>1. CASE v = Nil
    BY <1>1 DEF After
  <1>2. CASE v /= Nil /\ b.ctype \in Texts
    BY <1>2, AfterText
  <1>3. CASE v /= Nil /\ b.ctype \notin Texts
    <2>1. After(b, v) = [b EXCEPT !.fixed = v.val, !.overrun = Width(b.ctype) > b.size] /\ IsBuffer(b)
      BY <1>3 DEF After, BufferRight
    <2> QED BY <2>1 DEF IsBuffer
  <1> QED BY <1>1, <1>2, <1>3

\* The room for a text beside its terminator, in whole units.
LEMMA EvenIs ==
  ASSUME NEW b, b.size \in Nat
  PROVE  /\ b.ctype = "CHAR" => /\ Terminator(b.ctype) = <<0>> /\ Even(b) \in Nat
                                /\ Even(b) + 1 <= b.size \/ Even(b) = 0
                                /\ Even(b) + 1 >= b.size
         /\ b.ctype \in {"WCHAR", "DBCHAR"} =>
              /\ Terminator(b.ctype) = <<0, 0>> /\ Even(b) \in Nat /\ Even(b) % 2 = 0
              /\ Even(b) + 2 <= b.size \/ Even(b) = 0
              /\ Even(b) + 3 >= b.size
              /\ b.size % 2 = 0 => Even(b) + 2 >= b.size
         /\ b.ctype = "BINARY" => Terminator(b.ctype) = <<>> /\ Even(b) = b.size
  <1>0. PICK n \in Nat : n = b.size
    OBVIOUS
  <1>1. CASE b.ctype = "CHAR"
    <2>1. Terminator(b.ctype) = <<0>> /\ Len(<<0>>) = 1
      BY <1>1 DEF Terminator
    <2>2. Even(b) = Max({0, n - 1})
      BY <1>0, <2>1 DEF Even
    <2>3. Max({0, n - 1}) = IF 0 <= n - 1 THEN n - 1 ELSE 0
      BY MaxTwo
    <2>4. PICK e \in Nat : e = Even(b) /\ (e + 1 <= n \/ e = 0) /\ e + 1 >= n
      BY <2>2, <2>3
    <2> QED BY <1>0, <1>1, <2>1, <2>4, Zenon
  <1>2. CASE b.ctype \in {"WCHAR", "DBCHAR"}
    <2>1. Terminator(b.ctype) = <<0, 0>> /\ Len(<<0, 0>>) = 2
      BY <1>2 DEF Terminator
    <2>2. Even(b) = Max({0, n - 2}) - (Max({0, n - 2}) % 2)
      BY <1>0, <2>1 DEF Even
    <2>3. Max({0, n - 2}) = IF 0 <= n - 2 THEN n - 2 ELSE 0
      BY MaxTwo
    <2>4. PICK r \in Nat : r = Max({0, n - 2}) /\ (r + 2 <= n \/ r = 0) /\ r + 2 >= n /\ (r = 0 \/ r + 2 = n)
      BY <2>3
    <2>5. PICK e \in Nat : e = r - (r % 2) /\ e % 2 = 0 /\ e <= r /\ e + 1 >= r /\ (r % 2 = 0 => e = r)
      OBVIOUS
    <2>6. e + 2 <= n \/ e = 0
      BY <2>4, <2>5
    <2>7. e + 3 >= n
      BY <2>4, <2>5
    <2>8. n % 2 = 0 => e + 2 >= n
      BY <2>4, <2>5
    <2>9. e = Even(b)
      BY <2>2, <2>4, <2>5, Zenon
    <2> QED BY <1>0, <1>2, <2>1, <2>5, <2>6, <2>7, <2>8, <2>9, Zenon
  <1>3. CASE b.ctype = "BINARY"
    <2>1. Terminator(b.ctype) = <<>> /\ Len(<<>>) = 0
      BY <1>3 DEF Terminator
    <2>2. Even(b) = Max({0, n - 0})
      BY <1>0, <2>1 DEF Even
    <2>3. Max({0, n - 0}) = n
      BY MaxTwo
    <2> QED BY <1>0, <1>3, <2>1, <2>2, <2>3, Zenon
  <1> QED BY <1>1, <1>2, <1>3

\* ... text of one byte a character, ...
LEMMA CharAfter ==
  ASSUME NEW p, NEW bf, NEW b, TypedOut(p, bf), BufferRight(p, bf, b),
         NEW v \in ServerValues(p, b.ctype) \cup {Nil}
  PROVE  CharRead(p, bf, After(b, v), v)
  <1>1. CASE b.ctype = "CHAR"
    <2>0. p.size \in Nat /\ p.mode \in {"inout", "out"}
      BY DEF TypedOut
    <2>1. b.ctype \in Texts /\ b.data \in Seq(Nat) /\ Len(b.data) = b.size /\ b.size \in Nat
      BY <1>1, BufferTypes DEF Texts
    <2>2. PlainBuffer(p, bf, b) /\ ~Own(p, bf)
      BY <1>1 DEF BufferRight, OwnBuffer, OwnType
    <2>3. SqltoCtype(p.stype) = "CHAR"
      BY <1>1, <2>2 DEF PlainBuffer
    <2>4. \A i \in 1 .. Len(b.data) : b.data[i] = 0
      <3>1. b.data = Zeros(b.size)
        BY <2>2 DEF PlainBuffer
      <3>2. PICK n \in Int : n = b.size
        BY <2>1
      <3>3. PICK z : z = Zeros(n)
        OBVIOUS
      <3>4. \A i \in 1 .. Len(z) : z[i] = 0
        BY <3>3, ZerosType
      <3> QED BY <3>1, <3>2, <3>3, <3>4, Zenon
    <2>5. CASE v = Nil
      <3>1. After(b, v) = b
        BY <2>5 DEF After
      <3>2. Trim(b.data) = <<>>
        BY <2>1, <2>4, ZerosRead
      <3> QED BY <2>5, <3>1, <3>2 DEF CharRead
    <2>6. CASE v /= Nil
      <3>0. v.kind = "text" /\ v.val \in Seq(Nat)
        BY <2>0, <2>3, <2>6, ServerValuesIs DEF Texts
      <3>1. PICK x \in Seq(Nat) : x = Utf8(v.val)
        BY <3>0, Utf16Shorter
      <3>2. PICK e \in Nat, n \in Nat : e = Even(b) /\ n = b.size /\ (e + 1 <= n \/ e = 0) /\ e + 1 >= n
        BY <1>1, <2>1, EvenIs
      <3>3. Encoded(v, b.ctype) = x
        BY <1>1, <3>0, <3>1 DEF Encoded
      <3>4. After(b, v).ctype = b.ctype /\ After(b, v).data = CutWritten(x, e, <<0>>, b.data, n)
        <4>1. Terminator(b.ctype) = <<0>>
          BY <1>1, <2>1, EvenIs
        <4> QED BY <2>1, <2>6, <3>2, <3>3, <4>1, AfterText
      <3>5. PICK old \in Seq(Nat) : old = b.data /\ Len(old) = n /\ \A i \in 1 .. n : old[i] = 0
        BY <2>1, <2>4, <3>2
      <3>6. PICK j \in 0 .. Len(x) : /\ Trim(CutWritten(x, e, <<0>>, old, n)) = Trim(Cut(x, j))
                                     /\ j < Len(x) => j = e
        <4>1. Len(old) = n /\ (e + 1 <= n \/ e = 0) /\ \A i \in 1 .. n : old[i] = 0
          BY <3>2, <3>5, Zenon
        <4>2. \E j \in 0 .. Len(x) : /\ Trim(CutWritten(x, e, <<0>>, old, n)) = Trim(Cut(x, j))
                                     /\ j < Len(x) => j = e
          BY <4>1, CharWritten, Zenon
        <4> QED BY <4>2, Zenon
      <3>7. ASSUME j < Len(x) PROVE NoRoomFor(p, bf, After(b, v), v)
        <4>1. PICK l \in Nat : l = Len(x) /\ e < l
          <5>1. PICK l \in Nat : l = Len(x)
            OBVIOUS
          <5>2. j = e /\ j < l
            BY <3>6, <3>7, <5>1, Zenon
          <5> QED BY <5>1, <5>2, Zenon
        <4>4. Len(Terminator("CHAR")) /= 2
          <5>1. Terminator("CHAR") = <<0>> /\ Len(<<0>>) = 1
            BY DEF Terminator
          <5>2. 1 /= 2
            OBVIOUS
          <5> QED BY <5>1, <5>2, Zenon
        <4>5. Len(Encoded(v, "CHAR")) = l
          BY <1>1, <3>3, <4>1, Zenon
        <4>7. After(b, v).ctype = "CHAR" /\ "CHAR" /= "BINARY"
          BY <1>1, <3>4
        <4>8. CASE p.mode = "out"
          <5>1. n = p.size + 1
            BY <2>2, <3>2, <4>8 DEF PlainBuffer
          <5>2. l > p.size - 0
            BY <2>0, <3>2, <4>1, <5>1
          <5> QED BY <4>4, <4>5, <4>7, <4>8, <5>2 DEF NoRoomFor
        <4>9. CASE p.mode = "inout"
          <5>1. n = p.size
            BY <2>2, <3>2, <4>9 DEF PlainBuffer
          <5>2. l >= p.size - 0
            BY <2>0, <3>2, <4>1, <5>1
          <5>3. p.nilDest \/ bf = Nil
            BY <2>2, <4>9 DEF Own
          <5> QED BY <4>4, <4>5, <4>7, <4>9, <5>2, <5>3 DEF NoRoomFor
        <4> QED BY <2>0, <4>8, <4>9
      <3>8. Trim(After(b, v).data) = Trim(Cut(x, j))
        BY <3>4, <3>5, <3>6, Zenon
      <3>9. CharRead(p, bf, After(b, v), v)
        <4>1. \E i \in 0 .. Len(Utf8(v.val)) :
                /\ Trim(After(b, v).data) = Trim(Cut(Utf8(v.val), i))
                /\ i < Len(Utf8(v.val)) => NoRoomFor(p, bf, After(b, v), v)
          BY <3>1, <3>7, <3>8, Zenon
        <4> QED BY <2>6, <3>0, <3>1, <4>1, Zenon DEF CharRead
      <3> QED BY <3>9
    <2> QED BY <2>5, <2>6
  <1>2. CASE b.ctype /= "CHAR"
    <2>1. After(b, v).ctype = b.ctype
      BY AfterType
    <2> QED BY <1>2, <2>1 DEF CharRead
  <1> QED BY <1>1, <1>2

\* ... text of two, ...
LEMMA WideAfter ==
  ASSUME NEW p, NEW bf, NEW b, TypedOut(p, bf), BufferRight(p, bf, b),
         NEW v \in ServerValues(p, b.ctype) \cup {Nil}
  PROVE  WideRead(p, bf, After(b, v), v)
  <1>1. CASE b.ctype \in {"WCHAR", "DBCHAR"}
    <2>0. p.size \in Nat /\ p.mode \in {"inout", "out"}
      BY DEF TypedOut
    <2>1. b.ctype \in Texts /\ b.data \in Seq(Nat) /\ Len(b.data) = b.size /\ b.size \in Nat
      BY <1>1, BufferTypes DEF Texts
    <2>2. SqltoCtype(p.stype) \in {"CHAR", "WCHAR", "DBCHAR"}
      BY <1>1, BufferTypes DEF Texts
    <2>3. /\ Own(p, bf) => b.size = p.size * 2 + 2 /\ Decoded("WCHAR", b.data) = bf.val /\ b.ctype = "WCHAR"
          /\ ~Own(p, bf) => /\ b.size = IF p.mode = "out" THEN p.size + 1 ELSE p.size
                            /\ b.data = Zeros(b.size) /\ b.ctype = SqltoCtype(p.stype)
      BY <1>1 DEF BufferRight, OwnBuffer, PlainBuffer, OwnType
    <2>4. b.size = 0 => ~Own(p, bf) /\ p.mode = "inout" /\ p.size = 0
      <3>1. PICK q \in Nat : q = p.size
        BY <2>0
      <3>2. q * 2 + 2 /= 0 /\ q + 1 /= 0
        OBVIOUS
      <3> QED BY <2>0, <2>3, <3>1, <3>2, Zenon
    <2>5. b.size = 0 => p.nilDest \/ bf = Nil
      BY <2>4 DEF Own
    <2>8. b.data = <<>> => b.size = 0
      BY <2>1
    <2>6. CASE v = Nil
      <3>1. After(b, v) = b
        BY <2>6 DEF After
      <3>2. Decoded(b.ctype, b.data) = IF Own(p, bf) THEN bf.val ELSE <<>>
        <4>1. CASE Own(p, bf)
          BY <2>3, <4>1
        <4>2. CASE ~Own(p, bf)
          <5>1. PICK n \in Int : n = b.size
            BY <2>1
          <5>2. PICK z : z = Zeros(n)
            OBVIOUS
          <5>3. \A i \in 1 .. Len(z) : z[i] = 0
            BY <5>2, ZerosType
          <5>4. \A i \in 1 .. Len(b.data) : b.data[i] = 0
            BY <2>3, <4>2, <5>1, <5>2, <5>3, Zenon
          <5>5. Decoded(b.ctype, b.data) = <<>>
            BY <2>1, <5>4, ZerosRead
          <5> QED BY <4>2, <5>5
        <4> QED BY <4>1, <4>2
      <3> QED BY <2>5, <2>6, <2>8, <3>1, <3>2, Zenon DEF WideRead
    <2>7. CASE v /= Nil
      <3>0. v.val \in Seq(Nat) /\ v.kind = "text" /\ (b.ctype = SqltoCtype(p.stype) => Len(v.val) <= p.size)
        BY <2>0, <2>2, <2>7, ServerValuesIs DEF Texts
      <3>1. PICK x \in Seq(Nat) : x = v.val /\ v.kind = "text" /\ (~Own(p, bf) => Len(x) <= p.size)
        BY <2>3, <3>0, Zenon
      <3>2. PICK e \in Nat, n \in Nat :
              /\ e = Even(b) /\ n = b.size /\ e % 2 = 0 /\ (e + 2 <= n \/ e = 0) /\ e + 3 >= n
              /\ n % 2 = 0 => e + 2 >= n
        BY <1>1, <2>1, EvenIs
      <3>3. Encoded(v, b.ctype) = Bytes16(b.ctype, x)
        BY <1>1, <3>1 DEF Encoded, Bytes16
      <3>4. PICK a : a = After(b, v)
        OBVIOUS
      <3>5. /\ a.ctype = b.ctype /\ a.size = n
            /\ a.data = CutWritten(Bytes16(b.ctype, x), e, <<0, 0>>, b.data, n)
        <4>1. Terminator(b.ctype) = <<0, 0>>
          BY <1>1, <2>1, EvenIs
        <4> QED BY <2>1, <2>7, <3>2, <3>3, <3>4, <4>1, AfterText
      <3>6. PICK old \in Seq(Nat) : old = b.data /\ Len(old) = n
        BY <2>1, <3>2
      <3>12. PICK d : d = CutWritten(Bytes16(b.ctype, x), e, <<0, 0>>, old, n)
        OBVIOUS
      <3>13. /\ Len(d) = n
             /\ \E i \in 0 .. Len(x) :
                  /\ Decoded(b.ctype, d) = Text(Cut(x, i))
                  /\ i < Len(x) => 2 * i = e
        <4>1. Len(old) = n /\ (e + 2 <= n \/ e = 0) /\ e % 2 = 0
          BY <3>2, <3>6, Zenon
        <4>2. WideHolds(b.ctype, x, e, old, n)
          BY <4>1, WideWritten
        <4> QED BY <3>12, <4>2, Zenon DEF WideHolds
      <3>7. PICK j \in 0 .. Len(x) :
              /\ Decoded(b.ctype, d) = Text(Cut(x, j))
              /\ j < Len(x) => 2 * j = e
        BY <3>13, Zenon
      <3>8. a.data = d /\ Decoded(a.ctype, a.data) = Text(Cut(x, j))
        BY <3>5, <3>6, <3>7, <3>12, Zenon
      <3>9. ASSUME j < Len(x) PROVE NoRoomFor(p, bf, a, v)
        <4>1. PICK l \in Nat : l = Len(x)
          OBVIOUS
        <4>2. 2 * j = e /\ j < l /\ j \in Nat
          <5>1. j \in Nat
            OBVIOUS
          <5> QED BY <3>7, <3>9, <4>1, <5>1, Zenon
        <4>3. e + 2 <= 2 * l
          BY <4>2
        <4>4. PICK m \in Nat : m = 2 * l /\ m = Len(Encoded(v, a.ctype))
          <5>1. Len(Bytes16(b.ctype, x)) = 2 * Len(x)
            BY Bytes16Type
          <5>2. 2 * l \in Nat
            OBVIOUS
          <5> QED BY <3>3, <3>5, <4>1, <5>1, <5>2, Zenon
        <4>5. Len(Terminator(a.ctype)) = 2 /\ a.ctype /= "BINARY"
          <5>1. Terminator(a.ctype) = <<0, 0>> /\ a.ctype /= "BINARY"
            BY <1>1, <3>5 DEF Terminator
          <5>2. Len(<<0, 0>>) = 2
            OBVIOUS
          <5> QED BY <5>1, <5>2, Zenon
        <4>6. CASE Own(p, bf)
          <5>1. PICK q \in Nat : q = p.size /\ n = q * 2 + 2
            BY <2>0, <2>3, <3>2, <4>6
          <5>2. n % 2 = 0
            BY <5>1
          <5>3. e + 2 >= n
            BY <3>2, <5>2, Zenon
          <5>4. m > 2 * q
            BY <4>2, <4>4, <5>1, <5>3
          <5>5. bf.kind = "string" /\ p.mode = "inout"
            BY <1>1, <4>6 DEF BufferRight, OwnBuffer, OwnType, Own, TypedOut, GoTypes
          <5> QED BY <4>4, <5>1, <5>4, <5>5, Zenon DEF NoRoomFor
        <4>7. CASE ~Own(p, bf) /\ p.mode = "out"
          <5>1. n = p.size + 1
            BY <2>3, <3>2, <4>7
          <5>2. m > p.size - 1
            BY <2>0, <3>2, <4>3, <4>4, <5>1
          <5>3. \/ /\ p.mode = "out" /\ a.ctype /= "BINARY"
                   /\ m > p.size - (IF Len(Terminator(a.ctype)) = 2 THEN 1 ELSE 0)
            BY <4>5, <4>7, <5>2
          <5> QED BY <4>4, <5>3, Zenon DEF NoRoomFor
        <4>8. CASE ~Own(p, bf) /\ p.mode = "inout"
          <5>1. n = p.size
            BY <2>3, <3>2, <4>8
          <5>2. m >= p.size - 1
            BY <2>0, <3>2, <4>3, <4>4, <5>1
          <5>3. p.nilDest \/ bf = Nil
            BY <4>8 DEF Own
          <5> QED BY <4>4, <4>5, <4>8, <5>2, <5>3 DEF NoRoomFor
        <4> QED BY <2>0, <4>6, <4>7, <4>8
      <3>10. a.data = <<>> => x = <<>> /\ (p.nilDest \/ bf = Nil)
        <4>1. Len(a.data) = n
          BY <3>8, <3>13, Zenon
        <4>2. ASSUME a.data = <<>> PROVE x = <<>> /\ b.size = 0
          <5>1. n = 0
            BY <4>1, <4>2
          <5>2. p.size = 0 /\ ~Own(p, bf)
            BY <2>4, <3>2, <5>1
          <5>3. Len(x) = 0
            BY <3>1, <5>2
          <5> QED BY <3>2, <5>1, <5>3
        <4> QED BY <2>5, <4>2
      <3>11. /\ v.kind = "text" /\ v.val \in Seq(Nat) /\ (a.data = <<>> => v.val = <<>>)
             /\ \E i \in 0 .. Len(v.val) :
                  /\ Decoded(a.ctype, a.data) = Text(Cut(v.val, i))
                  /\ i < Len(v.val) => NoRoomFor(p, bf, a, v)
        BY <3>1, <3>8, <3>9, <3>10, Zenon
      <3> QED BY <2>7, <3>4, <3>10, <3>11, Zenon DEF WideRead
    <2> QED BY <2>6, <2>7
  <1>2. CASE b.ctype \notin {"WCHAR", "DBCHAR"}
    BY <1>2, AfterType DEF WideRead
  <1> QED BY <1>1, <1>2

\* ... and binary data.
LEMMA BinaryAfter ==
  ASSUME NEW p, NEW bf, NEW b, TypedOut(p, bf), BufferRight(p, bf, b),
         NEW v \in ServerValues(p, b.ctype) \cup {Nil}
  PROVE  BinaryRead(p, bf, After(b, v), v)
  <1>1. CASE b.ctype = "BINARY"
    <2>0. p.size \in Nat /\ p.mode \in {"inout", "out"}
      BY DEF TypedOut
    <2>1. b.ctype \in Texts /\ b.data \in Seq(Nat) /\ Len(b.data) = b.size /\ b.size \in Nat
      BY <1>1, BufferTypes DEF Texts
    <2>2. SqltoCtype(p.stype) = "BINARY"
      BY <1>1 DEF BufferRight, OwnBuffer, PlainBuffer
    <2>3. /\ Own(p, bf) => /\ b.size = Len(bf.val) /\ b.data = bf.val
                           /\ bf.kind = p.dest /\ OwnType(p.dest) = "BINARY" /\ p.dest /= "interface"
          /\ ~Own(p, bf) => /\ b.size = IF p.mode = "out" THEN p.size + 1 ELSE p.size
                            /\ b.data = Zeros(b.size) /\ b.ctype = SqltoCtype(p.stype)
      BY <1>1 DEF BufferRight, OwnBuffer, PlainBuffer
    <2>4. Own(p, bf) => bf.kind = "bytes" /\ p.mode = "inout"
      BY <2>3 DEF OwnType, Own
    <2>7. ~Own(p, bf) => \A i \in 1 .. b.size : b.data[i] = 0
      <3>1. PICK n \in Int : n = b.size
        BY <2>1
      <3>2. PICK z : z = Zeros(n)
        OBVIOUS
      <3>3. \A i \in 1 .. Len(z) : z[i] = 0
        BY <3>2, ZerosType
      <3> QED BY <2>1, <2>3, <3>1, <3>2, <3>3, Zenon
    <2>8. p.mode = "out" => ~Own(p, bf) /\ b.size = p.size + 1 /\ b.size \in DOMAIN b.data /\ b.data[b.size] = 0
      <3>1. p.mode = "out" => ~Own(p, bf)
        BY DEF Own
      <3>2. p.mode = "out" => b.size = p.size + 1
        BY <2>3, <3>1
      <3>3. p.mode = "out" => b.size \in 1 .. b.size /\ b.size \in DOMAIN b.data
        BY <2>0, <2>1, <3>2
      <3> QED BY <2>7, <3>1, <3>2, <3>3, Zenon
    <2>5. CASE v = Nil
      <3>1. After(b, v) = b
        BY <2>5 DEF After
      <3> QED BY <2>3, <2>5, <2>8, <3>1, Zenon DEF BinaryRead
    <2>6. CASE v /= Nil
      <3>1. PICK x \in Seq(Nat) : x = v.val /\ v.kind = "binary" /\ Len(x) <= p.size
        <4>1. v \in ServerValues(p, b.ctype) /\ b.ctype = SqltoCtype(p.stype)
          BY <1>1, <2>2, <2>6
        <4> QED BY <2>0, <2>2, <4>1, ServerValuesIs DEF Texts
      <3>2. PICK n \in Nat : n = b.size /\ n = Even(b)
        BY <1>1, <2>1, EvenIs
      <3>3. Encoded(v, b.ctype) = x
        BY <1>1, <3>1 DEF Encoded
      <3>4. PICK a : a = After(b, v)
        OBVIOUS
      <3>5. a.ctype = b.ctype /\ a.data = CutWritten(x, n, <<>>, b.data, n)
        <4>1. Terminator(b.ctype) = <<>>
          BY <1>1, <2>1, EvenIs
        <4> QED BY <2>1, <2>6, <3>2, <3>3, <3>4, <4>1, AfterText
      <3>6. PICK old \in Seq(Nat) : old = b.data /\ Len(old) = n
        BY <2>1, <3>2
      <3>7. \/ Cut(a.data, Len(x)) = x
            \/ n < Len(x) /\ a.data = Cut(x, n)
        <4>1. PICK d : d = CutWritten(x, n, <<>>, old, n)
          OBVIOUS
        <4>2. Cut(d, Len(x)) = x \/ (n < Len(x) /\ d = Cut(x, n))
          BY <3>6, <4>1, BinaryWritten
        <4>3. a.data = d
          BY <3>5, <3>6, <4>1, Zenon
        <4> QED BY <4>2, <4>3, Zenon
      <3>8. ASSUME n < Len(x) PROVE NoRoomFor(p, bf, a, v) /\ n \in 0 .. Len(x)
        <4>1. n \in 0 .. Len(x)
          BY <3>8
        <4>2. Own(p, bf)
          BY <2>0, <2>3, <3>1, <3>2, <3>8
        <4>3. n = Len(bf.val) /\ bf.kind = "bytes" /\ p.mode = "inout"
          BY <2>3, <2>4, <3>2, <4>2
        <4>4. Encoded(v, a.ctype) = x
          BY <3>3, <3>5, Zenon
        <4>5. Len(x) > n
          BY <3>8
        <4> QED BY <4>1, <4>3, <4>4, <4>5, Zenon DEF NoRoomFor
      <3>9. \/ Cut(a.data, Len(v.val)) = v.val
            \/ NoRoomFor(p, bf, a, v) /\ \E i \in 0 .. Len(v.val) : a.data = Cut(v.val, i)
        BY <3>1, <3>7, <3>8, Zenon
      <3>10. v.kind = "binary" /\ v.val \in Seq(Nat)
        BY <3>1
      <3>11. p.mode = "out" => \E i \in DOMAIN a.data : a.data[i] = 0
        <4>1. ASSUME p.mode = "out" PROVE n \in DOMAIN a.data /\ a.data[n] = 0
          <5>1. n = p.size + 1 /\ old[n] = 0
            BY <2>8, <3>2, <3>6, <4>1
          <5>2. Len(x) < n
            BY <2>0, <3>1, <5>1
          <5>3. PICK d : d = CutWritten(x, n, <<>>, old, n)
            OBVIOUS
          <5>4. n \in DOMAIN d /\ d[n] = 0
            BY <3>6, <5>1, <5>2, <5>3, BinaryLeft
          <5> QED BY <3>5, <3>6, <5>3, <5>4, Zenon
        <4> QED BY <4>1
      <3> QED BY <2>6, <3>4, <3>9, <3>10, <3>11, Zenon DEF BinaryRead
    <2> QED BY <2>5, <2>6
  <1>2. CASE b.ctype /= "BINARY"
    BY <1>2, AfterType DEF BinaryRead
  <1> QED BY <1>1, <1>2

\* All of them.
LEMMA AfterRead ==
  ASSUME NEW p, NEW bf, NEW b, TypedOut(p, bf), BufferRight(p, bf, b),
         NEW v \in ServerValues(p, b.ctype) \cup {Nil}
  PROVE  OutRead(p, bf, After(b, v), v)
  <1>1. Own(p, bf) => bf.kind = p.dest /\ p.dest /= "interface" /\ b.ctype = OwnType(p.dest)
    BY DEF BufferRight, OwnBuffer
  <1>2. v = Of(v.kind, v.val)
    <2>1. CASE v = Nil
      BY <2>1 DEF Nil, Of
    <2>2. CASE v \in ServerValues(p, b.ctype)
      <3>1. p.size \in Nat
        BY DEF TypedOut
      <3> QED BY <2>2, <3>1, ServerValuesIs
    <2> QED BY <2>1, <2>2
  <1> QED BY <1>1, <1>2, AfterType, BufferTypes, NumberAfter, CharAfter, WideAfter, BinaryAfter DEF OutRead

------------------------------------------------------------------------------
\* What ConvertAssign makes of a number or a time, of a text, and of a NULL.
LEMMA ConvertNumber ==
  ASSUME NEW d \in GoTypes, NEW k \in {"bool", "int32", "int64", "float64", "time"}, NEW n \in Int,
         NEW r, r = ConvertAssign(d, Of(k, n))
  PROVE  /\ r.how = "ok" => /\ ~param.nilDest /\ r.val.val = n
                            /\ d \notin {"string", "bytes", "interface"} => r.val = Of(d, n)
         /\ r.how = "panic" => param.nilDest
         /\ r.how = "error" /\ ~param.nilDest =>
              /\ d \notin {"string", "bytes", "interface"}
              /\ d = "bool" => k /= "bool"
              /\ d = "time" => k /= "time"
              /\ d = "float64" => k \in {"bool", "time"}
              /\ d \in {"int8", "int64"} =>
                   k \in {"bool", "time"} \/ ~IntegerNumeral(Of(k, n)) \/ n \notin IntRange(d)
  <1>1. Of(k, n).kind = k /\ Of(k, n).val = n
    BY DEF Of
  <1>2. \A v : /\ Checked(v) = (IF param.nilDest THEN Failed("error") ELSE Stored(v))
               /\ Unchecked(v) = (IF param.nilDest THEN Failed("panic") ELSE Stored(v))
               /\ Stored(v).how = "ok" /\ Stored(v).val = v
    BY DEF Checked, Unchecked, Stored
  <1>3. Failed("error").how = "error" /\ Failed("panic").how = "panic"
    BY DEF Failed
  <1>4. CASE d \in {"string", "bytes"}
    <2>1. r = Checked(Of("text", n)) \/ r = Unchecked(Of("text", n))
      BY <1>1, <1>4 DEF ConvertAssign
    <2>2. Of("text", n).val = n
      BY DEF Of
    <2> QED BY <1>2, <1>3, <1>4, <2>1, <2>2
  <1>5. CASE d = "interface"
    <2>1. r = Unchecked(Of(k, n))
      BY <1>1, <1>5 DEF ConvertAssign
    <2> QED BY <1>1, <1>2, <1>3, <1>5, <2>1
  <1>6. CASE d = "bool"
    <2>1. r = IF k = "bool" THEN Checked(Of(k, n)) ELSE Failed("error")
      BY <1>1, <1>6 DEF ConvertAssign
    <2> QED BY <1>1, <1>2, <1>3, <1>6, <2>1
  <1>7. CASE d = "time"
    <2>1. r = IF k = "time" THEN Unchecked(Of(k, n)) ELSE Failed("error")
      BY <1>1, <1>7 DEF ConvertAssign
    <2> QED BY <1>1, <1>2, <1>3, <1>7, <2>1
  <1>8. CASE d = "float64"
    <2>1. r = IF k = "float64" THEN Checked(Of(k, n))
              ELSE IF k \in {"int32", "int64"} THEN Checked(Of(d, n)) ELSE Failed("error")
      BY <1>1, <1>8 DEF ConvertAssign
    <2>2. Of(d, n).val = n
      BY DEF Of
    <2> QED BY <1>1, <1>2, <1>3, <1>8, <2>1, <2>2
  <1>9. CASE d \in {"int8", "int64"}
    <2>1. IntegerNumeral(Of(k, n)) => k \in {"int32", "int64", "float64"}
      BY <1>1 DEF IntegerNumeral
    <2>2. k = "int64" /\ d = "int64" => r = Checked(Of(k, n))
      BY <1>1, <1>9 DEF ConvertAssign
    <2>3. ~(k = "int64" /\ d = "int64") =>
             r = IF IntegerNumeral(Of(k, n)) /\ n \in IntRange(d) THEN Checked(Of(d, n)) ELSE Failed("error")
      <3>1. PICK g \in BOOLEAN : g = (IntegerNumeral(Of(k, n)) /\ n \in IntRange(d))
        BY Zenon
      <3> QED BY <1>1, <1>9, <2>1, <3>1 DEF ConvertAssign
    <2>4. Of(d, n).val = n
      BY DEF Of
    <2>5. CASE k = "int64" /\ d = "int64"
      BY <1>1, <1>2, <1>3, <2>2, <2>5
    <2>6. CASE ~(k = "int64" /\ d = "int64") /\ IntegerNumeral(Of(k, n)) /\ n \in IntRange(d)
      <3>1. r = Checked(Of(d, n))
        BY <2>3, <2>6, Zenon
      <3> QED BY <1>2, <1>3, <1>9, <2>4, <3>1
    <2>7. CASE ~(k = "int64" /\ d = "int64") /\ ~(IntegerNumeral(Of(k, n)) /\ n \in IntRange(d))
      <3>1. r = Failed("error")
        BY <2>3, <2>7, Zenon
      <3> QED BY <1>3, <1>9, <2>7, <3>1
    <2> QED BY <2>5, <2>6, <2>7, Zenon
  <1> QED BY <1>4, <1>5, <1>6, <1>7, <1>8, <1>9 DEF GoTypes

\* A text in a variable of type d: itself, or the number it is a numeral of.
TextStored(d, s, w) ==
  \/ d \in {"string", "bytes", "interface"} /\ w = Of(d, s)
  \/ d \in {"int8", "int64"} /\ s \in DOMAIN IntNumerals /\ w = Of(d, IntNumerals[s])
  \/ d = "float64" /\ s \in DOMAIN FloatNumerals /\ w = Of(d, FloatNumerals[s])

TextFits(d, s) ==
  \/ d \in {"string", "bytes", "interface"}
  \/ d \in {"int8", "int64"} /\ s \in DOMAIN IntNumerals /\ IntNumerals[s] \in IntRange(d)
  \/ d = "float64" /\ s \in DOMAIN FloatNumerals

LEMMA ConvertText ==
  ASSUME NEW d \in GoTypes, NEW s, NEW r, r = ConvertAssign(d, Of("bytes", s))
  PROVE  /\ r.how = "ok" => ~param.nilDest /\ TextStored(d, s, r.val)
         /\ r.how /= "panic"
         /\ r.how = "error" => param.nilDest \/ ~TextFits(d, s)
  <1>1. Of("bytes", s).kind = "bytes" /\ Of("bytes", s).val = s
    BY DEF Of
  <1>2. ~IntegerNumeral(Of("bytes", s))
    BY <1>1 DEF IntegerNumeral
  <1>3. ASSUME NEW v, r = Checked(v)
        PROVE  /\ r.how = "ok" => ~param.nilDest /\ r.val = v
               /\ r.how /= "panic"
               /\ r.how = "error" => param.nilDest
    <2>1. CASE param.nilDest
      <3>1. r = Failed("error")
        BY <1>3, <2>1 DEF Checked
      <3> QED BY <2>1, <3>1 DEF Failed
    <2>2. CASE ~param.nilDest
      <3>1. r = Stored(v)
        BY <1>3, <2>2 DEF Checked
      <3> QED BY <2>2, <3>1 DEF Stored
    <2> QED BY <2>1, <2>2
  <1>4. r = Failed("error") => r.how = "error"
    BY DEF Failed
  <1>5. CASE d \in {"string", "bytes", "interface"}
    <2>1. r = Checked(Of(d, s))
      BY <1>1, <1>5 DEF ConvertAssign
    <2> QED BY <1>3, <1>5, <2>1 DEF TextStored
  <1>6. CASE d \in {"int8", "int64"}
    <2>1. PICK g \in BOOLEAN : g = (s \in DOMAIN IntNumerals /\ IntNumerals[s] \in IntRange(d))
      BY Zenon
    <2>2. r = IF g THEN Checked(Of(d, IntNumerals[s])) ELSE Failed("error")
      BY <1>1, <1>2, <1>6, <2>1 DEF ConvertAssign
    <2>3. CASE g
      <3>1. r = Checked(Of(d, IntNumerals[s]))
        BY <2>2, <2>3, Zenon
      <3>2. s \in DOMAIN IntNumerals
        BY <2>1, <2>3, Zenon
      <3> QED BY <1>3, <1>6, <3>1, <3>2 DEF TextStored
    <2>4. CASE ~g
      <3>1. r = Failed("error")
        BY <2>2, <2>4, Zenon
      <3>2. ~(s \in DOMAIN IntNumerals /\ IntNumerals[s] \in IntRange(d))
        BY <2>1, <2>4, Zenon
      <3>3. ~TextFits(d, s)
        BY <1>6, <3>2 DEF TextFits
      <3> QED BY <1>4, <3>1, <3>3
    <2> QED BY <2>3, <2>4
  <1>7. CASE d = "float64"
    <2>1. r = IF s \in DOMAIN FloatNumerals THEN Checked(Of(d, FloatNumerals[s])) ELSE Failed("error")
      BY <1>1, <1>2, <1>7 DEF ConvertAssign
    <2> QED BY <1>3, <1>4, <1>7, <2>1 DEF TextStored, TextFits
  <1>8. CASE d \in {"bool", "time"}
    <2>1. r = Failed("error")
      BY <1>1, <1>2, <1>8 DEF ConvertAssign
    <2> QED BY <1>4, <1>8, <2>1 DEF TextFits
  <1> QED BY <1>5, <1>6, <1>7, <1>8 DEF GoTypes

\* What is no numeral is in no number.
Unnumbered(s) == s = <<>> \/ \E i \in DOMAIN s : s[i] = 0

LEMMA NoNumber ==
  ASSUME NEW d, NEW s, Unnumbered(s), NEW w
  PROVE  /\ TextStored(d, s, w) => d \in {"string", "bytes", "interface"} /\ w.val = s
         /\ TextFits(d, s) => d \in {"string", "bytes", "interface"}
  <1>1. s \notin DOMAIN IntNumerals /\ s \notin DOMAIN FloatNumerals
    BY ParamValuesAssumption, Zenon DEF Unnumbered
  <1>2. Of(d, s).val = s
    BY DEF Of
  <1> QED BY <1>1, <1>2 DEF TextStored, TextFits

\* A numeral has no NULs to be trimmed.
LEMMA NumeralTrim ==
  ASSUME NEW s \in DOMAIN IntNumerals \cup DOMAIN FloatNumerals
  PROVE  Trim(s) = s
  <1>1. s \in Seq(Bytes) /\ s /= <<>> /\ \A i \in DOMAIN s : s[i] /= 0
    BY ParamValuesAssumption, Zenon
  <1>2. PICK n \in Nat : n = Len(s) /\ n >= 1 /\ DOMAIN s = 1 .. n
    BY <1>1
  <1> DEFINE k == {i \in DOMAIN s : s[i] /= 0}
  <1>3. k = 1 .. n
    BY <1>1, <1>2
  <1>4. Trim(s) = IF k = {} THEN <<>> ELSE SubSeq(s, Min(k), Max(k))
    BY Zenon DEF Trim
  <1> HIDE DEF k
  <1>5. 1 \in k /\ n \in k /\ k \subseteq Int /\ \A i \in k : 1 <= i /\ i <= n
    BY <1>2, <1>3
  <1>6. Min(k) = 1
    <2>1. Min(k) \in k /\ \A i \in k : Min(k) <= i
      <3>1. \E m \in k : \A i \in k : m <= i
        BY <1>5
      <3> QED BY <3>1 DEF Min
    <2>2. Min(k) <= 1 /\ 1 <= Min(k) /\ Min(k) \in Int
      BY <1>5, <2>1
    <2> QED BY <2>2
  <1>7. Max(k) = n
    <2>1. Max(k) \in k /\ \A i \in k : Max(k) >= i
      <3>1. \E m \in k : \A i \in k : m >= i
        BY <1>5
      <3> QED BY <3>1 DEF Max
    <2>2. Max(k) <= n /\ Max(k) >= n /\ Max(k) \in Int
      BY <1>5, <2>1
    <2> QED BY <1>2, <2>2
  <1>8. Trim(s) = SubSeq(s, 1, Len(s))
    BY <1>2, <1>4, <1>5, <1>6, <1>7
  <1>9. s \in Seq(Nat)
    <2>1. Bytes \subseteq Nat
      BY DEF Bytes
    <2> QED BY <1>1, <2>1, SeqOfMore
  <1> QED BY <1>8, <1>9, SubSeqFull

LEMMA TrimmedFits ==
  ASSUME NEW d, NEW s, TextFits(d, s)
  PROVE  TextFits(d, Trim(s))
  <1>1. CASE d \in {"string", "bytes", "interface"}
    BY <1>1 DEF TextFits
  <1>2. CASE d \notin {"string", "bytes", "interface"}
    <2>1. s \in DOMAIN IntNumerals \cup DOMAIN FloatNumerals
      BY <1>2 DEF TextFits
    <2>2. Trim(s) = s
      BY <2>1, NumeralTrim
    <2> QED BY <2>2
  <1> QED BY <1>1, <1>2

LEMMA ConvertNil ==
  ASSUME NEW d \in GoTypes, NEW r, r = ConvertAssign(d, Nil)
  PROVE  /\ r.how = "ok" => ~param.nilDest /\ d \in {"bytes", "interface"} /\ r.val = Nil
         /\ r.how /= "panic"
         /\ r.how = "error" => param.nilDest \/ d \notin {"bytes", "interface"}
  <1>1. Nil.kind = "nil"
    BY DEF Nil, Of
  <1>2. CASE d \in {"bytes", "interface"}
    <2>1. r = Checked(Nil)
      BY <1>1, <1>2 DEF ConvertAssign
    <2> QED BY <1>2, <2>1 DEF Checked, Failed, Stored
  <1>3. CASE d \notin {"bytes", "interface"}
    <2>1. ~IntegerNumeral(Nil)
      BY <1>1 DEF IntegerNumeral
    <2>2. r = Failed("error")
      BY <1>1, <1>3, <2>1 DEF ConvertAssign, GoTypes
    <2> QED BY <1>3, <2>2 DEF Failed
  <1> QED BY <1>2, <1>3

LEMMA ConvertPanic ==
  ASSUME NEW d, NEW r, r = ConvertAssign(d, Of("panic", <<>>))
  PROVE  r.how = "panic"
  <1>1. Of("panic", <<>>).kind = "panic"
    BY DEF Of
  <1>2. ~IntegerNumeral(Of("panic", <<>>))
    BY <1>1 DEF IntegerNumeral
  <1>3. r = Failed("panic")
    BY <1>1, <1>2 DEF ConvertAssign
  <1> QED BY <1>3 DEF Failed

------------------------------------------------------------------------------
\* OutExact, of a parameter p, the variable's value bf, the buffer b, the
\* server's value v and what the variable has become, w.
MeaningFor(b, v) == CASE v.kind = "text" /\ b.ctype = "CHAR" -> Utf8(v.val)
                      [] v.kind = "text" /\ b.ctype /= "CHAR" -> Text(v.val)
                      [] OTHER -> v.val

TakenFor(p, b, x) ==
  CASE b.ctype \in Texts /\ p.dest \in {"int8", "int64"} ->
         {IntNumerals[s] : s \in {x} \cap DOMAIN IntNumerals}
    [] b.ctype \in Texts /\ p.dest = "float64" ->
         {FloatNumerals[s] : s \in {x} \cap DOMAIN FloatNumerals}
    [] OTHER -> {x}

CutMeaningFor(b, v, n) == IF b.ctype = "CHAR" THEN Cut(MeaningFor(b, v), n)
                          ELSE MeaningFor(b, [v EXCEPT !.val = Cut(@, n)])

NilRight(p, bf, b, w) ==
  IF p.mode = "inout" /\ bf /= Nil THEN w = bf
  ELSE IF b.ctype \in Texts THEN w.val \in {<<>>, Zeros(b.size)}
  ELSE w.val = 0

ValueRight(p, bf, b, v, w) ==
  \/ w.val \in TakenFor(p, b, MeaningFor(b, v))
  \/ /\ b.ctype \in Texts /\ NoRoomFor(p, bf, b, v)
     /\ \E n \in 0 .. Len(Encoded(v, b.ctype)) :
          \/ w.val \in TakenFor(p, b, CutMeaningFor(b, v, n))
          \/ b.ctype = "CHAR" /\ w.val \in TakenFor(p, b, Trim(CutMeaningFor(b, v, n)))
  \/ b.ctype = "BINARY" /\ Cut(w.val, Len(MeaningFor(b, v))) = MeaningFor(b, v)
  \/ b.ctype = "CHAR" /\ w.val \in TakenFor(p, b, Trim(MeaningFor(b, v)))
  \/ b.overrun

HoldsFor(p, b, v) ==
  CASE p.dest \in {"int8", "int64"} ->
         \/ v.kind = "number" /\ b.ctype /= "BIT" /\ Integral(v.val) /\ v.val \in IntRange(p.dest)
         \/ /\ v.kind = "text" /\ MeaningFor(b, v) \in DOMAIN IntNumerals
            /\ IntNumerals[MeaningFor(b, v)] \in IntRange(p.dest)
    [] p.dest = "float64" -> \/ v.kind = "number" /\ b.ctype /= "BIT"
                             \/ v.kind = "text" /\ MeaningFor(b, v) \in DOMAIN FloatNumerals
    [] p.dest = "bool" -> b.ctype = "BIT"
    [] p.dest = "time" -> v.kind = "time"
    [] OTHER -> TRUE

ErrorRight(p, bf, b, v) ==
  \/ ~HoldsFor(p, b, v) \/ p.nilDest \/ v = Nil
  \/ b.ctype = "DOUBLE" /\ v.val >= 2000000 /\ p.dest \in {"int8", "int64"}
  \/ b.ctype \in Texts /\ NoRoomFor(p, bf, b, v)

PanicRight(p, b) ==
  \/ p.nilDest \/ SqltoCtype(p.stype) = "panic"
  \/ b.ctype \in {"WCHAR", "DBCHAR"} /\ Elements(b.ctype, b.data) > MaxElements

OutExactFor(p, bf, b, v, w, how) ==
  /\ how = "ok" /\ v = Nil => NilRight(p, bf, b, w)
  /\ how = "ok" /\ v /= Nil => ValueRight(p, bf, b, v, w)
  /\ how = "error" => ErrorRight(p, bf, b, v)
  /\ how = "panic" /\ p.mode \in {"inout", "out"} => PanicRight(p, b)

\* OutExact, in terms of these values.
LEMMA OutExactIs ==
  /\ OutExact <=> OutExactFor(param, before, buf, sent, variable, pc)
  /\ OutExact' <=> OutExactFor(param', before', buf', sent', variable', pc')
  <1>1. OutExact <=> OutExactFor(param, before, buf, sent, variable, pc)
    BY DEF OutExact, Meant, Meaning, Taken, CutMeaning, NoRoom, Holds, Numeric, Numeral, OutExactFor,
           NilRight, ValueRight, MeaningFor, TakenFor, CutMeaningFor, NoRoomFor, ErrorRight, HoldsFor,
           PanicRight
  <1>2. OutExact' <=> OutExactFor(param', before', buf', sent', variable', pc')
    BY DEF OutExact, Meant, Meaning, Taken, CutMeaning, NoRoom, Holds, Numeric, Numeral, OutExactFor,
           NilRight, ValueRight, MeaningFor, TakenFor, CutMeaningFor, NoRoomFor, ErrorRight, HoldsFor,
           PanicRight
  <1> QED BY <1>1, <1>2

\* What a text that is stored leaves in the variable.
LEMMA StoredTaken ==
  ASSUME NEW p, p.dest \in GoTypes, NEW b, b.ctype \in Texts, NEW s, NEW w, TextStored(p.dest, s, w)
  PROVE  w.val \in TakenFor(p, b, s)
  <1>1. \A k, x : Of(k, x).val = x
    BY DEF Of
  <1>2. CASE p.dest \in {"string", "bytes", "interface"}
    <2>1. w.val = s
      BY <1>1, <1>2 DEF TextStored
    <2>2. TakenFor(p, b, s) = {s}
      BY <1>2 DEF TakenFor
    <2> QED BY <2>1, <2>2
  <1>3. CASE p.dest \in {"int8", "int64"}
    <2>1. s \in DOMAIN IntNumerals /\ w.val = IntNumerals[s]
      BY <1>1, <1>3 DEF TextStored
    <2>2. TakenFor(p, b, s) = {IntNumerals[x] : x \in {s} \cap DOMAIN IntNumerals}
      BY <1>3 DEF TakenFor
    <2> QED BY <2>1, <2>2
  <1>4. CASE p.dest = "float64"
    <2>1. s \in DOMAIN FloatNumerals /\ w.val = FloatNumerals[s]
      BY <1>1, <1>4 DEF TextStored
    <2>2. TakenFor(p, b, s) = {FloatNumerals[x] : x \in {s} \cap DOMAIN FloatNumerals}
      BY <1>4 DEF TakenFor
    <2> QED BY <2>1, <2>2
  <1>5. CASE p.dest \in {"bool", "time"}
    BY <1>5 DEF TextStored
  <1> QED BY <1>2, <1>3, <1>4, <1>5 DEF GoTypes

\* A variable that can hold a text takes what it means; binary data is no numeral.
LEMMA HoldsText ==
  ASSUME NEW p, p.dest \in GoTypes, NEW b, b.ctype \in Texts, NEW v, v.kind \in {"text", "binary"},
         HoldsFor(p, b, v)
  PROVE  /\ v.kind = "text" => TextFits(p.dest, MeaningFor(b, v))
         /\ v.kind = "binary" => p.dest \in {"string", "bytes", "interface"}
  <1>1. CASE p.dest \in {"string", "bytes", "interface"}
    BY <1>1 DEF TextFits
  <1>2. CASE p.dest \in {"int8", "int64"}
    <2>1. /\ v.kind = "text" /\ MeaningFor(b, v) \in DOMAIN IntNumerals
          /\ IntNumerals[MeaningFor(b, v)] \in IntRange(p.dest)
      BY <1>2 DEF HoldsFor
    <2> QED BY <1>2, <2>1 DEF TextFits
  <1>3. CASE p.dest = "float64"
    <2>1. v.kind = "text" /\ MeaningFor(b, v) \in DOMAIN FloatNumerals
      BY <1>3 DEF HoldsFor
    <2> QED BY <1>3, <2>1 DEF TextFits
  <1>4. CASE p.dest \in {"bool", "time"}
    BY <1>4 DEF HoldsFor, Texts
  <1> QED BY <1>1, <1>2, <1>3, <1>4 DEF GoTypes

\* ConvertAssign stores what OutValue has read, or says why it cannot: a
\* number or a time, ...
LEMMA ReadNumber ==
  ASSUME TypedOut(param, before), OutRead(param, before, buf, sent), buf.ctype \notin Texts,
         NEW r, r = ConvertAssign(param.dest, OutValue), NEW w, r.how = "ok" => w = r.val
  PROVE  OutExactFor(param, before, buf, sent, w, r.how)
  <1>1. /\ buf.ctype \in NumTypes \cup Times /\ buf.fixed \in Int
        /\ sent = Nil => buf.fixed = IF Own(param, before) THEN before.val ELSE 0
        /\ sent /= Nil => /\ sent.val = buf.fixed
                          /\ sent.kind = IF buf.ctype \in Times THEN "time" ELSE "number"
    BY DEF OutRead, NumberRead
  <1>2. param.dest \in GoTypes /\ before \in Before(param.dest) /\ param.nilDest \in BOOLEAN
    BY DEF TypedOut
  <1>3. PICK k \in {"bool", "int32", "int64", "float64", "time"} :
          /\ OutValue = Of(k, buf.fixed)
          /\ k = "bool" <=> buf.ctype = "BIT"
          /\ k = "time" <=> buf.ctype \in Times
          /\ k = "float64" <=> buf.ctype = "DOUBLE"
    BY <1>1 DEF OutValue, NumTypes, Times
  <1>4. PICK n \in Int : n = buf.fixed
    BY <1>1
  <1>5. r = ConvertAssign(param.dest, Of(k, n))
    BY <1>3, <1>4, Zenon
  <1>6. /\ r.how = "ok" => /\ ~param.nilDest /\ r.val.val = n
                           /\ param.dest \notin {"string", "bytes", "interface"} => r.val = Of(param.dest, n)
        /\ r.how = "panic" => param.nilDest
        /\ r.how = "error" /\ ~param.nilDest =>
              /\ param.dest \notin {"string", "bytes", "interface"}
              /\ param.dest = "bool" => k /= "bool"
              /\ param.dest = "time" => k /= "time"
              /\ param.dest = "float64" => k \in {"bool", "time"}
              /\ param.dest \in {"int8", "int64"} =>
                   k \in {"bool", "time"} \/ ~IntegerNumeral(Of(k, n)) \/ n \notin IntRange(param.dest)
    BY <1>2, <1>5, ConvertNumber
  <1>a. r.how = "ok" => ~param.nilDest
    BY <1>6, Zenon
  <1>b. r.how = "ok" => w.val = n
    BY <1>6, Zenon
  <1>c. r.how = "ok" /\ param.dest \notin {"string", "bytes", "interface"} => w = Of(param.dest, n)
    BY <1>6, Zenon
  <1>7. ASSUME r.how = "ok", sent = Nil PROVE NilRight(param, before, buf, w)
    <2>1. CASE param.mode = "inout" /\ before /= Nil
      <3>1. Own(param, before)
        BY <1>a, <1>7, <2>1, Zenon DEF Own
      <3>2. before.kind = param.dest /\ buf.ctype = OwnType(param.dest) /\ param.dest /= "interface"
        BY <3>1 DEF OutRead
      <3>3. param.dest \notin {"string", "bytes", "interface"}
        BY <3>2 DEF OwnType, Texts
      <3>4. before = Of(before.kind, before.val)
        BY <1>2, BeforeIs
      <3>5. w = Of(param.dest, n)
        BY <1>c, <1>7, <3>3, Zenon
      <3>6. n = before.val
        BY <1>1, <1>4, <1>7, <3>1
      <3> QED BY <2>1, <3>2, <3>4, <3>5, <3>6, Zenon DEF NilRight
    <2>2. CASE ~(param.mode = "inout" /\ before /= Nil)
      <3>1. ~Own(param, before)
        BY <2>2 DEF Own
      <3>2. w.val = 0
        BY <1>1, <1>4, <1>b, <1>7, <3>1, Zenon
      <3> QED BY <2>2, <3>2 DEF NilRight
    <2> QED BY <2>1, <2>2
  <1>8. ASSUME r.how = "ok", sent /= Nil PROVE ValueRight(param, before, buf, sent, w)
    <2>1. w.val = sent.val
      BY <1>1, <1>4, <1>b, <1>8, Zenon
    <2>2. MeaningFor(buf, sent) = sent.val
      BY <1>1, <1>8 DEF MeaningFor
    <2>3. TakenFor(param, buf, sent.val) = {sent.val}
      BY DEF TakenFor
    <2> QED BY <2>1, <2>2, <2>3 DEF ValueRight
  <1>9. ASSUME r.how = "error" PROVE ErrorRight(param, before, buf, sent)
    <2>1. CASE param.nilDest \/ sent = Nil
      BY <2>1 DEF ErrorRight
    <2>2. CASE ~(param.nilDest \/ sent = Nil)
      <3>1. sent.val = n /\ sent.kind = IF buf.ctype \in Times THEN "time" ELSE "number"
        BY <1>1, <1>4, <2>2
      <3>7. sent.kind /= "text"
        BY <3>1
      <3>2. param.dest \in {"int8", "int64", "float64", "bool", "time"}
        BY <1>2, <1>6, <1>9, <2>2 DEF GoTypes
      <3>3. CASE param.dest = "bool"
        BY <1>3, <1>6, <1>9, <2>2, <3>3 DEF ErrorRight, HoldsFor
      <3>4. CASE param.dest = "time"
        BY <1>3, <1>6, <1>9, <2>2, <3>1, <3>4 DEF ErrorRight, HoldsFor
      <3>5. CASE param.dest = "float64"
        BY <1>3, <1>6, <1>9, <2>2, <3>1, <3>5 DEF ErrorRight, HoldsFor
      <3>6. CASE param.dest \in {"int8", "int64"}
        <4>1. CASE k \in {"bool", "time"}
          BY <1>3, <3>1, <3>6, <4>1 DEF ErrorRight, HoldsFor
        <4>2. CASE n \notin IntRange(param.dest)
          <5>1. sent.val \notin IntRange(param.dest)
            BY <3>1, <4>2, Zenon
          <5> QED BY <3>6, <3>7, <5>1 DEF ErrorRight, HoldsFor
        <4>3. CASE k \notin {"bool", "time"} /\ ~IntegerNumeral(Of(k, n))
          <5>1. Of(k, n).kind = k /\ Of(k, n).val = n
            BY DEF Of
          <5>2. k = "float64" /\ (~Integral(n) \/ n >= 2000000)
            BY <4>3, <5>1 DEF IntegerNumeral
          <5>3. buf.ctype = "DOUBLE"
            BY <1>3, <5>2
          <5>4. CASE ~Integral(n)
            <6>1. ~Integral(sent.val)
              BY <3>1, <5>4, Zenon
            <6> QED BY <3>6, <3>7, <6>1 DEF ErrorRight, HoldsFor
          <5>5. CASE n >= 2000000
            BY <3>1, <3>6, <5>3, <5>5 DEF ErrorRight
          <5> QED BY <5>2, <5>4, <5>5
        <4> QED BY <1>6, <1>9, <2>2, <3>6, <4>1, <4>2, <4>3
      <3> QED BY <3>2, <3>3, <3>4, <3>5, <3>6
    <2> QED BY <2>1, <2>2
  <1> QED BY <1>6, <1>7, <1>8, <1>9 DEF OutExactFor, PanicRight

\* ... text of one byte a character, ...
LEMMA ReadChar ==
  ASSUME TypedOut(param, before), OutRead(param, before, buf, sent), buf.ctype = "CHAR",
         NEW r, r = ConvertAssign(param.dest, OutValue), NEW w, r.how = "ok" => w = r.val
  PROVE  OutExactFor(param, before, buf, sent, w, r.how)
  <1>0. buf.ctype \in Texts /\ param.dest \in GoTypes /\ before \in Before(param.dest)
    BY DEF TypedOut, Texts
  <1>1. PICK s : s = Trim(buf.data)
    OBVIOUS
  <1>2. /\ sent = Nil => s = <<>>
        /\ sent /= Nil =>
             /\ sent.kind = "text" /\ Utf8(sent.val) \in Seq(Nat)
             /\ \E n \in 0 .. Len(Utf8(sent.val)) :
                  /\ s = Trim(Cut(Utf8(sent.val), n))
                  /\ n < Len(Utf8(sent.val)) => NoRoomFor(param, before, buf, sent)
    BY <1>1, Zenon DEF OutRead, CharRead
  <1>3. r = ConvertAssign(param.dest, Of("bytes", s))
    <2>1. OutValue = Of("bytes", s)
      BY <1>1 DEF OutValue
    <2> QED BY <2>1, Zenon
  <1>4. /\ r.how = "ok" => ~param.nilDest /\ TextStored(param.dest, s, r.val)
        /\ r.how /= "panic"
        /\ r.how = "error" => param.nilDest \/ ~TextFits(param.dest, s)
    BY <1>0, <1>3, ConvertText
  <1>5. r.how = "ok" => ~param.nilDest /\ TextStored(param.dest, s, w)
    BY <1>4, Zenon
  <1>6. ASSUME r.how = "ok", sent = Nil PROVE NilRight(param, before, buf, w)
    <2>1. ~Own(param, before)
      BY DEF OutRead, OwnType
    <2>2. ~(param.mode = "inout" /\ before /= Nil)
      BY <1>5, <1>6, <2>1 DEF Own
    <2>3. s = <<>>
      BY <1>2, <1>6
    <2>4. w.val = s
      <3>1. Unnumbered(s)
        BY <2>3 DEF Unnumbered
      <3>2. TextStored(param.dest, s, w)
        BY <1>5, <1>6
      <3> QED BY <3>1, <3>2, NoNumber
    <2> QED BY <1>0, <2>2, <2>3, <2>4 DEF NilRight
  <1>7. ASSUME sent /= Nil
        PROVE  /\ r.how = "ok" => ValueRight(param, before, buf, sent, w)
               /\ r.how = "error" => ErrorRight(param, before, buf, sent)
    <2>1. PICK x \in Seq(Nat) : x = Utf8(sent.val)
      BY <1>2, <1>7
    <2>2. PICK n \in 0 .. Len(x) :
            /\ s = Trim(Cut(x, n))
            /\ n < Len(x) => NoRoomFor(param, before, buf, sent)
      BY <1>2, <1>7, <2>1, Zenon
    <2>3. sent.kind = "text" /\ MeaningFor(buf, sent) = x
      BY <1>2, <1>7, <2>1 DEF MeaningFor
    <2>4. CASE n = Len(x)
      <3>1. s = Trim(x)
        <4>1. Cut(x, n) = SubSeq(x, 1, Len(x))
          BY <2>4, CutIs
        <4> QED BY <2>2, <4>1, SubSeqFull
      <3>2. ASSUME r.how = "ok" PROVE ValueRight(param, before, buf, sent, w)
        <4>1. w.val \in TakenFor(param, buf, s)
          BY <1>0, <1>5, <3>2, StoredTaken
        <4>2. w.val \in TakenFor(param, buf, Trim(MeaningFor(buf, sent)))
          BY <2>3, <3>1, <4>1, Zenon
        <4> QED BY <4>2 DEF ValueRight
      <3>3. ASSUME r.how = "error" PROVE ErrorRight(param, before, buf, sent)
        <4>1. ASSUME HoldsFor(param, buf, sent) PROVE param.nilDest
          <5>1. TextFits(param.dest, MeaningFor(buf, sent))
            BY <1>0, <2>3, <4>1, HoldsText
          <5>2. TextFits(param.dest, s)
            BY <2>3, <3>1, <5>1, TrimmedFits, Zenon
          <5> QED BY <1>4, <3>3, <5>2
        <4> QED BY <4>1 DEF ErrorRight
      <3> QED BY <3>2, <3>3
    <2>5. CASE n /= Len(x)
      <3>1. NoRoomFor(param, before, buf, sent)
        <4>1. n < Len(x)
          BY <2>5
        <4> QED BY <2>2, <4>1
      <3>2. n \in 0 .. Len(Encoded(sent, buf.ctype))
        <4>1. Encoded(sent, buf.ctype) = x
          BY <2>1, <2>3 DEF Encoded
        <4> QED BY <4>1
      <3>3. CutMeaningFor(buf, sent, n) = Cut(x, n)
        BY <2>3 DEF CutMeaningFor
      <3>4. ASSUME r.how = "ok" PROVE ValueRight(param, before, buf, sent, w)
        <4>1. w.val \in TakenFor(param, buf, s)
          BY <1>0, <1>5, <3>4, StoredTaken
        <4>2. buf.ctype = "CHAR" /\ w.val \in TakenFor(param, buf, Trim(CutMeaningFor(buf, sent, n)))
          BY <2>2, <3>3, <4>1, Zenon
        <4> QED BY <1>0, <3>1, <3>2, <4>2, Zenon DEF ValueRight
      <3> QED BY <1>0, <3>1, <3>4 DEF ErrorRight
    <2> QED BY <2>4, <2>5
  <1>8. sent = Nil => ErrorRight(param, before, buf, sent)
    BY DEF ErrorRight
  <1> QED BY <1>4, <1>6, <1>7, <1>8 DEF OutExactFor

\* ... text of two, ...
LEMMA ReadWide ==
  ASSUME TypedOut(param, before), OutRead(param, before, buf, sent), buf.ctype \in {"WCHAR", "DBCHAR"},
         NEW r, r = ConvertAssign(param.dest, OutValue), NEW w, r.how = "ok" => w = r.val
  PROVE  OutExactFor(param, before, buf, sent, w, r.how)
  <1>0. buf.ctype \in Texts /\ param.dest \in GoTypes /\ before \in Before(param.dest)
    BY DEF TypedOut, Texts
  <1>1. PICK s : s = Decoded(buf.ctype, buf.data)
    OBVIOUS
  <1>2. /\ buf.data = <<>> => param.nilDest \/ before = Nil
        /\ sent = Nil => s = IF Own(param, before) THEN before.val ELSE <<>>
        /\ sent /= Nil =>
             /\ sent.kind = "text" /\ sent.val \in Seq(Nat) /\ (buf.data = <<>> => sent.val = <<>>)
             /\ \E n \in 0 .. Len(sent.val) :
                  /\ s = Text(Cut(sent.val, n))
                  /\ n < Len(sent.val) => NoRoomFor(param, before, buf, sent)
    BY <1>1, Zenon DEF OutRead, WideRead
  <1>3. OutValue = IF buf.data = <<>> THEN Nil
                   ELSE IF Elements(buf.ctype, buf.data) > MaxElements THEN Of("panic", <<>>)
                   ELSE Of("bytes", s)
    BY <1>1 DEF OutValue, WideValue, Decoded
  <1>4. sent /= Nil => sent = Of("text", sent.val) /\ MeaningFor(buf, sent) = Text(sent.val)
    BY <1>2 DEF MeaningFor, OutRead
  <1>5. sent = Nil => ErrorRight(param, before, buf, sent)
    BY DEF ErrorRight
  <1>6. CASE buf.data = <<>>
    <2>1. r = ConvertAssign(param.dest, Nil)
      BY <1>3, <1>6, Zenon
    <2>2. /\ r.how = "ok" => ~param.nilDest /\ param.dest \in {"bytes", "interface"} /\ r.val = Nil
          /\ r.how /= "panic"
          /\ r.how = "error" => param.nilDest \/ param.dest \notin {"bytes", "interface"}
      BY <1>0, <2>1, ConvertNil
    <2>3. Nil.val = <<>>
      BY DEF Nil, Of
    <2>4. r.how = "ok" => w.val = <<>> /\ ~param.nilDest /\ param.dest \in {"bytes", "interface"}
      BY <2>2, <2>3, Zenon
    <2>5. ASSUME r.how = "ok", sent = Nil PROVE NilRight(param, before, buf, w)
      <3>1. before = Nil
        BY <1>2, <1>6, <2>4, <2>5, Zenon
      <3> QED BY <1>0, <2>4, <2>5, <3>1 DEF NilRight
    <2>6. ASSUME sent /= Nil PROVE MeaningFor(buf, sent) = <<>>
      BY <1>2, <1>4, <1>6, <2>6, EmptyText, Zenon
    <2>7. ASSUME r.how = "ok", sent /= Nil PROVE ValueRight(param, before, buf, sent, w)
      <3>1. TakenFor(param, buf, <<>>) = {<<>>}
        BY <2>4, <2>7 DEF TakenFor
      <3>2. w.val \in TakenFor(param, buf, MeaningFor(buf, sent))
        <4>1. w.val \in {<<>>}
          BY <2>4, <2>7
        <4> QED BY <2>6, <2>7, <3>1, <4>1, Zenon
      <3> QED BY <3>2, Zenon DEF ValueRight
    <2>8. ASSUME r.how = "error", sent /= Nil PROVE ErrorRight(param, before, buf, sent)
      <3>1. ASSUME ~param.nilDest, HoldsFor(param, buf, sent) PROVE FALSE
        <4>1. before = Nil /\ param.dest \notin {"bytes", "interface"}
          BY <1>2, <1>6, <2>2, <2>8, <3>1, Zenon
        <4>2. param.dest /= "string"
          BY <1>0, <4>1, BeforeIs
        <4>3. sent.kind = "text"
          BY <1>2, <2>8, Zenon
        <4>4. TextFits(param.dest, MeaningFor(buf, sent))
          BY <1>0, <3>1, <4>3, HoldsText
        <4>5. TextFits(param.dest, <<>>)
          BY <2>6, <2>8, <4>4, Zenon
        <4>6. Unnumbered(<<>>)
          BY DEF Unnumbered
        <4> QED BY <4>1, <4>2, <4>5, <4>6, NoNumber, Zenon
      <3> QED BY <3>1 DEF ErrorRight
    <2> QED BY <1>5, <2>2, <2>5, <2>7, <2>8 DEF OutExactFor
  <1>7. CASE buf.data /= <<>> /\ Elements(buf.ctype, buf.data) > MaxElements
    <2>1. r = ConvertAssign(param.dest, Of("panic", <<>>))
      BY <1>3, <1>7, Zenon
    <2>2. r.how = "panic"
      BY <2>1, ConvertPanic
    <2> QED BY <1>7, <2>2 DEF OutExactFor, PanicRight
  <1>8. CASE buf.data /= <<>> /\ ~(Elements(buf.ctype, buf.data) > MaxElements)
    <2>1. r = ConvertAssign(param.dest, Of("bytes", s))
      BY <1>3, <1>8, Zenon
    <2>2. /\ r.how = "ok" => ~param.nilDest /\ TextStored(param.dest, s, r.val)
          /\ r.how /= "panic"
          /\ r.how = "error" => param.nilDest \/ ~TextFits(param.dest, s)
      BY <1>0, <2>1, ConvertText
    <2>3. r.how = "ok" => ~param.nilDest /\ TextStored(param.dest, s, w)
      BY <2>2, Zenon
    <2>4. ASSUME r.how = "ok", sent = Nil PROVE NilRight(param, before, buf, w)
      <3>1. CASE param.mode = "inout" /\ before /= Nil
        <4>1. Own(param, before)
          BY <2>3, <2>4, <3>1, Zenon DEF Own
        <4>2. s = before.val
          BY <1>2, <2>4, <4>1, Zenon
        <4>3. before.kind = param.dest /\ param.dest = "string"
          BY <1>0, <4>1 DEF OutRead, OwnType, GoTypes
        <4>4. before = Of(before.kind, before.val)
          BY <1>0, BeforeIs
        <4>5. w = Of(param.dest, s)
          BY <2>3, <2>4, <4>3 DEF TextStored
        <4>6. w = before
          BY <4>2, <4>3, <4>4, <4>5, Zenon
        <4> QED BY <3>1, <4>6, Zenon DEF NilRight
      <3>2. CASE ~(param.mode = "inout" /\ before /= Nil)
        <4>1. ~Own(param, before)
          BY <3>2 DEF Own
        <4>2. s = <<>>
          BY <1>2, <2>4, <4>1, Zenon
        <4>3. w.val = s
          <5>1. Unnumbered(s)
            BY <4>2 DEF Unnumbered
          <5>2. TextStored(param.dest, s, w)
            BY <2>3, <2>4
          <5> QED BY <5>1, <5>2, NoNumber
        <4> QED BY <1>0, <3>2, <4>2, <4>3 DEF NilRight
      <3> QED BY <3>1, <3>2
    <2>5. ASSUME sent /= Nil
          PROVE  /\ r.how = "ok" => ValueRight(param, before, buf, sent, w)
                 /\ r.how = "error" => ErrorRight(param, before, buf, sent)
      <3>1. PICK x \in Seq(Nat) : x = sent.val
        BY <1>2, <2>5
      <3>2. PICK n \in 0 .. Len(x) :
              /\ s = Text(Cut(x, n))
              /\ n < Len(x) => NoRoomFor(param, before, buf, sent)
        BY <1>2, <2>5, <3>1, Zenon
      <3>3. r.how = "ok" => w.val \in TakenFor(param, buf, s)
        BY <1>0, <2>3, StoredTaken
      <3>4. CASE n = Len(x)
        <4>1. s = MeaningFor(buf, sent)
          <5>1. Cut(x, n) = x
            <6>1. Cut(x, n) = SubSeq(x, 1, Len(x))
              BY <3>4, CutIs
            <6> QED BY <6>1, SubSeqFull
          <5> QED BY <1>4, <2>5, <3>1, <3>2, <5>1, Zenon
        <4>2. r.how = "ok" => ValueRight(param, before, buf, sent, w)
          <5>1. r.how = "ok" => w.val \in TakenFor(param, buf, MeaningFor(buf, sent))
            BY <3>3, <4>1, Zenon
          <5> QED BY <5>1, Zenon DEF ValueRight
        <4>3. ASSUME r.how = "error" PROVE ErrorRight(param, before, buf, sent)
          <5>1. ASSUME HoldsFor(param, buf, sent) PROVE param.nilDest
            <6>1. sent.kind = "text"
              BY <1>2, <2>5, Zenon
            <6>2. TextFits(param.dest, MeaningFor(buf, sent))
              BY <1>0, <5>1, <6>1, HoldsText
            <6>3. TextFits(param.dest, s)
              BY <4>1, <6>2, Zenon
            <6> QED BY <2>2, <4>3, <6>3
          <5> QED BY <5>1 DEF ErrorRight
        <4> QED BY <4>2, <4>3
      <3>5. CASE n /= Len(x)
        <4>1. NoRoomFor(param, before, buf, sent)
          <5>1. n < Len(x)
            BY <3>5
          <5> QED BY <3>2, <5>1
        <4>2. n \in 0 .. Len(Encoded(sent, buf.ctype))
          <5>1. Encoded(sent, buf.ctype) = Bytes16(buf.ctype, x)
            <6>1. sent.kind = "text"
              BY <1>2, <2>5, Zenon
            <6> QED BY <3>1, <6>1 DEF Encoded, Bytes16
          <5>2. Len(Bytes16(buf.ctype, x)) = 2 * Len(x) /\ Len(x) \in Nat
            BY Bytes16Type
          <5>3. n \in 0 .. 2 * Len(x)
            BY <5>2
          <5> QED BY <5>1, <5>2, <5>3, Zenon
        <4>3. CutMeaningFor(buf, sent, n) = s
          <5>1. [sent EXCEPT !.val = Cut(@, n)] = Of("text", Cut(x, n))
            <6>1. \A c : [Of("text", x) EXCEPT !.val = c] = Of("text", c)
              BY DEF Of
            <6>2. sent = Of("text", x) /\ Cut(sent.val, n) = Cut(x, n)
              BY <1>4, <2>5, <3>1, Zenon
            <6> QED BY <6>1, <6>2, Zenon
          <5>2. \A c : MeaningFor(buf, Of("text", c)) = Text(c)
            BY DEF MeaningFor, Of
          <5>3. CutMeaningFor(buf, sent, n) = MeaningFor(buf, [sent EXCEPT !.val = Cut(@, n)])
            BY DEF CutMeaningFor
          <5> QED BY <3>2, <5>1, <5>2, <5>3, Zenon
        <4>4. r.how = "ok" => ValueRight(param, before, buf, sent, w)
          <5>1. r.how = "ok" => w.val \in TakenFor(param, buf, CutMeaningFor(buf, sent, n))
            BY <3>3, <4>3, Zenon
          <5> QED BY <1>0, <4>1, <4>2, <5>1, Zenon DEF ValueRight
        <4> QED BY <1>0, <4>1, <4>4 DEF ErrorRight
      <3> QED BY <3>4, <3>5
    <2> QED BY <1>5, <2>2, <2>4, <2>5 DEF OutExactFor
  <1> QED BY <1>6, <1>7, <1>8

\* ... and binary data.
LEMMA ReadBinary ==
  ASSUME TypedOut(param, before), OutRead(param, before, buf, sent), buf.ctype = "BINARY",
         NEW r, r = ConvertAssign(param.dest, OutValue), NEW w, r.how = "ok" => w = r.val
  PROVE  OutExactFor(param, before, buf, sent, w, r.how)
  <1>0. /\ buf.ctype \in Texts /\ param.dest \in GoTypes /\ before \in Before(param.dest)
        /\ param.mode \in {"inout", "out"}
    BY DEF TypedOut, Texts
  <1>1. PICK s : s = buf.data
    OBVIOUS
  <1>2. /\ param.mode = "out" => \E i \in DOMAIN s : s[i] = 0
        /\ sent = Nil => s = IF Own(param, before) THEN before.val ELSE Zeros(buf.size)
        /\ sent /= Nil =>
             /\ sent.kind = "binary" /\ sent.val \in Seq(Nat)
             /\ \/ Cut(s, Len(sent.val)) = sent.val
                \/ /\ NoRoomFor(param, before, buf, sent)
                   /\ \E n \in 0 .. Len(sent.val) : s = Cut(sent.val, n)
    BY <1>1, Zenon DEF OutRead, BinaryRead
  <1>3. sent /= Nil => sent = Of("binary", sent.val) /\ MeaningFor(buf, sent) = sent.val
    BY <1>2 DEF MeaningFor, OutRead
  <1>4. r = ConvertAssign(param.dest, Of("bytes", s))
    <2>1. OutValue = Of("bytes", s)
      BY <1>1 DEF OutValue
    <2> QED BY <2>1, Zenon
  <1>5. /\ r.how = "ok" => ~param.nilDest /\ TextStored(param.dest, s, r.val)
        /\ r.how /= "panic"
        /\ r.how = "error" => param.nilDest \/ ~TextFits(param.dest, s)
    BY <1>0, <1>4, ConvertText
  <1>6. ASSUME r.how = "ok"
        PROVE  ~param.nilDest /\ param.dest \in {"string", "bytes", "interface"} /\ w = Of(param.dest, s)
    <2>1. ~param.nilDest /\ TextStored(param.dest, s, w)
      BY <1>5, <1>6, Zenon
    <2>2. param.dest \in {"string", "bytes", "interface"}
      <3>1. CASE param.mode = "out"
        <4>1. Unnumbered(s)
          BY <1>2, <3>1 DEF Unnumbered
        <4> QED BY <2>1, <4>1, NoNumber, Zenon
      <3>2. CASE param.mode = "inout" /\ before /= Nil
        <4>1. Own(param, before)
          BY <2>1, <3>2, Zenon DEF Own
        <4> QED BY <1>0, <4>1 DEF OutRead, OwnType, GoTypes
      <3>3. CASE before = Nil
        BY <1>0, <3>3, BeforeIs
      <3> QED BY <1>0, <3>1, <3>2, <3>3
    <2> QED BY <2>1, <2>2 DEF TextStored
  <1>7. r.how = "ok" => w.val = s
    BY <1>6 DEF Of
  <1>8. ASSUME r.how = "ok", sent = Nil PROVE NilRight(param, before, buf, w)
    <2>1. CASE param.mode = "inout" /\ before /= Nil
      <3>1. Own(param, before)
        BY <1>6, <1>8, <2>1, Zenon DEF Own
      <3>2. s = before.val
        BY <1>2, <1>8, <3>1, Zenon
      <3>3. before.kind = param.dest
        BY <3>1 DEF OutRead
      <3>4. before = Of(before.kind, before.val)
        BY <1>0, BeforeIs
      <3>5. w = before
        BY <1>6, <1>8, <3>2, <3>3, <3>4, Zenon
      <3> QED BY <2>1, <3>5, Zenon DEF NilRight
    <2>2. CASE ~(param.mode = "inout" /\ before /= Nil)
      <3>1. ~Own(param, before)
        BY <2>2 DEF Own
      <3>2. w.val = Zeros(buf.size)
        BY <1>2, <1>7, <1>8, <3>1, Zenon
      <3> QED BY <1>0, <2>2, <3>2 DEF NilRight
    <2> QED BY <2>1, <2>2
  <1>9. ASSUME r.how = "ok", sent /= Nil PROVE ValueRight(param, before, buf, sent, w)
    <2>1. PICK x \in Seq(Nat) :
            /\ x = sent.val
            /\ \/ Cut(s, Len(x)) = x
               \/ NoRoomFor(param, before, buf, sent) /\ \E n \in 0 .. Len(x) : s = Cut(x, n)
      BY <1>2, <1>9, Zenon
    <2>2. CASE Cut(s, Len(x)) = x
      <3>1. Cut(w.val, Len(MeaningFor(buf, sent))) = MeaningFor(buf, sent)
        BY <1>3, <1>7, <1>9, <2>1, <2>2, Zenon
      <3> QED BY <3>1, Zenon DEF ValueRight
    <2>3. CASE NoRoomFor(param, before, buf, sent) /\ \E n \in 0 .. Len(x) : s = Cut(x, n)
      <3>1. PICK n \in 0 .. Len(x) : s = Cut(x, n)
        BY <2>3
      <3>2. CutMeaningFor(buf, sent, n) = s
        <4>1. [sent EXCEPT !.val = Cut(@, n)] = Of("binary", Cut(x, n))
          <5>1. \A c : [Of("binary", x) EXCEPT !.val = c] = Of("binary", c)
            BY DEF Of
          <5>2. sent = Of("binary", x) /\ Cut(sent.val, n) = Cut(x, n)
            BY <1>3, <1>9, <2>1, Zenon
          <5> QED BY <5>1, <5>2, Zenon
        <4>2. \A c : MeaningFor(buf, Of("binary", c)) = c
          BY DEF MeaningFor, Of
        <4>3. CutMeaningFor(buf, sent, n) = MeaningFor(buf, [sent EXCEPT !.val = Cut(@, n)])
          BY DEF CutMeaningFor
        <4> QED BY <3>1, <4>1, <4>2, <4>3, Zenon
      <3>3. n \in 0 .. Len(Encoded(sent, buf.ctype))
        <4>1. sent.kind = "binary"
          BY <1>2, <1>9, Zenon
        <4>2. Encoded(sent, buf.ctype) = x
          BY <2>1, <4>1 DEF Encoded
        <4> QED BY <4>2
      <3>4. w.val \in TakenFor(param, buf, CutMeaningFor(buf, sent, n))
        <4>1. TakenFor(param, buf, s) = {s}
          BY <1>6, <1>9 DEF TakenFor
        <4> QED BY <1>7, <1>9, <3>2, <4>1
      <3> QED BY <1>0, <2>3, <3>3, <3>4, Zenon DEF ValueRight
    <2> QED BY <2>1, <2>2, <2>3
  <1>10. ASSUME r.how = "error" PROVE ErrorRight(param, before, buf, sent)
    <2>1. ASSUME sent /= Nil, HoldsFor(param, buf, sent) PROVE param.nilDest
      <3>1. sent.kind = "binary"
        BY <1>2, <2>1, Zenon
      <3>2. param.dest \in {"string", "bytes", "interface"}
        BY <1>0, <2>1, <3>1, HoldsText
      <3>3. TextFits(param.dest, s)
        BY <3>2 DEF TextFits
      <3> QED BY <1>5, <1>10, <3>3
    <2> QED BY <2>1 DEF ErrorRight
  <1> QED BY <1>5, <1>8, <1>9, <1>10 DEF OutExactFor

\* The inductive invariant of OutExact: until Execute has run the buffer of an
\* sql.Out is as newOut made it, and after it as OutValue should find it.
OutInv ==
  /\ param.mode \in Modes
  /\ param.mode \in {"in", "array"} => pc \in {"new", "bound", "done", "panic"}
  /\ param.mode \in {"inout", "out"} =>
       /\ TypedOut(param, before)
       /\ pc = "bound" => BufferRight(param, before, buf)
       /\ pc = "executed" => OutRead(param, before, buf, sent)
  /\ OutExact

\* One lemma for each action.
LEMMA OutStart == ParamInit => OutInv
  <1> SUFFICES ASSUME ParamInit PROVE OutInv
    OBVIOUS
  <1>1. PICK p \in ParamTypes : InitIn(p) \/ InitOut(p)
    BY DEF ParamInit
  <1>2. pc = "new"
    BY DEF ParamInit
  <1>3. OutExact
    BY <1>2 DEF OutExact
  <1>4. p.size \in Nat /\ DestTypes \subseteq GoTypes
    BY ParamValuesAssumption
  <1>5. CASE InitIn(p)
    <2>1. param.mode \in {"in", "array"}
      BY <1>5 DEF InitIn
    <2> QED BY <1>2, <1>3, <2>1 DEF OutInv, Modes
  <1>6. CASE InitOut(p)
    <2>1. PICK mode \in {"inout", "out"}, d \in DestTypes, nilDest \in BOOLEAN :
            /\ mode = "inout" /\ ~nilDest => Suits(d, p.stype)
            /\ param = [stype |-> p.stype, size |-> p.size, mode |-> mode, dest |-> d, nilDest |-> nilDest]
      BY <1>6, Zenon DEF InitOut
    <2>2. /\ param.mode = mode /\ param.size = p.size /\ param.dest = d /\ param.nilDest = nilDest
          /\ param.stype = p.stype
      BY <2>1
    <2>3. before \in Before(param.dest)
      BY <1>6 DEF InitOut
    <2>4. mode = "inout" /\ ~nilDest => Suits(param.dest, param.stype)
      BY <2>1, <2>2, Zenon
    <2>5. TypedOut(param, before)
      BY <1>4, <2>2, <2>3, <2>4, Zenon DEF TypedOut
    <2>6. param.mode \in {"inout", "out"}
      BY <2>2
    <2> QED BY <1>2, <1>3, <2>5, <2>6 DEF OutInv, Modes
  <1> QED BY <1>1, <1>5, <1>6

LEMMA OutBind == OutInv /\ (BindString \/ BindStrings \/ ReadIn) => OutInv'
  <1> SUFFICES ASSUME OutInv, BindString \/ BindStrings \/ ReadIn PROVE OutInv'
    OBVIOUS
  <1>1. param' = param /\ param.mode \in {"in", "array"} /\ pc' \in {"bound", "done", "panic"}
    BY DEF BindString, BindStrings, ReadIn
  <1>2. OutExact'
    BY <1>1 DEF OutExact
  <1>3. param'.mode \in {"in", "array"} /\ param'.mode \in Modes /\ pc' \in {"new", "bound", "done", "panic"}
    BY <1>1 DEF Modes
  <1> QED BY <1>2, <1>3 DEF OutInv

LEMMA OutNew == OutInv /\ newOut => OutInv'
  <1> SUFFICES ASSUME OutInv, newOut PROVE OutInv'
    OBVIOUS
  <1>1. /\ param' = param /\ before' = before /\ param.mode \in {"inout", "out"}
        /\ TypedOut(param, before)
    BY DEF OutInv, newOut
  <1>2. param'.mode \in {"inout", "out"} /\ param'.mode \in Modes /\ TypedOut(param', before')
    BY <1>1 DEF Modes
  <1>3. CASE SqltoCtype(param.stype) = "panic" /\ Ends("panic")
    <2>1. pc' = "panic" /\ SqltoCtype(param'.stype) = "panic"
      BY <1>1, <1>3 DEF Ends
    <2>2. OutExact'
      BY <2>1 DEF OutExact
    <2> QED BY <1>2, <2>1, <2>2 DEF OutInv
  <1>4. CASE Ends("refused")
    <2>1. pc' = "refused"
      BY <1>4 DEF Ends
    <2>2. OutExact'
      BY <2>1 DEF OutExact
    <2> QED BY <1>2, <2>1, <2>2 DEF OutInv
  <1>5. CASE /\ ~TooLong
             /\ buf' = IF param.mode = "inout" THEN BufferInOut ELSE BufferOut
             /\ buf'.ctype /= "panic" /\ pc' = "bound"
    <2>1. PICK b : b = buf'
      OBVIOUS
    <2>2. b = (IF param.mode = "inout" THEN BufferInOut ELSE BufferOut) /\ b.ctype /= "panic"
      BY <1>5, <2>1, Zenon
    <2>3. BufferRight(param, before, b)
      BY <1>1, <1>5, <2>2, Allocated, Zenon
    <2>4. BufferRight(param', before', buf')
      BY <1>1, <2>1, <2>3, Zenon
    <2>5. OutExact'
      BY <1>5 DEF OutExact
    <2> QED BY <1>2, <1>5, <2>4, <2>5 DEF OutInv
  <1> QED BY <1>3, <1>4, <1>5 DEF newOut

LEMMA OutExecute == OutInv /\ Execute => OutInv'
  <1> SUFFICES ASSUME OutInv, Execute PROVE OutInv'
    OBVIOUS
  <1>1. /\ param' = param /\ before' = before /\ param.mode \in {"inout", "out"} /\ pc' = "executed"
        /\ TypedOut(param, before) /\ BufferRight(param, before, buf)
        /\ sent' \in ServerValues(param, buf.ctype) \cup {Nil}
    BY DEF OutInv, Execute
  <1>2. PICK v \in ServerValues(param, buf.ctype) \cup {Nil} : v = sent'
    BY <1>1
  <1>3. PICK b : b = buf
    OBVIOUS
  <1>4. OutRead(param, before, After(b, v), v)
    <2>1. v \in ServerValues(param, b.ctype) \cup {Nil}
      BY <1>2, <1>3, Zenon
    <2> QED BY <1>1, <1>3, <2>1, AfterRead, Zenon
  <1>5. buf' = After(b, v)
    BY <1>2, <1>3, ExecuteIs, Zenon
  <1>6. OutRead(param', before', buf', sent')
    BY <1>1, <1>2, <1>4, <1>5, Zenon
  <1>7. OutExact'
    BY <1>1 DEF OutExact
  <1>8. param'.mode \in {"inout", "out"} /\ param'.mode \in Modes /\ TypedOut(param', before')
    BY <1>1 DEF Modes
  <1> QED BY <1>1, <1>6, <1>7, <1>8 DEF OutInv

LEMMA OutAssign == OutInv /\ Assign => OutInv'
  <1> SUFFICES ASSUME OutInv, Assign PROVE OutInv'
    OBVIOUS
  <1>1. pc = "executed" /\ UNCHANGED <<param, before, buf, sent>>
    BY DEF Assign
  <1>2. param.mode \in {"inout", "out"}
    BY <1>1 DEF OutInv, Modes
  <1>3. TypedOut(param, before) /\ OutRead(param, before, buf, sent)
    BY <1>1, <1>2 DEF OutInv
  <1>4. PICK r : r = ConvertAssign(param.dest, OutValue)
    OBVIOUS
  <1>5. pc' = r.how /\ variable' = IF r.how = "ok" THEN r.val ELSE variable
    BY <1>4, Zenon DEF Assign
  <1>6. PICK w : w = variable' /\ (r.how = "ok" => w = r.val)
    BY <1>5, Zenon
  <1>7. OutExactFor(param, before, buf, sent, w, r.how)
    <2>1. buf.ctype \in NumTypes \cup Times \cup Texts
      BY <1>3 DEF OutRead
    <2>2. CASE buf.ctype \notin Texts
      BY <1>3, <1>4, <1>6, <2>2, ReadNumber, Zenon
    <2>3. CASE buf.ctype = "CHAR"
      BY <1>3, <1>4, <1>6, <2>3, ReadChar, Zenon
    <2>4. CASE buf.ctype \in {"WCHAR", "DBCHAR"}
      BY <1>3, <1>4, <1>6, <2>4, ReadWide, Zenon
    <2>5. CASE buf.ctype = "BINARY"
      BY <1>3, <1>4, <1>6, <2>5, ReadBinary, Zenon
    <2> QED BY <2>2, <2>3, <2>4, <2>5 DEF Texts
  <1>8. OutExactFor(param', before', buf', sent', variable', pc')
    BY <1>1, <1>5, <1>6, <1>7, Zenon
  <1>9. OutExact'
    BY <1>8, OutExactIs
  <1>10. r.how \in {"ok", "error", "panic"}
    BY <1>4 DEF ConvertAssign, Stored, Failed, Checked, Unchecked
  <1>11. /\ param'.mode \in {"inout", "out"} /\ param'.mode \in Modes /\ TypedOut(param', before')
         /\ pc' \notin {"bound", "executed"}
    BY <1>1, <1>2, <1>3, <1>5, <1>10 DEF Modes
  <1> QED BY <1>9, <1>11 DEF OutInv

LEMMA OutStays == OutInv /\ UNCHANGED paramVars => OutInv'
  <1> SUFFICES ASSUME OutInv, UNCHANGED paramVars PROVE OutInv'
    OBVIOUS
  <1>1. /\ param' = param /\ before' = before /\ buf' = buf /\ sent' = sent
        /\ variable' = variable /\ pc' = pc
    BY DEF paramVars
  <1>2. OutExactFor(param, before, buf, sent, variable, pc)
    BY OutExactIs DEF OutInv
  <1>3. OutExact'
    BY <1>1, <1>2, OutExactIs
  <1> QED BY <1>1, <1>3 DEF OutInv

\* What Exec leaves in the variable of an sql.Out, or the error it returns, is
\* what OutExact says, for parameters of any size and texts of any length.
THEOREM OutRight == ParamSpec => []OutExact
  <1>1. OutInv /\ [ParamNext]_paramVars => OutInv'
    BY OutBind, OutNew, OutExecute, OutAssign, OutStays DEF ParamNext
  <1>2. OutInv => OutExact
    BY DEF OutInv
  <1> QED BY OutStart, <1>1, <1>2, PTL DEF ParamSpec
==============================================================================
