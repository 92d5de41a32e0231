------------------------------- MODULE GetData -------------------------------
(***************************************************************************)
(* getDataChunked (column.go): a value of any length is read through       *)
(* SQLGetData in chunks, into a buffer that is enlarged once the CLI has   *)
(* told how much is left.  The value is its length; what matters is which  *)
(* of its bytes end up where.                                              *)
(*                                                                         *)
(* The CLI writes as much as fits, always a terminator after character     *)
(* data, and sets the indicator to the bytes that were left before the     *)
(* call, or to SQL_NO_TOTAL.                                               *)
(***************************************************************************)
EXTENDS Integers

CONSTANTS Lengths,     \* lengths of values, in bytes
          MaxNoTotal   \* bound: chunks whose remaining length is not told

ASSUME LengthsAssumption == Lengths \subseteq Nat /\ MaxNoTotal \in Nat

SQL_NULL_DATA == -1
SQL_NO_TOTAL == -4
CTypes == {"CHAR", "WCHAR", "DBCHAR", "BINARY"}

VARIABLES value,     \* length of the column's value, SQL_NULL_DATA for NULL
          ctype,     \* the C type it is read as
          bufLen,    \* len(buf)
          indicator, \* what the last SQLGetData set it to
          read,      \* bytes of the value the CLI has delivered
          total,     \* len(total), the bytes assembled
          exact,     \* history: is total a prefix of the value?
          even,      \* history: calls of SQLGetData, modulo 2: one that delivers
                     \* nothing is a step, too
          untold,    \* history: chunks reported with SQL_NO_TOTAL
          result     \* "reading", "nil", "value", "error"

dataVars == <<value, ctype, bufLen, indicator, read, total, exact, even, untold, result>>

\* Character data of wide types has an even number of bytes.
WideTypes == {"WCHAR", "DBCHAR"}

DataInit ==
        /\ value \in Lengths \cup {SQL_NULL_DATA}
        /\ ctype \in CTypes
        /\ ctype \in WideTypes => value = SQL_NULL_DATA \/ value % 2 = 0
        /\ bufLen = 1024
        /\ indicator = 0 /\ read = 0 /\ total = 0
        /\ exact = TRUE /\ even = TRUE /\ untold = 0
        /\ result = "reading"

------------------------------------------------------------------------------
\* int16(*l): the low 16 bits as a signed number.
Int16(n) == ((n + 32768) % 65536) - 32768

\* Fault variant: any negative indicator.
IsNullNegative(ind) == Int16(ind) < 0

IsNull(ind) == Int16(ind) = SQL_NULL_DATA

\* The terminator the CLI writes, and what of a full buffer is data.
TerminatorLen == CASE ctype \in WideTypes -> 2
                   [] ctype = "CHAR" -> 1
                   [] ctype = "BINARY" -> 0

\* Fault variant: the terminator is kept.
ChunkLenWhole == bufLen

ChunkLen == bufLen - TerminatorLen

Left == value - read

\* What fits in buf: whole characters, for a wide type.
Fits == IF ctype \in WideTypes THEN ((bufLen - 2) \div 2) * 2 ELSE bufLen - TerminatorLen

\* NULL, or the value or its last chunk fits: SQL_SUCCESS.
LastChunk ==
  /\ result = "reading"
  /\ even' = ~even
  /\ \/ /\ value = SQL_NULL_DATA
        /\ indicator' = SQL_NULL_DATA
        /\ UNCHANGED read
     \/ /\ value /= SQL_NULL_DATA /\ Left <= Fits
        /\ indicator' = Left
        /\ read' = value
  /\ IF IsNull(indicator') THEN result' = "nil" /\ UNCHANGED <<total, exact>>
     ELSE /\ result' = "value"
          /\ total' = total + indicator'
          /\ exact' = (exact /\ total' = read')
  /\ UNCHANGED <<value, ctype, bufLen, untold>>

NextBufLen == indicator' - ChunkLen + 2

\* Fault variant: the buffer becomes as long as the rest, without a terminator.
ChunkTight ==
  /\ result = "reading"
  /\ even' = ~even
  /\ value /= SQL_NULL_DATA /\ Left > Fits
  /\ read' = read + Fits
  /\ total' = total + ChunkLen
  /\ exact' = (exact /\ total' = read')
  /\ indicator' = Left
  /\ bufLen' = indicator' - ChunkLen
  /\ UNCHANGED <<value, ctype, untold, result>>

\* The value is truncated: SQL_SUCCESS_WITH_INFO and state 01004.
Chunk ==
  /\ result = "reading"
  /\ even' = ~even
  /\ value /= SQL_NULL_DATA /\ Left > Fits
  /\ read' = read + Fits
  /\ total' = total + ChunkLen
  /\ exact' = (exact /\ total' = read')
  /\ \/ /\ indicator' = Left
        /\ bufLen' = IF bufLen < NextBufLen THEN NextBufLen ELSE bufLen
        /\ UNCHANGED untold
     \/ /\ untold < MaxNoTotal
        /\ indicator' = SQL_NO_TOTAL
        /\ untold' = untold + 1
        /\ UNCHANGED bufLen
  /\ UNCHANGED <<value, ctype, result>>

\* Another warning, or an error.
Fail ==
  /\ result = "reading"
  /\ even' = ~even
  /\ result' = "error"
  /\ UNCHANGED <<value, ctype, bufLen, indicator, read, total, exact, untold>>

DataNext == LastChunk \/ Chunk \/ Fail

\* The loop goes on as long as SQLGetData returns.
DataSpec == DataInit /\ [][DataNext]_dataVars /\ WF_dataVars(DataNext)

\* BaseColumn.Value makes nil, too, of a wide value without a character.
ValueIsNil == result = "nil" \/ (result = "value" /\ ctype \in WideTypes /\ total = 0)

------------------------------------------------------------------------------
\* The variables have their types, and no more bytes are read or assembled
\* than the value has.
DataTypeOK ==
  /\ value \in Lengths \cup {SQL_NULL_DATA} /\ ctype \in CTypes
  /\ bufLen \in Nat /\ bufLen >= 1024 /\ indicator \in Int
  /\ read \in 0 .. IF value > 0 THEN value ELSE 0
  /\ total \in 0 .. IF value > 0 THEN value ELSE 0
  /\ exact \in BOOLEAN /\ even \in BOOLEAN /\ untold \in 0 .. MaxNoTotal
  /\ result \in {"reading", "nil", "value", "error"}

\* Across chunks of whatever size, with terminators between them and with or
\* without a total, the value is assembled byte for byte, to its end.
AssembledExactly == exact /\ (result = "value" => total = value)

\* The client sees NULL for NULL, and otherwise only for an empty wide value
\* and for one of at least 66558 bytes: below that the last chunk is never so
\* long that its length looks like SQL_NULL_DATA in 16 bits.
NilExplained ==
  /\ result = "value" => value /= SQL_NULL_DATA
  /\ ValueIsNil => \/ value = SQL_NULL_DATA
                   \/ value = 0 /\ ctype \in WideTypes
                   \/ value >= 65535 + 1023

\* The loop ends, whatever the lengths: the buffer always has room for a byte
\* beside the terminator, or every call would be truncated.
ReadEnds == <>(result /= "reading")
==============================================================================
