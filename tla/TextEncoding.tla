---------------------------- MODULE TextEncoding ----------------------------
(***************************************************************************)
(* The text conversions of the driver (utf16.go, api/api.go, and the       *)
(* strings of BindValue in param.go).  A rune is its number, a UTF-16 unit *)
(* a number below 2^16, a byte one below 2^8; a Go string is the sequence  *)
(* of its runes.                                                           *)
(***************************************************************************)
EXTENDS Integers, Sequences, SequencesExt, FiniteSetsExt

CONSTANTS MaxElements,  \* 1 << 20: length of the array type that memory is cast to
          CharTexts,    \* texts in the server, in runes
          WideTexts,    \* texts of wide types, in UTF-16 units
          Binaries      \* data of binary types

Units == 0 .. 65535
Bytes == 0 .. 255

ASSUME TextAssumption ==
  /\ MaxElements \in Nat /\ CharTexts \subseteq Seq(Nat)
  /\ WideTexts \subseteq Seq(Units) /\ Binaries \subseteq Seq(Bytes)

surr1 == 55296
surr2 == 56320
surr3 == 57344
replacementChar == 65533

High(u) == surr1 <= u /\ u < surr2
Low(u) == surr2 <= u /\ u < surr3
Pair(h, l) == (h - surr1) * 1024 + (l - surr2) + 65536

\* utf8.EncodeRune, for a rune that is not a surrogate.
Continued(n) == 128 + (n % 64)
EncodeRune(r) ==
  CASE r < 128 -> <<r>>
    [] 128 <= r /\ r < 2048 -> <<192 + (r \div 64), Continued(r)>>
    [] 2048 <= r /\ r < 65536 -> <<224 + (r \div 4096), Continued(r \div 64), Continued(r)>>
    [] OTHER -> <<240 + (r \div 262144), Continued(r \div 4096), Continued(r \div 64), Continued(r)>>
Utf8(runes) == FlattenSeq([i \in DOMAIN runes |-> EncodeRune(runes[i])])

\* utf16.Encode.
Utf16(runes) == FlattenSeq([i \in DOMAIN runes |->
  IF runes[i] < 65536 THEN <<runes[i]>>
  ELSE <<surr1 + ((runes[i] - 65536) \div 1024), surr2 + ((runes[i] - 65536) % 1024)>>])

\* Without what a terminating NUL cuts off.
UpToNul(s) ==
  LET nuls == {i \in DOMAIN s : s[i] = 0}
  IN  IF nuls = {} THEN s ELSE SubSeq(s, 1, Min(nuls) - 1)

utf16toutf8(units) ==
  LET s == UpToNul(units)
      from[i \in 1 .. Len(s) + 1] ==
        IF i > Len(s) THEN <<>>
        ELSE IF High(s[i]) /\ i + 1 <= Len(s) /\ Low(s[i + 1])
          THEN EncodeRune(Pair(s[i], s[i + 1])) \o from[i + 2]
          ELSE EncodeRune(IF surr1 <= s[i] /\ s[i] < surr3 THEN replacementChar ELSE s[i])
                 \o from[i + 1]
  IN  from[1]

\* Units in memory, and bytes taken for units.
LittleEndian(units) == [i \in 1 .. 2 * Len(units) |->
  IF i % 2 = 1 THEN units[(i + 1) \div 2] % 256 ELSE units[i \div 2] \div 256]
BigEndian(units) == [i \in 1 .. 2 * Len(units) |->
  IF i % 2 = 1 THEN units[(i + 1) \div 2] \div 256 ELSE units[i \div 2] % 256]
FromLittleEndian(bs) == [i \in 1 .. Len(bs) \div 2 |-> bs[2 * i - 1] + 256 * bs[2 * i]]

\* An odd byte at the end is dropped.
dbclobToUTF8(bs) ==
  utf16toutf8([i \in 1 .. Len(bs) \div 2 |-> 256 * bs[2 * i - 1] + bs[2 * i]])

\* What the CLI terminates character data with.
Terminator(ctype) == CASE ctype = "CHAR" -> <<0>>
                       [] ctype \in {"WCHAR", "DBCHAR"} -> <<0, 0>>
                       [] OTHER -> <<>>

\* On z/OS no NUL is added.
StringToUTF16(s, zos) == Utf16(s) \o IF zos THEN <<>> ELSE <<0>>

ExtractUTF16Str(units) == LittleEndian(units)

\* A Go value: its kind, and what it is.
Of(kind, v) == [kind |-> kind, val |-> v]
Nil == Of("nil", <<>>)
Zeros(n) == [i \in 1 .. n |-> 0]

\* Memory with a text of a wide type is cast to an array of MaxElements units,
\* or bytes: a longer slice of it panics.  Without a first byte it is nil.
Elements(ctype, bs) == IF ctype = "WCHAR" THEN Len(bs) \div 2 ELSE Len(bs)
WideValue(ctype, bs) ==
  IF bs = <<>> THEN Nil
  ELSE IF Elements(ctype, bs) > MaxElements THEN Of("panic", <<>>)
  ELSE Of("bytes", IF ctype = "WCHAR" THEN utf16toutf8(FromLittleEndian(bs))
                   ELSE dbclobToUTF8(bs))

------------------------------------------------------------------------------
\* Reference: the text a sequence of units stands for, up to a NUL.  A unit is
\* passed over when it is the second half of a pair; what is half a pair and
\* stands alone is replaced.
Text(units) ==
  LET s == UpToNul(units)
      Second(i) == Low(s[i]) /\ i > 1 /\ High(s[i - 1])
      Rune(i) == IF High(s[i]) /\ i < Len(s) /\ Second(i + 1) THEN Pair(s[i], s[i + 1])
                 ELSE IF High(s[i]) \/ Low(s[i]) THEN replacementChar ELSE s[i]
  IN  FlattenSeq([i \in DOMAIN s |-> IF Second(i) THEN <<>> ELSE EncodeRune(Rune(i))])
==============================================================================
