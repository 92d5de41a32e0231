---------------------------- MODULE MCParamValues ----------------------------
EXTENDS ParamValues

\* The buffers of the longest wide texts are longer than MaxElements.
MCParamTypes ==
  {[stype |-> t, size |-> n] : t \in {"CHAR", "WVARCHAR", "VARBINARY", "DBCLOB"}, n \in {2, 3}}
  \cup {[stype |-> t, size |-> 5] : t \in {"WVARCHAR", "DBCLOB"}}
  \cup {[stype |-> "BIT", size |-> 1], [stype |-> "BOOLEAN", size |-> 1],
        [stype |-> "INTEGER", size |-> 10], [stype |-> "BIGINT", size |-> 19],
        [stype |-> "DOUBLE", size |-> 15], [stype |-> "DECIMAL", size |-> 6],
        [stype |-> "DECIMAL", size |-> 7], [stype |-> "DECIMAL", size |-> 8],
        [stype |-> "TIMESTAMP", size |-> 26], [stype |-> "TIME", size |-> 8]}
MCStrings == UNION {[1 .. n -> {97, 128512, 0}] : n \in 0 .. 2}   \* a, an emoji, NUL

Upto3(S) == UNION {[1 .. n -> S] : n \in 0 .. 3}
MCCharTexts == Upto3({57, 8364, 128512, 0})         \* 9, the euro sign, an emoji, NUL
MCWideTexts == Upto3({97, 55357, 56832, 0}) \cup {<<57>>, <<57, 57>>}
MCBinaries == Upto3({0, 7})

\* 9, 99 and 999, the last too large for an int8.
MCNumerals == <<57>> :> 18 @@ <<57, 57>> :> 198 @@ <<57, 57, 57>> :> 1998
==============================================================================
