--------------------------- MODULE MCColumnValues ---------------------------
EXTENDS ColumnValues

\* One column for each branch of newColumn.
MCColumns ==
  {[stype |-> t, size |-> 2] : t \in {"INTEGER", "TIME", "DBCLOB"}}
  \cup {[stype |-> t, size |-> 3] : t \in {"CHAR", "WVARCHAR", "DECIMAL"}}
  \cup {[stype |-> "CLOB", size |-> 4], [stype |-> "VARBINARY", size |-> 7],
        [stype |-> "XML", size |-> 11], [stype |-> "DECFLOAT", size |-> 16],
        [stype |-> "CHAR", size |-> 0]}

\* Texts of a and the euro sign; three signs do not fit in a CHAR(3), seven bytes
\* look like NULL, and of ten bytes the last seven may be a chunk.
MCCharTexts == {<<>>, <<97>>, <<8364>>, <<97, 8364>>, <<8364, 8364, 97>>,
                <<8364, 8364, 8364>>, <<8364, 8364, 8364, 97>>}

\* Of a, the halves of a pair, and NUL; three units are more than MaxElements.
MCWideTexts == UNION {[1 .. n -> {97, 55357, 56832, 0}] : n \in 0 .. 2}
               \cup {<<97, 55357, 56832>>}
MCBinaries == UNION {[1 .. n -> {0, 7}] : n \in 0 .. 2}
              \cup {[i \in 1 .. n |-> i] : n \in {7, 11}}
==============================================================================
