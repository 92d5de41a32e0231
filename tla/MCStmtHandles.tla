---------------------------- MODULE MCStmtHandles ----------------------------
(* StmtHandles on a small instance: the three kinds of object are            *)
(* interchangeable.                                                          *)
EXTENDS StmtHandles, TLC

Symmetry == Permutations(ODBCStmts) \cup Permutations(Stmts)
              \cup Permutations(RowSets)
==============================================================================
