--------------------------- MODULE MCTransactions ---------------------------
(* Transactions on a small instance: connections and works are               *)
(* interchangeable.                                                          *)
EXTENDS Transactions, TLC

Symmetry == Permutations(Conns) \cup Permutations(Works)
==============================================================================
