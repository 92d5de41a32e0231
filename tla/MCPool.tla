------------------------------- MODULE MCPool -------------------------------
(* Pool on a small instance: clients, connections and connection strings     *)
(* are interchangeable.                                                      *)
EXTENDS Pool, TLC

Symmetry == Permutations(Clients) \cup Permutations(DBPs) \cup Permutations(ConStrs)
==============================================================================
