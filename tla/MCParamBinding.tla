--------------------------- MODULE MCParamBinding ---------------------------
(* ParamBinding on a small instance: destinations are interchangeable.       *)
EXTENDS ParamBinding

Symmetry == Permutations(Dests)
==============================================================================
