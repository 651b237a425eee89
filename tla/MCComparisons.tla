--------------------------- MODULE MCComparisons ---------------------------
EXTENDS Comparisons, TLC

(* Three networks, in the order of their names.                             *)
MCNetworks == 1..3
Symmetry == Permutations(Requests)
=============================================================================
