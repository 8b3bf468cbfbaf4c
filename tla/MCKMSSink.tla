------------------------------ MODULE MCKMSSink ------------------------------
(* KMSSink on small sets of memories, for TLC. *)
EXTENDS KMSSink, TLC

CONSTANTS m1, m2, m3

(* The memories are interchangeable. *)
Symmetry == Permutations(Mems)
=============================================================================
