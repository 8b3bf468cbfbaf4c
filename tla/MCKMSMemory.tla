---------------------------- MODULE MCKMSMemory ----------------------------
(* KMSMemory with small sets, for the model checker. *)
EXTENDS KMSMemory, TLC

Symmetry == Permutations(Users) \cup Permutations(Addrs)
=============================================================================
