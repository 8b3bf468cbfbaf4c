---------------------------- MODULE MCG1Decoder ----------------------------
(* G1Decoder with small sets, for the model checker. *)
EXTENDS G1Decoder, TLC

(* The output buffers are interchangeable. *)
BufferSymmetry == Permutations(Buffers)
SizeSymmetry   == Permutations(Sizes)
Symmetry       == BufferSymmetry \cup SizeSymmetry
=============================================================================
