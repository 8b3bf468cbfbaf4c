-------------------------- MODULE Handover_proofs --------------------------
(* What users of a memory may rely on when everyone keeps to Handover. *)
EXTENDS Handover, TLAPS

(* No memory is written while somebody reads it, whatever the number of    *)
(* memories, writers and readers: the promise that allocate_output of the  *)
(* decoder and show_frame of the KMS sink are shown to keep.               *)
THEOREM NeverBoth == Spec => []Exclusive
<1>1. Init => Exclusive
  BY DEF Init, Exclusive
<1>2. Exclusive /\ [Next]_<<writing, reading>> => Exclusive'
  <2> SUFFICES ASSUME Exclusive, [Next]_<<writing, reading>>
               PROVE  Exclusive'
    OBVIOUS
  <2>1. ASSUME NEW m \in Mems, Take(m)
        PROVE  Exclusive'
    BY <2>1 DEF Take, Exclusive
  <2>2. ASSUME NEW m \in Mems, Give(m)
        PROVE  Exclusive'
    BY <2>2 DEF Give, Exclusive
  <2>3. CASE LetGo
    BY <2>3 DEF LetGo, Exclusive
  <2>4. CASE UNCHANGED <<writing, reading>>
    BY <2>4 DEF Exclusive
  <2> QED
    BY <2>1, <2>2, <2>3, <2>4 DEF Next
<1> QED
  BY <1>1, <1>2, PTL DEF Spec
=============================================================================
