---------------------------- MODULE SharedMapping ----------------------------
(***************************************************************************)
(* What a memory that can be mapped promises its users (the mem_map and    *)
(* mem_unmap functions of a GstAllocator): while anyone has it mapped      *)
(* there is one window onto it, which everyone is given and nobody loses.  *)
(***************************************************************************)
CONSTANTS Users, Addrs, None

VARIABLES
    mapped,   \* the users that have the memory mapped
    window    \* where it is mapped, None when nobody has it mapped

Init == mapped = {} /\ window = None

(* The first user opens the window, the others are given the same one. *)
Map(u) ==
    /\ u \notin mapped
    /\ mapped' = mapped \cup {u}
    /\ IF mapped = {} THEN window' \in Addrs ELSE UNCHANGED window

(* The last user closes it. *)
Unmap(u) ==
    /\ u \in mapped
    /\ mapped' = mapped \ {u}
    /\ window' = IF mapped' = {} THEN None ELSE window

Next == \E u \in Users : Map(u) \/ Unmap(u)

Spec == Init /\ [][Next]_<<mapped, window>>
=============================================================================
