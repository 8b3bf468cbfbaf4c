------------------------------ MODULE Handover ------------------------------
(***************************************************************************)
(* What the elements of a pipeline promise each other of the memory they   *)
(* share: a memory is taken to be written only when nobody reads it, and   *)
(* is read only after its writer has handed it over.                       *)
(***************************************************************************)
CONSTANT Mems

VARIABLES
    writing,   \* the memories being written
    reading    \* the memories queued, kept or shown by somebody

Init == writing = {} /\ reading = {}

(* Somebody starts to write a memory of no use to anyone else.  Memories   *)
(* that nobody needs any more may be let go of on the way.                 *)
Take(m) ==
    /\ m \notin writing \cup reading
    /\ writing' = writing \cup {m}
    /\ reading' \subseteq reading

(* The writer hands its memory over to be read. *)
Give(m) ==
    /\ m \in writing
    /\ writing' = writing \ {m}
    /\ reading' = reading \cup {m}

(* Writers give up, and readers let go. *)
LetGo ==
    /\ writing' \subseteq writing
    /\ reading' \subseteq reading

Next == (\E m \in Mems : Take(m) \/ Give(m)) \/ LetGo

Spec == Init /\ [][Next]_<<writing, reading>>

(* What the promise is worth: no memory is written while somebody reads    *)
(* it.  (That what is read was written is the form of the steps: only Give *)
(* adds to reading.)                                                       *)
Exclusive == writing \cap reading = {}
=============================================================================
