------------------------------ MODULE PageFlip ------------------------------
(***************************************************************************)
(* What a user of page flipping must keep to: it asks the display for one  *)
(* picture at a time, and asks for another only after it has learnt that   *)
(* the display switched to the last one.  A display that is asked for a    *)
(* second picture refuses it.                                              *)
(***************************************************************************)
CONSTANTS Pictures, None

VARIABLES
    busy,   \* the user believes that the display has not switched yet
    asked   \* the picture the display is about to switch to

Init == busy = FALSE /\ asked = None

(* The display takes the request, or refuses it for reasons of its own;    *)
(* the user waits for the switch in either case.                           *)
Ask == /\ ~busy /\ asked = None
       /\ busy' = TRUE
       /\ asked' \in Pictures \cup {None}

Switch == /\ busy /\ asked # None
          /\ asked' = None /\ UNCHANGED busy

Learn == /\ busy /\ asked = None
         /\ busy' = FALSE /\ UNCHANGED asked

(* The memory of the picture is given up, but the display keeps it. *)
Rename == /\ busy /\ asked # None
          /\ asked' \in Pictures /\ UNCHANGED busy

Next == Ask \/ Switch \/ Learn \/ Rename

Spec == Init /\ [][Next]_<<busy, asked>>
=============================================================================
