-------------------------- MODULE MCG1Negotiation --------------------------
(* G1Negotiation with a few sizes, for TLC. *)
EXTENDS G1Negotiation

Of(w, h) == [w |-> w, h |-> h]

(* A picture, and one that is too narrow for some crops of the first. *)
MCPictures == {Of(48, 32), Of(32, 40)}

(* Downstream leaves the size open, or asks for one that is too high for   *)
(* some crops.                                                             *)
MCOutputs == {Of(1, 1), Of(24, 76)}
=============================================================================
