--------------------------- MODULE G1Negotiation ---------------------------
(***************************************************************************)
(* Negotiation of the decoder: set_format (ext/g1/gstg1basedec.c) makes    *)
(* the output state, negotiates, which has decide_allocation go through    *)
(* the allocators downstream offers, and then applies the crop to the new  *)
(* output.  The composition of PPConfig and G1Allocation: the streaming    *)
(* thread goes on from one to the other, while the application sets        *)
(* properties.                                                             *)
(***************************************************************************)
EXTENDS PPConfig, G1Allocation

NegotiationInit == PPInit /\ AllocationInit

(* gst_video_decoder_negotiate asks downstream once the output is set. *)
SetFormat ==
    /\ \E o \in Outputs : SetOutput(o)
    /\ Answer

Decide ==
    /\ pc = "negotiate"
    /\ Examine \/ Fallback
    /\ UNCHANGED ppVars

Decided == Negotiated /\ GiveBack

CropStep ==
    /\ \/ AppStep
       \/ \E p \in Pictures : Header(p)
       \/ Reconfigure \/ Refuse \/ Reconfigured
    /\ UNCHANGED allocationVars

NegotiationNext == SetFormat \/ Decide \/ Decided \/ CropStep

NegotiationSpec ==
    NegotiationInit /\ [][NegotiationNext]_<<ppVars, allocationVars>>

(* The state of either part has its type: what the application and the     *)
(* streaming thread make of ppconfig, however their calls overlap, stays   *)
(* aligned, and the loop stays within the list it shortens.                *)
NegotiationTypeOK == PPTypeOK /\ AllocationTypeOK
=============================================================================
