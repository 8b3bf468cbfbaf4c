---------------------------- MODULE G1Allocation ----------------------------
(***************************************************************************)
(* gst_g1_base_dec_decide_allocation (ext/g1/gstg1basedec.c): the decoder  *)
(* goes through the allocators downstream offered in its answer to the     *)
(* allocation query, removes those that are not GstG1Allocators, and       *)
(* offers the DWL allocator itself when none is left.  The base class then *)
(* gives the pool the first one of the list.                               *)
(*                                                                         *)
(* The loop removes entries from the list it counts through: its bound is  *)
(* the length the list had at the start, and an entry that moves into the  *)
(* place of a removed one is not looked at.                                *)
(***************************************************************************)
EXTENDS Naturals, FiniteSets, SequencesExt

CONSTANT MaxOffers   \* allocators downstream offers, at most

ASSUME OffersAssumption == MaxOffers \in Nat

(* A compatible allocator, and one of any other kind (or none at all). *)
Allocators == {"g1", "other"}

VARIABLES
    offered,   \* the allocators downstream offered
    params,    \* the allocation parameters in the query
    nparams,   \* the number of them before the loop
    i,         \* the loop's index
    turn       \* "loop", or "done": the base class decides

allocationVars == <<offered, params, nparams, i, turn>>

AllocationInit ==
    /\ offered = <<>> /\ params = <<>> /\ nparams = 0
    /\ i = 0 /\ turn = "done"

(* Downstream's answer, with which the loop starts. *)
Answer ==
    /\ turn = "done"
    /\ offered' \in BoundedSeq(Allocators, MaxOffers)
    /\ params' = offered' /\ nparams' = Len(offered')
    /\ i' = 0 /\ turn' = "loop"

(* gst_query_parse_nth_allocation_param and _remove_nth_: indices count    *)
(* from 0, and beyond the end of the list both do nothing.                 *)
Incompatible_Swapped(n) == n < Len(params) /\ params[n + 1] = "g1"
Incompatible(n)         == n < Len(params) /\ params[n + 1] # "g1"

RemoveNth_Next(s, n) == IF n + 2 <= Len(s) THEN RemoveAt(s, n + 2) ELSE s
RemoveNth(s, n)      == RemoveAt(s, n + 1)

(* One turn of the loop. *)
Examine ==
    /\ turn = "loop" /\ i < nparams
    /\ params' = IF Incompatible(i) THEN RemoveNth(params, i) ELSE params
    /\ i' = i + 1
    /\ UNCHANGED <<offered, nparams, turn>>

(* "If no one provided a compatible g1 allocator, provide it ourselves":   *)
(* propose_allocation adds the DWL allocator.                              *)
Provide(s) == IF s = <<>> THEN <<"g1">> ELSE s

Fallback ==
    /\ turn = "loop" /\ i = nparams
    /\ params' = Provide(params)
    /\ turn' = "done"
    /\ UNCHANGED <<offered, nparams, i>>

(* The base class has made the pool, and gives the query back. *)
GiveBack ==
    /\ turn = "done"
    /\ offered' = <<>> /\ params' = <<>> /\ nparams' = 0
    /\ i' = 0 /\ UNCHANGED turn

AllocationNext == Answer \/ Examine \/ Fallback \/ GiveBack

AllocationSpec == AllocationInit /\ [][AllocationNext]_allocationVars

-----------------------------------------------------------------------------
(* Properties.                                                             *)

AllocationTypeOK ==
    /\ offered \in BoundedSeq(Allocators, MaxOffers)
    /\ params \in Seq(Allocators)
    /\ Len(params) <= nparams \/ Len(params) = 1
    /\ nparams = Len(offered) /\ i \in 0 .. nparams
    /\ turn \in {"loop", "done"}

(* How many of the allocators in a list are compatible: one is as good as  *)
(* another, so that a list of them is as long as it is and no more.        *)
CompatibleAt(s) == {k \in DOMAIN s : s[k] = "g1"}
Compatible(s)   == Cardinality(CompatibleAt(s))

(* However the indices shift, no compatible allocator is lost, and the     *)
(* decoder's own comes only where downstream offered none.                 *)
CompatibleKept ==
    \/ Compatible(params) = Compatible(offered)
    \/ Compatible(offered) = 0 /\ turn = "done" /\ params = <<"g1">>

(* What the loop does remove: every incompatible allocator that does not   *)
(* come right after another one.                                           *)
Apart(s) == \A k \in 1 .. Len(s) - 1 : "g1" \in {s[k], s[k + 1]}

FilteredWhenApart ==
    turn = "done" /\ Apart(offered) => \A k \in DOMAIN params : params[k] = "g1"

(* "If no one provided a compatible g1 allocator, provide it ourselves"    *)
(* (gstg1basedec.c:420): the pool gets a compatible allocator.             *)
PoolGetsCompatible ==
    turn = "done" /\ params # <<>> => Head(params) = "g1"
=============================================================================
