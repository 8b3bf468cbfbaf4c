------------------------ MODULE G1Negotiation_proofs ------------------------
(***************************************************************************)
(* Theorems about G1Negotiation, for any sizes and crops and for answers   *)
(* of any length: negotiation is a behaviour of each of its two parts, so  *)
(* what is proved of the parts holds of it.                                *)
(*                                                                         *)
(* Which allocators the loop leaves is not inductive: LoopInv says what    *)
(* has been examined, and that in the rest of the list no two incompatible *)
(* allocators follow each other.  Removing one keeps that, as the entry    *)
(* that takes its place is compatible.                                     *)
(***************************************************************************)
EXTENDS G1Negotiation, PPConfig_proofs, SequenceTheorems,
        FiniteSetTheorems

(* The list with one entry less. *)
LEMMA RemoveAtProperties ==
    ASSUME NEW S, NEW s \in Seq(S), NEW n \in 1 .. Len(s)
    PROVE  /\ RemoveAt(s, n) \in Seq(S)
           /\ Len(RemoveAt(s, n)) = Len(s) - 1
           /\ \A k \in 1 .. Len(s) - 1 :
                RemoveAt(s, n)[k] = IF k < n THEN s[k] ELSE s[k + 1]
<1> DEFINE before == SubSeq(s, 1, n - 1)
           after == SubSeq(s, n + 1, Len(s))
<1>0. Len(s) \in Nat
  BY LenProperties
<1>1. /\ before \in Seq(S) /\ Len(before) = n - 1
      /\ \A k \in 1 .. n - 1 : before[k] = s[k]
  BY <1>0, SubSeqProperties
<1>2. /\ after \in Seq(S) /\ Len(after) = Len(s) - n
      /\ \A k \in 1 .. Len(s) - n : after[k] = s[n + k]
  BY <1>0, SubSeqProperties
<1> HIDE DEF before, after
<1> DEFINE t == before \o after
<1>3. /\ t \in Seq(S) /\ Len(t) = Len(before) + Len(after)
      /\ \A k \in 1 .. Len(before) + Len(after) :
           t[k] = IF k <= Len(before) THEN before[k] ELSE after[k - Len(before)]
  BY <1>1, <1>2, ConcatProperties
<1>4. RemoveAt(s, n) = t
  BY DEF RemoveAt, before, after
<1> HIDE DEF t
<1>5. Len(t) = Len(s) - 1
  BY <1>0, <1>1, <1>2, <1>3
<1>6. ASSUME NEW k \in 1 .. Len(s) - 1, k < n PROVE t[k] = s[k]
  <2>1. k \in 1 .. n - 1 /\ k <= Len(before) /\ k \in 1 .. Len(before) + Len(after)
    BY <1>0, <1>1, <1>2, <1>6
  <2> QED
    BY <1>1, <1>3, <2>1
<1>7. ASSUME NEW k \in 1 .. Len(s) - 1, ~(k < n) PROVE t[k] = s[k + 1]
  <2>1. /\ k - Len(before) \in 1 .. Len(s) - n /\ n + (k - Len(before)) = k + 1
        /\ ~(k <= Len(before)) /\ k \in 1 .. Len(before) + Len(after)
    BY <1>0, <1>1, <1>2, <1>7
  <2>2. t[k] = after[k - Len(before)]
    BY <1>3, <2>1
  <2>3. after[k - Len(before)] = s[n + (k - Len(before))]
    BY <1>2, <2>1
  <2> QED
    BY <2>1, <2>2, <2>3
<1>8. \A k \in 1 .. Len(s) - 1 : t[k] = IF k < n THEN s[k] ELSE s[k + 1]
  BY <1>6, <1>7
<1> QED
  BY <1>3, <1>4, <1>5, <1>8

-----------------------------------------------------------------------------
(* The allocation query. *)

Typed ==
    /\ offered \in BoundedSeq(Allocators, MaxOffers) /\ offered \in Seq(Allocators)
    /\ params \in Seq(Allocators)
    /\ Len(params) <= nparams \/ Len(params) = 1
    /\ nparams = Len(offered) /\ i \in 0 .. nparams
    /\ turn \in {"loop", "done"}

(* What is examined is compatible, and in the rest no two incompatible     *)
(* allocators follow each other, if that was so in the answer.             *)
Filtered(n) == \A k \in 1 .. n : k <= Len(params) => params[k] = "g1"

LoopInv ==
    /\ turn = "loop" => Len(params) <= nparams
    /\ Apart(offered) /\ turn = "loop" =>
          /\ Filtered(i)
          /\ \A k \in i + 1 .. Len(params) - 1 : "g1" \in {params[k], params[k + 1]}
    /\ Apart(offered) /\ turn = "done" => \A k \in DOMAIN params : params[k] = "g1"

AllocationInv == Typed /\ LoopInv

(* An answer of bounded length is a sequence. *)
LEMMA BoundedIsSeq ==
    ASSUME NEW s \in BoundedSeq(Allocators, MaxOffers)
    PROVE  s \in Seq(Allocators)
<1>1. PICK m \in 0 .. MaxOffers : s \in [1 .. m -> Allocators]
  BY DEF BoundedSeq, SeqOf
<1>2. m \in Nat
  BY <1>1, OffersAssumption
<1> QED
  BY <1>1, <1>2, SeqDef

LEMMA EmptyAnswer == <<>> \in BoundedSeq(Allocators, MaxOffers)
<1>1. <<>> \in [1 .. 0 -> Allocators] /\ 0 \in 0 .. MaxOffers
  BY OffersAssumption
<1> QED
  BY <1>1 DEF BoundedSeq, SeqOf

(* The loop starts within the answer it was given.                         *)
THEOREM AllocationInitInv == AllocationInit => AllocationInv
<1> SUFFICES ASSUME AllocationInit PROVE AllocationInv
  OBVIOUS
<1>1. Typed
  BY EmptyAnswer, EmptySeq DEF AllocationInit, Typed
<1>2. LoopInv
  BY DEF AllocationInit, LoopInv
<1> QED
  BY <1>1, <1>2 DEF AllocationInv

LEMMA AnswerKeeps == AllocationInv /\ Answer => AllocationInv'
<1> SUFFICES ASSUME Answer PROVE AllocationInv'
  OBVIOUS
<1>1. /\ offered' \in BoundedSeq(Allocators, MaxOffers)
      /\ offered' \in Seq(Allocators) /\ params' = offered'
      /\ nparams' = Len(offered') /\ i' = 0 /\ turn' = "loop"
  BY BoundedIsSeq DEF Answer
<1>2. Len(offered') \in Nat
  BY <1>1, LenProperties
<1>3. Typed'
  BY <1>1, <1>2 DEF Typed
<1>4. LoopInv'
  BY <1>1, <1>2 DEF LoopInv, Filtered, Apart
<1> QED
  BY <1>3, <1>4 DEF AllocationInv

LEMMA ExamineKeeps == AllocationInv /\ Examine => AllocationInv'
<1> SUFFICES ASSUME AllocationInv, Examine PROVE AllocationInv'
  OBVIOUS
<1>1. /\ offered' = offered /\ nparams' = nparams /\ turn' = turn /\ turn = "loop"
      /\ i' = i + 1 /\ i < nparams
      /\ params' = IF Incompatible(i) THEN RemoveNth(params, i) ELSE params
  BY DEF Examine
<1>2. Typed /\ LoopInv /\ Len(params) \in Nat /\ Len(offered) \in Nat
  BY LenProperties DEF AllocationInv, Typed
<1>3. i \in Nat /\ nparams \in Nat /\ Len(params) <= nparams
  BY <1>1, <1>2 DEF Typed, LoopInv
<1>4. i + 1 \in 0 .. nparams
  BY <1>1, <1>3
<1>5. \A k \in 1 .. Len(params) : params[k] \in Allocators
  BY <1>2, ElementOfSeq DEF Typed
<1>6. CASE Incompatible(i)
  <2>1. i + 1 \in 1 .. Len(params) /\ params[i + 1] # "g1"
    BY <1>2, <1>3, <1>6 DEF Incompatible
  <2>2. /\ params' \in Seq(Allocators) /\ Len(params') = Len(params) - 1
        /\ \A k \in 1 .. Len(params) - 1 :
             params'[k] = IF k < i + 1 THEN params[k] ELSE params[k + 1]
    BY <1>1, <1>2, <1>6, <2>1, RemoveAtProperties DEF RemoveNth, Typed
  <2>3. Typed'
    BY <1>1, <1>2, <1>3, <1>4, <2>2 DEF Typed
  <2>4. ASSUME Apart(offered), NEW k \in 1 .. i + 1, k <= Len(params')
        PROVE  params'[k] = "g1"
    <3>1. k \in 1 .. Len(params) - 1
      BY <1>2, <1>3, <2>2, <2>4
    <3>2. CASE k < i + 1
      <4>1. params'[k] = params[k] /\ k \in 1 .. i /\ k <= Len(params)
        BY <1>2, <1>3, <2>2, <3>1, <3>2
      <4> QED
        BY <1>1, <1>2, <2>4, <4>1 DEF LoopInv, Filtered
    <3>3. CASE k = i + 1
      <4>1. params'[k] = params[k + 1]
        BY <1>3, <2>2, <3>1, <3>3
      <4>2. "g1" \in {params[k], params[k + 1]}
        BY <1>1, <1>2, <1>3, <2>4, <3>1, <3>3 DEF LoopInv
      <4> QED
        BY <2>1, <3>3, <4>1, <4>2
    <3> QED
      BY <1>3, <3>2, <3>3
  <2>5. ASSUME Apart(offered), NEW k \in i + 2 .. Len(params') - 1
        PROVE  "g1" \in {params'[k], params'[k + 1]}
    <3>1. /\ k \in 1 .. Len(params) - 1 /\ k + 1 \in 1 .. Len(params) - 1
          /\ ~(k < i + 1) /\ ~(k + 1 < i + 1)
          /\ k + 1 \in i + 1 .. Len(params) - 1
      BY <1>2, <1>3, <2>2, <2>5
    <3>2. params'[k] = params[k + 1] /\ params'[k + 1] = params[k + 1 + 1]
      BY <2>2, <3>1
    <3>3. "g1" \in {params[k + 1], params[k + 1 + 1]}
      BY <1>1, <1>2, <2>5, <3>1 DEF LoopInv
    <3> QED
      BY <3>2, <3>3
  <2>6. LoopInv'
    BY <1>1, <1>2, <1>3, <2>2, <2>4, <2>5 DEF LoopInv, Filtered
  <2> QED
    BY <2>3, <2>6 DEF AllocationInv
<1>7. CASE ~Incompatible(i)
  <2>1. params' = params
    BY <1>1, <1>7
  <2>2. Typed'
    BY <1>1, <1>2, <1>4, <2>1 DEF Typed
  <2>3. i + 1 <= Len(params) => params[i + 1] = "g1"
    BY <1>2, <1>3, <1>7 DEF Incompatible
  <2>4. ASSUME Apart(offered), NEW k \in 1 .. i + 1, k <= Len(params)
        PROVE  params[k] = "g1"
    <3>1. k = i + 1 \/ k \in 1 .. i
      BY <1>3
    <3> QED
      BY <1>1, <1>2, <2>3, <2>4, <3>1 DEF LoopInv, Filtered
  <2>5. LoopInv'
    BY <1>1, <1>2, <1>3, <2>1, <2>4 DEF LoopInv, Filtered
  <2> QED
    BY <2>2, <2>5 DEF AllocationInv
<1> QED
  BY <1>6, <1>7

LEMMA FallbackKeeps == AllocationInv /\ Fallback => AllocationInv'
<1> SUFFICES ASSUME AllocationInv, Fallback PROVE AllocationInv'
  OBVIOUS
<1>1. /\ offered' = offered /\ nparams' = nparams /\ i' = i
      /\ turn = "loop" /\ turn' = "done" /\ i = nparams
      /\ params' = IF params = <<>> THEN <<"g1">> ELSE params
  BY DEF Fallback, Provide
<1>2. Typed /\ LoopInv /\ Len(params) \in Nat /\ DOMAIN params = 1 .. Len(params)
  BY LenProperties DEF AllocationInv, Typed
<1>3. /\ <<"g1">> \in Seq(Allocators) /\ Len(<<"g1">>) = 1
      /\ DOMAIN <<"g1">> = {1} /\ <<"g1">>[1] = "g1"
  BY DEF Allocators
<1>4. Typed'
  BY <1>1, <1>2, <1>3 DEF Typed
<1>5. ASSUME Apart(offered), NEW k \in DOMAIN params' PROVE params'[k] = "g1"
  <2>1. CASE params = <<>>
    BY <1>1, <1>3, <1>5, <2>1
  <2>2. CASE params # <<>>
    <3>1. params' = params /\ k \in 1 .. i /\ k <= Len(params)
      BY <1>1, <1>2, <1>5, <2>2 DEF LoopInv, Typed
    <3> QED
      BY <1>1, <1>2, <1>5, <3>1 DEF LoopInv, Filtered
  <2> QED
    BY <2>1, <2>2
<1>6. LoopInv'
  BY <1>1, <1>5 DEF LoopInv
<1> QED
  BY <1>4, <1>6 DEF AllocationInv

LEMMA GiveBackKeeps == AllocationInv /\ GiveBack => AllocationInv'
<1> SUFFICES ASSUME GiveBack PROVE AllocationInv'
  OBVIOUS
<1>1. /\ offered' = <<>> /\ params' = <<>> /\ nparams' = 0 /\ i' = 0
      /\ turn' = "done"
  BY DEF GiveBack
<1>2. Typed'
  BY <1>1, EmptyAnswer, EmptySeq DEF Typed
<1>3. LoopInv'
  BY <1>1 DEF LoopInv
<1> QED
  BY <1>2, <1>3 DEF AllocationInv

(* The loop's invariant, for answers of any length. *)
THEOREM AllocationInvariant == AllocationSpec => []AllocationInv
<1>1. AllocationInv /\ [AllocationNext]_allocationVars => AllocationInv'
  <2> SUFFICES ASSUME AllocationInv, [AllocationNext]_allocationVars
               PROVE  AllocationInv'
    OBVIOUS
  <2>1. CASE AllocationNext
    BY <2>1, AnswerKeeps, ExamineKeeps, FallbackKeeps, GiveBackKeeps
       DEF AllocationNext
  <2>2. CASE UNCHANGED allocationVars
    BY <2>2 DEF allocationVars, AllocationInv, Typed, LoopInv, Filtered
  <2> QED
    BY <2>1, <2>2
<1> QED
  BY <1>1, AllocationInitInv, PTL DEF AllocationSpec

-----------------------------------------------------------------------------
(* What the loop keeps. *)

LEMMA CompatibleFinite ==
    ASSUME NEW s \in Seq(Allocators)
    PROVE  IsFiniteSet(CompatibleAt(s)) /\ Compatible(s) \in Nat
<1>1. DOMAIN s = 1 .. Len(s) /\ Len(s) \in Nat
  BY LenProperties
<1>2. IsFiniteSet(1 .. Len(s)) /\ CompatibleAt(s) \subseteq 1 .. Len(s)
  BY <1>1, FS_Interval DEF CompatibleAt
<1> QED
  BY <1>2, FS_Subset, FS_CardinalityType DEF Compatible

LEMMA NoneInEmpty == Compatible(<<>>) = 0
BY FS_EmptySet DEF Compatible, CompatibleAt

(* Taking out an incompatible entry moves those after it and loses none of *)
(* the compatible ones.                                                    *)
LEMMA RemovalKeeps ==
    ASSUME NEW s \in Seq(Allocators), NEW n \in 1 .. Len(s), s[n] # "g1"
    PROVE  Compatible(RemoveAt(s, n)) = Compatible(s)
<1> DEFINE t == RemoveAt(s, n)
           f == [k \in CompatibleAt(t) |-> IF k < n THEN k ELSE k + 1]
<1>0. Len(s) \in Nat /\ DOMAIN s = 1 .. Len(s)
  BY LenProperties
<1>1. /\ t \in Seq(Allocators) /\ Len(t) = Len(s) - 1
      /\ \A k \in 1 .. Len(s) - 1 : t[k] = IF k < n THEN s[k] ELSE s[k + 1]
  BY RemoveAtProperties
<1> HIDE DEF t
<1>2. DOMAIN t = 1 .. Len(s) - 1
  BY <1>1, LenProperties
<1>3. ASSUME NEW k \in CompatibleAt(t) PROVE f[k] \in CompatibleAt(s)
  <2>1. k \in 1 .. Len(s) - 1 /\ t[k] = "g1"
    BY <1>2, <1>3 DEF CompatibleAt
  <2> QED
    BY <1>0, <1>1, <2>1 DEF CompatibleAt
<1>4. ASSUME NEW k \in CompatibleAt(t), NEW l \in CompatibleAt(t), f[k] = f[l]
      PROVE  k = l
  <2>1. k \in Int /\ l \in Int /\ n \in Int
    BY <1>0, <1>2 DEF CompatibleAt
  <2> QED
    BY <1>4, <2>1
<1>5. ASSUME NEW m \in CompatibleAt(s) PROVE \E k \in CompatibleAt(t) : f[k] = m
  <2>1. m \in 1 .. Len(s) /\ s[m] = "g1" /\ m # n
    BY <1>0 DEF CompatibleAt
  <2>2. CASE m < n
    <3>1. m \in 1 .. Len(s) - 1 /\ t[m] = "g1"
      BY <1>0, <1>1, <2>1, <2>2
    <3> QED
      BY <1>2, <2>2, <3>1 DEF CompatibleAt
  <2>3. CASE n < m
    <3>1. /\ m - 1 \in 1 .. Len(s) - 1 /\ ~(m - 1 < n) /\ (m - 1) + 1 = m
      BY <1>0, <2>1, <2>3
    <3>2. t[m - 1] = "g1"
      BY <1>1, <2>1, <3>1
    <3> QED
      BY <1>2, <3>1, <3>2 DEF CompatibleAt
  <2> QED
    BY <1>0, <2>1, <2>2, <2>3
<1>6. f \in Bijection(CompatibleAt(t), CompatibleAt(s))
  BY <1>3, <1>4, <1>5 DEF Bijection, Injection, Surjection, IsInjective
<1>7. ExistsBijection(CompatibleAt(t), CompatibleAt(s))
  BY <1>6 DEF ExistsBijection
<1> QED
  BY <1>1, <1>7, CompatibleFinite, FS_Bijection DEF Compatible, t

(* While the loop runs, every compatible offer is still in the list.       *)
KeptInv ==
    /\ turn = "loop" => Compatible(params) = Compatible(offered)
    /\ CompatibleKept

(* No turn of the loop loses a compatible allocator, for any answer.       *)
THEOREM KeptInvariant == AllocationSpec => []KeptInv
<1>1. AllocationInit => KeptInv
  BY DEF AllocationInit, KeptInv, CompatibleKept
<1>2. AllocationInv /\ KeptInv /\ [AllocationNext]_allocationVars => KeptInv'
  <2> SUFFICES ASSUME AllocationInv, KeptInv, [AllocationNext]_allocationVars
               PROVE  KeptInv'
    OBVIOUS
  <2>1. CASE Answer
    BY <2>1 DEF Answer, KeptInv, CompatibleKept
  <2>2. CASE Examine
    <3>1. /\ offered' = offered /\ turn' = turn /\ turn = "loop"
          /\ params' = IF Incompatible(i) THEN RemoveNth(params, i) ELSE params
      BY <2>2 DEF Examine
    <3>2. CASE Incompatible(i)
      <4>1. params \in Seq(Allocators) /\ i \in Nat /\ Len(params) \in Nat
        BY LenProperties DEF AllocationInv, Typed
      <4>2. i + 1 \in 1 .. Len(params) /\ params[i + 1] # "g1"
        BY <3>2, <4>1 DEF Incompatible
      <4>3. Compatible(RemoveAt(params, i + 1)) = Compatible(params)
        BY <4>1, <4>2, RemovalKeeps
      <4> QED
        BY <3>1, <3>2, <4>3 DEF RemoveNth, KeptInv, CompatibleKept
    <3>3. CASE ~Incompatible(i)
      BY <3>1, <3>3 DEF KeptInv, CompatibleKept
    <3> QED
      BY <3>2, <3>3
  <2>3. CASE Fallback
    <3>1. /\ offered' = offered /\ turn = "loop" /\ turn' = "done"
          /\ params' = IF params = <<>> THEN <<"g1">> ELSE params
      BY <2>3 DEF Fallback, Provide
    <3>2. params = <<>> => Compatible(offered) = 0
      BY <3>1, NoneInEmpty DEF KeptInv
    <3> QED
      BY <3>1, <3>2 DEF KeptInv, CompatibleKept
  <2>4. CASE GiveBack
    BY <2>4 DEF GiveBack, KeptInv, CompatibleKept
  <2>5. CASE UNCHANGED allocationVars
    BY <2>5 DEF allocationVars, KeptInv, CompatibleKept
  <2> QED
    BY <2>1, <2>2, <2>3, <2>4, <2>5 DEF AllocationNext
<1> QED
  BY <1>1, <1>2, AllocationInvariant, PTL DEF AllocationSpec

-----------------------------------------------------------------------------
(* Negotiation as a whole. *)

(* Every step of negotiation is one of the crop's, or leaves it alone, and *)
(* the same of the query.                                                  *)
THEOREM NegotiationImplements ==
    NegotiationSpec => PPSpec /\ AllocationSpec
<1>1. NegotiationInit => PPInit /\ AllocationInit
  BY DEF NegotiationInit
<1>2. [NegotiationNext]_<<ppVars, allocationVars>>
        => [PPNext]_ppVars /\ [AllocationNext]_allocationVars
  <2> SUFFICES ASSUME [NegotiationNext]_<<ppVars, allocationVars>>
               PROVE  [PPNext]_ppVars /\ [AllocationNext]_allocationVars
    OBVIOUS
  <2>1. CASE SetFormat
    BY <2>1 DEF SetFormat, PPNext, StreamStep, AllocationNext
  <2>2. CASE Decide
    BY <2>2 DEF Decide, AllocationNext
  <2>3. CASE Decided
    BY <2>3 DEF Decided, PPNext, StreamStep, AllocationNext
  <2>4. CASE CropStep
    BY <2>4 DEF CropStep, PPNext, StreamStep
  <2>5. CASE UNCHANGED <<ppVars, allocationVars>>
    BY <2>5
  <2> QED
    BY <2>1, <2>2, <2>3, <2>4, <2>5 DEF NegotiationNext
<1> QED
  BY <1>1, <1>2, PTL DEF NegotiationSpec, PPSpec, AllocationSpec

(* The configuration keeps its types, and the loop of the query stays      *)
(* within the list however many entries it removes.                        *)
THEOREM NegotiationTyped == NegotiationSpec => []NegotiationTypeOK
<1>1. AllocationInv => AllocationTypeOK
  BY DEF AllocationInv, Typed, AllocationTypeOK
<1>2. PPTypeOK /\ AllocationTypeOK => NegotiationTypeOK
  BY DEF NegotiationTypeOK
<1> QED
  BY <1>1, <1>2, AllocationInvariant, PPTyped, NegotiationImplements, PTL

(* Of an answer of any length in which no two incompatible allocators      *)
(* follow each other, the loop leaves compatible ones only.                *)
THEOREM LoopFilters == NegotiationSpec => []FilteredWhenApart
<1>1. AllocationInv => FilteredWhenApart
  BY DEF AllocationInv, LoopInv, FilteredWhenApart
<1> QED
  BY <1>1, AllocationInvariant, NegotiationImplements, PTL

(* Of an answer of any length and in any order, the loop loses none of the *)
(* compatible allocators, and the decoder's own stands in for none.        *)
THEOREM NoneLost == NegotiationSpec => []CompatibleKept
<1>1. KeptInv => CompatibleKept
  BY DEF KeptInv
<1> QED
  BY <1>1, KeptInvariant, NegotiationImplements, PTL

(* "If no one provided a compatible g1 allocator, provide it ourselves"    *)
(* (gstg1basedec.c:420) holds of the answers in which no two incompatible  *)
(* allocators follow each other: the pool gets a compatible one.           *)
THEOREM PoolServed == NegotiationSpec => [](Apart(offered) => PoolGetsCompatible)
<1>1. AllocationInv => (Apart(offered) => PoolGetsCompatible)
  <2> SUFFICES ASSUME AllocationInv, Apart(offered), turn = "done", params # <<>>
               PROVE  Head(params) = "g1"
    BY DEF PoolGetsCompatible
  <2>1. params \in Seq(Allocators) /\ \A k \in DOMAIN params : params[k] = "g1"
    BY DEF AllocationInv, Typed, LoopInv
  <2>2. Len(params) \in Nat /\ Len(params) # 0 /\ DOMAIN params = 1 .. Len(params)
    BY <2>1, LenProperties, EmptySeq
  <2>3. 1 \in DOMAIN params /\ Head(params) = params[1]
    BY <2>1, <2>2
  <2> QED
    BY <2>1, <2>3
<1> QED
  BY <1>1, AllocationInvariant, NegotiationImplements, PTL

(* What is proved of the crop holds while allocators are negotiated.       *)
THEOREM NegotiatedCrop ==
    NegotiationSpec => []PPAgrees /\ []CropFits /\ SettingsKept
BY NegotiationImplements, PPAgreement, CropSuits, CropKept
=============================================================================
