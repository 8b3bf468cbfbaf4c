-------------------------- MODULE PPConfig_proofs --------------------------
(***************************************************************************)
(* Theorems about PPConfig, for any crops, pictures and outputs.           *)
(*                                                                         *)
(* What the properties say of a settled configuration is not inductive: a  *)
(* call that is under way was checked in an earlier state.  PPInv adds     *)
(* that, as long as nothing overlaps, what a call was checked against has  *)
(* not changed, and that a settled crop as a whole passes the checks.      *)
(***************************************************************************)
EXTENDS PPConfig, TLAPS

(* A crop, or the arguments of a call, as aligned by config_crop. *)
OnGrid(a, n) == a = Keep \/ a % n = 0

AlignedArgs ==
    {a \in Args : /\ OnGrid(a.x, 16) /\ OnGrid(a.y, 16)
                  /\ OnGrid(a.w, 8) /\ OnGrid(a.h, 8)}

AlignedCrops ==
    {c \in Crops : /\ c.x % 16 = 0 /\ c.y % 16 = 0
                   /\ c.w % 8 = 0 /\ c.h % 8 = 0}

Calls == {c \in CropCalls : c.args \in AlignedArgs}

PPTypes ==
    /\ crop \in AlignedCrops /\ ppCrop \in AlignedCrops /\ enable \in BOOLEAN
    /\ in \in Size /\ (in.w = 0 <=> in.h = 0)
    /\ out \in Size \cup {None}
    /\ call \in [Threads -> Calls \cup {None}]
    /\ pc \in {"closed", "idle", "negotiate", "config", "apply"}
    /\ mixed \in BOOLEAN /\ settled \in BOOLEAN

(* The streaming thread is in config_crop in one place only, and settled   *)
(* is FALSE while it goes through a change of the sizes.                   *)
StreamCalls ==
    /\ call["stream"] # None <=> pc = "apply"
    /\ pc \in {"negotiate", "config", "apply"} => ~settled

(* What an undisturbed call was checked against still holds. *)
StillAccepted(t) ==
    /\ call[t].configured = Configured
    /\ Accepted(call[t].args)

Undisturbed ==
    /\ pc = "apply" /\ ~mixed => /\ call["app"] = None
                                 /\ call["stream"].args = crop
                                 /\ StillAccepted("stream")
    /\ settled /\ call["app"] # None => StillAccepted("app")

(* A settled crop as a whole passes the checks, enabled or not, and the    *)
(* post processor has it.                                                  *)
SettledFits ==
    settled => /\ Accepted(crop)
               /\ enable => ppCrop = crop /\ in.w # 0 /\ crop.w # 0 /\ crop.h # 0
               /\ Configured => (enable <=> crop.w # 0 /\ crop.h # 0)

PPInv == PPTypes /\ StreamCalls /\ Undisturbed /\ SettledFits

-----------------------------------------------------------------------------
(* Lemmas about the operators. *)

(* Aligning rounds down to the grid, and keeps "leave it as it is". *)
LEMMA AlignToGrid ==
    ASSUME NEW a \in Nat \cup {Keep}, NEW n \in {8, 16}
    PROVE  /\ AlignTo(a, n) \in Nat \cup {Keep}
           /\ OnGrid(AlignTo(a, n), n)
           /\ OnGrid(a, n) => AlignTo(a, n) = a
<1>1. CASE a = Keep
  BY <1>1 DEF AlignTo, OnGrid
<1>2. CASE a \in Nat /\ n = 8
  BY <1>2 DEF AlignTo, OnGrid, Keep
<1>3. CASE a \in Nat /\ n = 16
  BY <1>3 DEF AlignTo, OnGrid, Keep
<1> QED
  BY <1>1, <1>2, <1>3

LEMMA AlignedType ==
    ASSUME NEW a \in Args
    PROVE  /\ Aligned(a) \in AlignedArgs
           /\ a \in AlignedArgs => Aligned(a) = a
<1> DEFINE b == Aligned(a)
<1>1. /\ a.x \in Nat \cup {Keep} /\ a.y \in Nat \cup {Keep}
      /\ a.w \in Nat \cup {Keep} /\ a.h \in Nat \cup {Keep}
  BY DEF Args
<1>2. /\ b.x \in Nat \cup {Keep} /\ b.y \in Nat \cup {Keep}
      /\ b.w \in Nat \cup {Keep} /\ b.h \in Nat \cup {Keep}
      /\ OnGrid(b.x, 16) /\ OnGrid(b.y, 16) /\ OnGrid(b.w, 8) /\ OnGrid(b.h, 8)
  BY <1>1, AlignToGrid DEF Aligned
<1>3. b \in Args
  BY <1>2 DEF Aligned, Args
<1>4. ASSUME a \in AlignedArgs PROVE b = a
  <2>1. OnGrid(a.x, 16) /\ OnGrid(a.y, 16) /\ OnGrid(a.w, 8) /\ OnGrid(a.h, 8)
    BY <1>4 DEF AlignedArgs
  <2>2. b = [x |-> a.x, y |-> a.y, w |-> a.w, h |-> a.h]
    BY <2>1, <1>1, AlignToGrid DEF Aligned
  <2> QED
    BY <2>2 DEF Args
<1> QED
  BY <1>2, <1>3, <1>4 DEF AlignedArgs

(* A crop is an argument that gives all four values. *)
LEMMA CropIsArgument ==
    ASSUME NEW c \in AlignedCrops
    PROVE  /\ c \in AlignedArgs /\ Aligned(c) = c
           /\ c.x # Keep /\ c.y # Keep /\ c.w # Keep /\ c.h # Keep
<1>1. c \in Args /\ c.x # Keep /\ c.y # Keep /\ c.w # Keep /\ c.h # Keep
  BY DEF AlignedCrops, Crops, Args, Keep
<1>2. c \in AlignedArgs
  BY <1>1 DEF AlignedCrops, AlignedArgs, OnGrid
<1> QED
  BY <1>1, <1>2, AlignedType

(* With given arguments the crop stays aligned; with its own it stays.     *)
LEMMA WithType ==
    ASSUME crop \in AlignedCrops, NEW a \in AlignedArgs
    PROVE  /\ With(a) \in AlignedCrops
           /\ a = crop => With(a) = crop
<1> DEFINE c == With(a)
<1>1. /\ a.x \in Nat \cup {Keep} /\ a.y \in Nat \cup {Keep}
      /\ a.w \in Nat \cup {Keep} /\ a.h \in Nat \cup {Keep}
      /\ OnGrid(a.x, 16) /\ OnGrid(a.y, 16) /\ OnGrid(a.w, 8) /\ OnGrid(a.h, 8)
  BY DEF AlignedArgs, Args
<1>2. /\ crop.x \in Nat /\ crop.y \in Nat /\ crop.w \in Nat /\ crop.h \in Nat
      /\ crop.x % 16 = 0 /\ crop.y % 16 = 0 /\ crop.w % 8 = 0 /\ crop.h % 8 = 0
  BY DEF AlignedCrops, Crops
<1>3. /\ c.x \in Nat /\ c.y \in Nat /\ c.w \in Nat /\ c.h \in Nat
      /\ c.x % 16 = 0 /\ c.y % 16 = 0 /\ c.w % 8 = 0 /\ c.h % 8 = 0
  BY <1>1, <1>2 DEF With, Given, OnGrid
<1>4. c \in Crops
  BY <1>3 DEF With, Crops
<1>5. ASSUME a = crop PROVE c = crop
  <2>1. c = [x |-> crop.x, y |-> crop.y, w |-> crop.w, h |-> crop.h]
    BY <1>5 DEF With, Given
  <2> QED
    BY <2>1 DEF AlignedCrops, Crops
<1> QED
  BY <1>3, <1>4, <1>5 DEF AlignedCrops

(* Arguments that pass the checks beside a crop that does leave a crop     *)
(* that passes them.                                                       *)
LEMMA AcceptedWith ==
    ASSUME PPTypes, NEW a \in AlignedArgs, Accepted(crop), Accepted(a)
    PROVE  LET c == With(a)
           IN  /\ out # None /\ c.w # 0 => Third(c.w, out.w, 0)
               /\ out # None /\ c.h # 0 => Third(c.h, out.h, 2)
               /\ Inside(c.x, c.w, in.w) /\ Inside(c.y, c.h, in.h)
<1>1. crop.x # Keep /\ crop.y # Keep /\ crop.w # Keep /\ crop.h # Keep
  BY CropIsArgument DEF PPTypes
<1>2. With(crop) = crop
  BY WithType, CropIsArgument DEF PPTypes
<1>3. /\ out # None /\ crop.w # 0 => Third(crop.w, out.w, 0)
      /\ out # None /\ crop.h # 0 => Third(crop.h, out.h, 2)
      /\ Inside(crop.x, crop.w, in.w) /\ Inside(crop.y, crop.h, in.h)
  BY <1>1, <1>2 DEF Accepted
<1>4. /\ a.w = Keep => With(a).w = crop.w
      /\ a.w # Keep => With(a).w = a.w
      /\ a.h = Keep => With(a).h = crop.h
      /\ a.h # Keep => With(a).h = a.h
      /\ a.x = Keep => With(a).x = crop.x
      /\ a.y = Keep => With(a).y = crop.y
  BY DEF With, Given
<1> QED
  BY <1>3, <1>4 DEF Accepted

(* A whole crop is accepted when each of its sides is.                     *)
LEMMA WholeCrop ==
    ASSUME crop \in AlignedCrops
    PROVE  Accepted(crop) <=>
             /\ out # None /\ crop.w # 0 => Third(crop.w, out.w, 0)
             /\ out # None /\ crop.h # 0 => Third(crop.h, out.h, 2)
             /\ Inside(crop.x, crop.w, in.w) /\ Inside(crop.y, crop.h, in.h)
<1>1. /\ crop.x # Keep /\ crop.y # Keep /\ crop.w # Keep /\ crop.h # Keep
      /\ With(crop) = crop
  BY WithType, CropIsArgument
<1> QED
  BY <1>1 DEF Accepted

-----------------------------------------------------------------------------
(* The invariant.                                                          *)

(* A call of either thread starts with aligned arguments that are accepted. *)
LEMMA EnterTypes ==
    ASSUME PPTypes, NEW t \in Threads, NEW a \in Args, Enter(t, a)
    PROVE  /\ call'[t] \in Calls /\ call'[t].args = Aligned(a)
           /\ call'[t] # None
           /\ call' \in [Threads -> Calls \cup {None}]
           /\ \A u \in Threads \ {t} : call'[u] = call[u]
           /\ mixed' \in BOOLEAN
           /\ ~mixed' => \A u \in Threads : call[u] = None
<1>1. Aligned(a) \in AlignedArgs /\ Aligned(a) \in Args
  BY AlignedType DEF AlignedArgs
<1> DEFINE new == [args |-> Aligned(a), configured |-> Configured]
<1>2. new \in CropCalls /\ new.args = Aligned(a)
  BY <1>1 DEF CropCalls, Configured
<1>3. new \in Calls /\ new # None
  BY <1>1, <1>2, CropAssumption DEF Calls
<1>4. call' = [call EXCEPT ![t] = new] /\ mixed' = ~Idle
  BY DEF Enter
<1>5. call \in [Threads -> Calls \cup {None}]
  BY DEF PPTypes
<1> HIDE DEF new
<1>6. /\ call'[t] = new
      /\ call' \in [Threads -> Calls \cup {None}]
      /\ \A u \in Threads \ {t} : call'[u] = call[u]
  BY <1>3, <1>4, <1>5
<1>7. ~mixed' => \A u \in Threads : call[u] = None
  BY <1>4 DEF Idle
<1> QED
  BY <1>2, <1>3, <1>4, <1>6, <1>7 DEF Idle

(* What the rest of a call leaves. *)
LEMMA ApplyTypes ==
    ASSUME PPTypes, NEW t \in Threads, Leave(t)
    PROVE  /\ crop' \in AlignedCrops /\ ppCrop' \in AlignedCrops
           /\ enable' \in BOOLEAN
           /\ call' \in [Threads -> Calls \cup {None}]
           /\ call'[t] = None
           /\ \A u \in Threads \ {t} : call'[u] = call[u]
<1>1. call[t] \in Calls
  BY DEF PPTypes, Leave
<1>2. call[t].args \in AlignedArgs /\ call[t].configured \in BOOLEAN
  BY <1>1 DEF Calls, CropCalls
<1>3. With(call[t].args) \in AlignedCrops
  BY <1>2, WithType DEF PPTypes
<1>4. crop' = With(call[t].args)
  BY DEF Leave, Apply
<1>5. ppCrop' \in {With(call[t].args), ppCrop}
  BY DEF Leave, Apply
<1>6. enable' \in BOOLEAN
  BY <1>2 DEF Leave, Apply
<1>7. call' = [call EXCEPT ![t] = None]
  BY DEF Leave
<1> QED
  BY <1>3, <1>4, <1>5, <1>6, <1>7 DEF PPTypes

(* A settled configuration after a call with arguments that were accepted. *)
LEMMA ApplySettles ==
    ASSUME PPTypes, NEW t \in Threads, Leave(t), Accepted(crop),
           StillAccepted(t)
    PROVE  /\ Accepted(crop)'
           /\ enable' => ppCrop' = crop' /\ in'.w # 0 /\ crop'.w # 0 /\ crop'.h # 0
           /\ Configured' => (enable' <=> crop'.w # 0 /\ crop'.h # 0)
<1>1. call[t] \in Calls
  BY DEF PPTypes, Leave
<1> DEFINE a == call[t].args
<1>2. a \in AlignedArgs /\ Accepted(a) /\ call[t].configured = Configured
  BY <1>1 DEF Calls, StillAccepted
<1>3. crop' = With(a) /\ in' = in /\ out' = out
  BY DEF Leave, Apply
<1>4. crop' \in AlignedCrops
  BY ApplyTypes
<1>5. /\ out # None /\ crop'.w # 0 => Third(crop'.w, out.w, 0)
      /\ out # None /\ crop'.h # 0 => Third(crop'.h, out.h, 2)
      /\ Inside(crop'.x, crop'.w, in.w) /\ Inside(crop'.y, crop'.h, in.h)
  BY <1>2, <1>3, AcceptedWith
<1>6. Accepted(crop)'
  <2>1. crop'.x # Keep /\ crop'.y # Keep /\ crop'.w # Keep /\ crop'.h # Keep
    BY <1>4, CropIsArgument
  <2>2. /\ (With(crop).x)' = crop'.x /\ (With(crop).y)' = crop'.y
        /\ (With(crop).w)' = crop'.w /\ (With(crop).h)' = crop'.h
    BY DEF With, Given
  <2> QED
    BY <1>3, <1>5, <2>1, <2>2 DEF Accepted
<1>7. /\ ppCrop' = IF call[t].configured THEN crop' ELSE ppCrop
      /\ enable' = (call[t].configured /\ crop'.w # 0 /\ crop'.h # 0)
  BY DEF Leave, Apply
<1>8. Configured' = Configured
  BY <1>3 DEF Configured
<1> QED
  BY <1>2, <1>3, <1>6, <1>7, <1>8 DEF Configured

(* A new element crops nothing, and its threads are outside of config_crop. *)
THEOREM PPInitInv == PPInit => PPInv
<1> SUFFICES ASSUME PPInit PROVE PPInv
  OBVIOUS
<1>1. NoCrop \in AlignedCrops /\ NoPicture \in Size /\ NoPicture.w = NoPicture.h
  BY DEF NoCrop, NoPicture, AlignedCrops, Crops, Size
<1>2. \A t \in Threads : call[t] = None
  BY DEF PPInit
<1>3. PPTypes
  BY <1>1 DEF PPInit, PPTypes
<1>4. StreamCalls /\ Undisturbed
  BY <1>2 DEF PPInit, StreamCalls, Undisturbed, Threads
<1>5. Accepted(crop)
  BY <1>3, WholeCrop DEF PPInit, NoCrop, NoPicture, PPTypes, Inside
<1>6. SettledFits
  BY <1>5 DEF SettledFits, PPInit, Configured, NoPicture
<1> QED
  BY <1>3, <1>4, <1>6 DEF PPInv

(* What set_property passes are arguments. *)
LEMMA ArgumentsType == Arguments \subseteq Args
<1> DEFINE nothing == [x |-> Keep, y |-> Keep, w |-> Keep, h |-> Keep]
<1>1. nothing \in Args
  BY DEF Args
<1>2. Positions \subseteq Nat /\ Extents \subseteq Nat
  BY CropAssumption
<1>3. \A a \in Arguments : \E v \in Nat :
         a \in {[nothing EXCEPT !.x = v], [nothing EXCEPT !.y = v],
                [nothing EXCEPT !.w = v], [nothing EXCEPT !.h = v]}
  BY <1>2, Zenon DEF Arguments
<1> HIDE DEF nothing
<1>4. \A v \in Nat : /\ [nothing EXCEPT !.x = v] \in Args
                     /\ [nothing EXCEPT !.y = v] \in Args
                     /\ [nothing EXCEPT !.w = v] \in Args
                     /\ [nothing EXCEPT !.h = v] \in Args
  BY <1>1 DEF Args
<1> QED
  BY <1>3, <1>4

(* Each action, in the order of PPNext. *)
LEMMA SetCropKeeps == PPInv /\ SetCrop => PPInv'
<1> SUFFICES ASSUME PPInv, SetCrop PROVE PPInv'
  OBVIOUS
<1>1. PICK a \in Arguments : Enter("app", a) /\ UNCHANGED pc
  BY DEF SetCrop
<1>2. a \in Args
  BY ArgumentsType
<1>3. UNCHANGED <<crop, ppCrop, enable, in, out, settled, pc>>
  BY <1>1 DEF Enter
<1>4. PPTypes /\ StreamCalls /\ Undisturbed /\ SettledFits /\ "app" \in Threads
  BY DEF PPInv, Threads
<1>5. /\ call'["app"] \in Calls /\ call'["app"].args = Aligned(a)
      /\ call'["stream"] = call["stream"]
      /\ call' \in [Threads -> Calls \cup {None}]
      /\ mixed' \in BOOLEAN
      /\ ~mixed' => call["stream"] = None
  BY <1>1, <1>2, <1>4, EnterTypes DEF Threads
<1>6. call'["app"].configured = Configured
  BY <1>1, <1>4 DEF Enter, PPTypes
<1>7. PPTypes'
  BY <1>3, <1>4, <1>5 DEF PPTypes
<1>8. StreamCalls'
  BY <1>3, <1>4, <1>5 DEF StreamCalls
<1>9. Undisturbed'
  <2>1. Accepted(Aligned(a))
    BY <1>1 DEF Enter
  <2>2. StillAccepted("app")'
    BY <1>3, <1>5, <1>6, <2>1 DEF StillAccepted, Configured, Accepted, With
  <2> QED
    BY <1>3, <1>4, <1>5, <2>2 DEF Undisturbed, StreamCalls
<1>10. SettledFits'
  BY <1>3, <1>4 DEF SettledFits, Accepted, With, Configured
<1> QED
  BY <1>7, <1>8, <1>9, <1>10 DEF PPInv

LEMMA CropSetKeeps == PPInv /\ CropSet => PPInv'
<1> SUFFICES ASSUME PPInv, CropSet PROVE PPInv'
  OBVIOUS
<1>1. /\ Leave("app") /\ UNCHANGED <<pc, settled, in, out, mixed>>
      /\ call["app"] # None
  BY DEF CropSet, Leave
<1>2. PPTypes /\ StreamCalls /\ Undisturbed /\ SettledFits /\ "app" \in Threads
  BY DEF PPInv, Threads
<1>3. /\ crop' \in AlignedCrops /\ ppCrop' \in AlignedCrops
      /\ enable' \in BOOLEAN
      /\ call' \in [Threads -> Calls \cup {None}]
      /\ call'["app"] = None /\ call'["stream"] = call["stream"]
  BY <1>1, <1>2, ApplyTypes DEF Threads
<1>4. PPTypes'
  BY <1>1, <1>2, <1>3 DEF PPTypes
<1>5. StreamCalls' /\ Undisturbed'
  BY <1>1, <1>2, <1>3 DEF StreamCalls, Undisturbed
<1>6. SettledFits'
  <2> SUFFICES ASSUME settled PROVE SettledFits'
    BY <1>1 DEF SettledFits
  <2>1. StillAccepted("app") /\ Accepted(crop)
    BY <1>1, <1>2 DEF Undisturbed, SettledFits
  <2> QED
    BY <1>1, <1>2, <2>1, ApplySettles DEF SettledFits
<1> QED
  BY <1>4, <1>5, <1>6 DEF PPInv

LEMMA OpenPPKeeps == PPInv /\ OpenPP => PPInv'
<1> SUFFICES ASSUME PPInv, OpenPP PROVE PPInv'
  OBVIOUS
<1>1. /\ UNCHANGED <<crop, out, call, mixed>> /\ pc' = "idle"
      /\ in' = NoPicture /\ ppCrop' = NoCrop
      /\ out = None /\ enable' = FALSE /\ pc = "closed"
      /\ \A t \in Threads : call[t] = None
  BY DEF OpenPP, Idle
<1>2. PPTypes /\ StreamCalls
  BY DEF PPInv
<1>3. PPTypes'
  <2>1. in' \in Size /\ in'.w = 0 /\ in'.h = 0
    BY <1>1 DEF NoPicture, Size
  <2>2. enable' \in BOOLEAN /\ settled' \in BOOLEAN
    BY DEF OpenPP
  <2>3. NoCrop \in AlignedCrops
    BY DEF NoCrop, AlignedCrops, Crops
  <2> QED
    BY <1>1, <1>2, <2>1, <2>2, <2>3 DEF PPTypes
<1>4. StreamCalls' /\ Undisturbed'
  BY <1>1 DEF StreamCalls, Undisturbed, Threads
<1>5. Accepted(crop)'
  BY <1>1 DEF Accepted, Inside, NoPicture
<1> QED
  BY <1>1, <1>3, <1>4, <1>5 DEF PPInv, SettledFits, Configured, NoPicture

LEMMA StopStreamKeeps == PPInv /\ StopStream => PPInv'
<1> SUFFICES ASSUME PPInv, StopStream PROVE PPInv'
  OBVIOUS
<1>1. /\ UNCHANGED <<crop, ppCrop, enable, in, call, pc, mixed, settled>>
      /\ out' = None /\ pc = "idle" /\ \A t \in Threads : call[t] = None
  BY DEF StopStream, Idle
<1>2. PPTypes /\ SettledFits
  BY DEF PPInv
<1>3. PPTypes' /\ StreamCalls' /\ Undisturbed'
  BY <1>1, <1>2 DEF PPTypes, StreamCalls, Undisturbed, Threads
<1>4. settled => Accepted(crop)'
  BY <1>1, <1>2 DEF SettledFits, Accepted, With
<1> QED
  BY <1>1, <1>2, <1>3, <1>4 DEF PPInv, SettledFits, Configured

LEMMA ClosePPKeeps == PPInv /\ ClosePP => PPInv'
<1> SUFFICES ASSUME PPInv, ClosePP PROVE PPInv'
  OBVIOUS
<1>1. /\ UNCHANGED <<crop, ppCrop, enable, in, out, call, mixed, settled>>
      /\ pc' = "closed" /\ pc = "idle" /\ \A t \in Threads : call[t] = None
  BY DEF ClosePP, Idle
<1>2. PPTypes' /\ StreamCalls' /\ Undisturbed'
  BY <1>1 DEF PPInv, PPTypes, StreamCalls, Undisturbed, Threads
<1> QED
  BY <1>1, <1>2 DEF PPInv, SettledFits, Configured, Accepted, With

LEMMA HeaderKeeps ==
    ASSUME NEW p \in Pictures
    PROVE  PPInv /\ Header(p) => PPInv'
<1> SUFFICES ASSUME PPInv, Header(p) PROVE PPInv'
  OBVIOUS
<1>1. /\ UNCHANGED <<crop, ppCrop, enable, call, mixed>>
      /\ in' = p /\ out' \in {p, out} /\ pc' = "config" /\ ~settled' /\ pc = "idle"
      /\ settled' \in BOOLEAN
  BY DEF Header
<1>2. p \in Size /\ (p.w = 0 <=> p.h = 0)
  BY CropAssumption DEF Size
<1>3. PPTypes'
  BY <1>1, <1>2 DEF PPInv, PPTypes
<1>4. StreamCalls' /\ Undisturbed' /\ SettledFits'
  BY <1>1 DEF PPInv, StreamCalls, Undisturbed, SettledFits
<1> QED
  BY <1>3, <1>4 DEF PPInv

LEMMA SetOutputKeeps ==
    ASSUME NEW o \in Outputs
    PROVE  PPInv /\ SetOutput(o) => PPInv'
<1> SUFFICES ASSUME PPInv, SetOutput(o) PROVE PPInv'
  OBVIOUS
<1>1. /\ UNCHANGED <<crop, ppCrop, enable, in, call, mixed>>
      /\ out' = o /\ pc' = "negotiate" /\ ~settled' /\ pc = "idle"
      /\ settled' \in BOOLEAN
  BY DEF SetOutput
<1>2. PPTypes'
  BY <1>1, CropAssumption DEF PPInv, PPTypes
<1>3. StreamCalls' /\ Undisturbed' /\ SettledFits'
  BY <1>1 DEF PPInv, StreamCalls, Undisturbed, SettledFits
<1> QED
  BY <1>2, <1>3 DEF PPInv

(* Neither step touches what is configured. *)
LEMMA NegotiatedKeeps == PPInv /\ (Negotiated \/ Refuse) => PPInv'
<1> SUFFICES ASSUME PPInv, Negotiated \/ Refuse PROVE PPInv'
  OBVIOUS
<1>1. /\ UNCHANGED <<crop, ppCrop, enable, in, out, call, mixed, settled>>
      /\ pc \in {"negotiate", "config"} /\ pc' \in {"config", "idle"}
  BY DEF Negotiated, Refuse
<1>2. PPTypes' /\ StreamCalls' /\ Undisturbed'
  BY <1>1 DEF PPInv, PPTypes, StreamCalls, Undisturbed
<1>3. ~settled
  BY <1>1 DEF PPInv, StreamCalls
<1> QED
  BY <1>1, <1>2, <1>3 DEF PPInv, SettledFits

LEMMA ReconfigureKeeps == PPInv /\ Reconfigure => PPInv'
<1> SUFFICES ASSUME PPInv, Reconfigure PROVE PPInv'
  OBVIOUS
<1>1. /\ UNCHANGED <<crop, ppCrop, enable, in, out, settled>>
      /\ Enter("stream", crop) /\ pc = "config" /\ pc' = "apply"
  BY DEF Reconfigure, Enter, OwnCrop
<1>2. PPTypes /\ StreamCalls /\ "stream" \in Threads
  BY DEF PPInv, Threads
<1>3. crop \in Args /\ Aligned(crop) = crop
  BY <1>2, CropIsArgument DEF PPTypes, AlignedArgs
<1>4. /\ call'["stream"] \in Calls /\ call'["stream"].args = crop
      /\ call'["stream"] # None /\ call'["app"] = call["app"]
      /\ call' \in [Threads -> Calls \cup {None}]
      /\ mixed' \in BOOLEAN
      /\ ~mixed' => call["app"] = None
  BY <1>1, <1>2, <1>3, EnterTypes DEF Threads
<1>5. ~settled
  BY <1>1, <1>2 DEF StreamCalls
<1>6. StillAccepted("stream")'
  <2>1. Accepted(crop)
    BY <1>1, <1>3 DEF Enter
  <2>2. call'["stream"].configured = Configured
    BY <1>1, <1>2 DEF Enter, PPTypes
  <2> QED
    BY <1>1, <1>4, <2>1, <2>2 DEF StillAccepted, Configured, Accepted, With
<1> QED
  BY <1>1, <1>2, <1>4, <1>5, <1>6 DEF PPInv, PPTypes, StreamCalls, Undisturbed, SettledFits

LEMMA ReconfiguredKeeps ==
    PPInv /\ Reconfigured => PPInv' /\ (~mixed => UNCHANGED crop)
<1> SUFFICES ASSUME PPInv, Reconfigured
             PROVE  PPInv' /\ (~mixed => UNCHANGED crop)
  OBVIOUS
<1>1. /\ Leave("stream") /\ UNCHANGED <<in, out, mixed>>
      /\ pc = "apply" /\ pc' = "idle" /\ settled' = ~mixed
  BY DEF Reconfigured, Leave
<1>2. PPTypes /\ StreamCalls /\ Undisturbed /\ "stream" \in Threads
  BY DEF PPInv, Threads
<1>3. /\ crop' \in AlignedCrops /\ ppCrop' \in AlignedCrops
      /\ enable' \in BOOLEAN
      /\ call' \in [Threads -> Calls \cup {None}]
      /\ call'["stream"] = None /\ call'["app"] = call["app"]
  BY <1>1, <1>2, ApplyTypes DEF Threads
<1>4. ASSUME ~mixed
      PROVE  /\ StillAccepted("stream") /\ Accepted(crop)
             /\ call["app"] = None /\ crop' = crop
  <2>1. StillAccepted("stream") /\ call["stream"].args = crop /\ call["app"] = None
    BY <1>1, <1>2, <1>4 DEF Undisturbed
  <2>2. Accepted(crop)
    BY <2>1 DEF StillAccepted
  <2>3. crop' = With(crop)
    BY <1>1, <2>1 DEF Leave, Apply
  <2>4. With(crop) = crop
    BY <1>2, CropIsArgument, WithType DEF PPTypes
  <2> QED
    BY <2>1, <2>2, <2>3, <2>4
<1>5. PPTypes'
  BY <1>1, <1>2, <1>3 DEF PPTypes
<1>6. StreamCalls' /\ Undisturbed'
  BY <1>1, <1>3, <1>4 DEF StreamCalls, Undisturbed
<1>7. SettledFits'
  <2> SUFFICES ASSUME ~mixed PROVE SettledFits'
    BY <1>1 DEF SettledFits
  <2> QED
    BY <1>1, <1>2, <1>4, ApplySettles DEF SettledFits
<1> QED
  BY <1>4, <1>5, <1>6, <1>7 DEF PPInv

LEMMA PPStepKeeps == PPInv /\ [PPNext]_ppVars => PPInv'
<1> SUFFICES ASSUME PPInv, [PPNext]_ppVars PROVE PPInv'
  OBVIOUS
<1>1. CASE AppStep
  BY <1>1, SetCropKeeps, CropSetKeeps, OpenPPKeeps, StopStreamKeeps, ClosePPKeeps
     DEF AppStep
<1>2. CASE StreamStep
  BY <1>2, HeaderKeeps, SetOutputKeeps, NegotiatedKeeps, ReconfigureKeeps,
     ReconfiguredKeeps DEF StreamStep
<1>3. CASE UNCHANGED ppVars
  BY <1>3 DEF ppVars, PPInv, PPTypes, StreamCalls, Undisturbed, SettledFits,
     StillAccepted, Accepted, With, Configured
<1> QED
  BY <1>1, <1>2, <1>3 DEF PPNext

-----------------------------------------------------------------------------
(* The properties. *)

(* The invariant holds throughout, with any interleaving of the threads. *)
THEOREM PPInvariant == PPSpec => []PPInv
BY PPInitInv, PPStepKeeps, PTL DEF PPSpec

(* Every variable keeps to its values, and every crop of config_crop is    *)
(* aligned, whichever arguments it was given.                              *)
THEOREM PPTyped == PPSpec => []PPTypeOK
<1>1. PPInv => PPTypeOK
  <2> SUFFICES ASSUME PPTypes PROVE PPTypeOK
    BY DEF PPInv
  <2> QED
    BY DEF PPTypes, PPTypeOK, AlignedCrops, Calls
<1> QED
  BY <1>1, PPInvariant, PTL

(* A settled post processor crops to what the properties of the element    *)
(* say, whatever the threads did to one another before.                    *)
THEOREM PPAgreement == PPSpec => []PPAgrees
<1>1. PPInv => PPAgrees
  BY DEF PPInv, SettledFits, PPAgrees
<1> QED
  BY <1>1, PPInvariant, PTL

(* And that crop lies in the picture and is large enough for the output,   *)
(* for every picture, output and crop.                                     *)
THEOREM CropSuits == PPSpec => []CropFits
<1>1. PPInv => CropFits
  <2> SUFFICES ASSUME PPInv, settled, enable PROVE CropFits
    BY DEF CropFits
  <2>1. /\ PPTypes /\ Accepted(crop) /\ crop \in AlignedCrops
        /\ in.w # 0 /\ in.h # 0 /\ crop.w # 0 /\ crop.h # 0
    BY DEF PPInv, PPTypes, SettledFits
  <2>2. /\ out # None /\ crop.w # 0 => Third(crop.w, out.w, 0)
        /\ out # None /\ crop.h # 0 => Third(crop.h, out.h, 2)
        /\ Inside(crop.x, crop.w, in.w) /\ Inside(crop.y, crop.h, in.h)
    BY <2>1, WholeCrop
  <2> QED
    BY <2>1, <2>2 DEF CropFits, Inside
<1> QED
  BY <1>1, PPInvariant, PTL

(* Reconfiguring alone leaves the crop that the application asked for.     *)
THEOREM CropKept == PPSpec => SettingsKept
<1>1. PPInv /\ [PPNext]_ppVars => [Reconfigured /\ ~mixed => UNCHANGED crop]_ppVars
  BY ReconfiguredKeeps
<1> QED
  BY <1>1, PPInvariant, PTL DEF PPSpec, SettingsKept

=============================================================================
