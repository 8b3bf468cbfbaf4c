------------------------------ MODULE PPConfig ------------------------------
(***************************************************************************)
(* The cropping of the post processor (ext/g1/gstg1basedec.c): the crop    *)
(* properties as the element keeps them, and as ppconfig holds them for    *)
(* the next PPSetConfig.                                                   *)
(*                                                                         *)
(* gst_g1_base_dec_config_crop checks its arguments against the sizes of   *)
(* the picture and of the output, and then writes both.  The application   *)
(* calls it with one argument from set_property; the streaming thread with *)
(* the element's own four whenever one of the sizes has changed.  Nothing  *)
(* is locked, so a call is two steps here, between which the other thread  *)
(* may take any of its own.                                                *)
(***************************************************************************)
EXTENDS Integers

CONSTANTS
    Positions,   \* what the application may set crop-x and crop-y to
    Extents,     \* what it may set crop-width and crop-height to
    Pictures,    \* the sizes of picture that headers announce
    Outputs,     \* the sizes that downstream's caps ask for, 1 for a range
    None

Size == [w : Nat, h : Nat]

(* The argument that leaves a value as it is. *)
Keep == -1

Args == LET values == Nat \cup {Keep}
        IN  [x : values, y : values, w : values, h : values]

(* What a thread holds from the checks of config_crop to the end of it. *)
CropCalls == [args : Args, configured : BOOLEAN]

ASSUME CropAssumption ==
    /\ Positions \subseteq 0..4096 /\ Extents \subseteq 0..4672
    /\ Pictures \subseteq [w : Nat \ {0}, h : Nat \ {0}]
    /\ Outputs \subseteq Size
    /\ None \notin Size \cup CropCalls

VARIABLES
    crop,     \* crop_x, crop_y, crop_width, crop_height
    ppCrop,   \* the same in ppconfig.ppInCrop
    enable,   \* ppconfig.ppInCrop.enable
    in,       \* ppconfig.ppInImg: the size of the picture, 0 by 0 at first
    out,      \* the size of the output state, or None when there is none
    call,     \* the call of config_crop each thread is in
    pc,       \* what the streaming thread does
    mixed,    \* calls overlapped
    settled   \* the last change of a size was followed by a call of the
              \* streaming thread that was accepted and overlapped no other

ppVars == <<crop, ppCrop, enable, in, out, call, pc, mixed, settled>>

Threads == {"app", "stream"}

NoPicture == [w |-> 0, h |-> 0]
NoCrop == [x |-> 0, y |-> 0, w |-> 0, h |-> 0]

Given(a, old) == IF a = Keep THEN old ELSE a

AlignTo(a, n) == IF a = Keep THEN Keep ELSE a - (a % n)

Aligned_Not(a) == a
Aligned(a) ==
    [x |-> AlignTo(a.x, 16), y |-> AlignTo(a.y, 16),
     w |-> AlignTo(a.w, 8),  h |-> AlignTo(a.h, 8)]

(* The crop with the arguments given taking the place of its values. *)
With(a) == [x |-> Given(a.x, crop.x), y |-> Given(a.y, crop.y),
            w |-> Given(a.w, crop.w), h |-> Given(a.h, crop.h)]

(* The axis of a crop lies in a picture of that size; nothing is known of  *)
(* a size of 0.                                                            *)
Inside(position, extent, size) == size = 0 \/ position + extent <= size

(* A side is at least a third of the output's, with so much to spare. *)
Third(extent, size, spare) == size = 0 \/ 3 * extent - spare >= size

(* The checks, each for the arguments that are given. *)
Accepted_Alone(a) ==
    /\ out # None /\ a.w \notin {0, Keep} => Third(a.w, out.w, 0)
    /\ out # None /\ a.h \notin {0, Keep} => Third(a.h, out.h, 2)
    /\ Inside(Given(a.x, 0), Given(a.w, 0), in.w)
    /\ Inside(Given(a.y, 0), Given(a.h, 0), in.h)

Accepted(a) ==
    /\ out # None /\ a.w \notin {0, Keep} => Third(a.w, out.w, 0)
    /\ out # None /\ a.h \notin {0, Keep} => Third(a.h, out.h, 2)
    /\ a.x # Keep \/ a.w # Keep => Inside(With(a).x, With(a).w, in.w)
    /\ a.y # Keep \/ a.h # Keep => Inside(With(a).y, With(a).h, in.h)

Configured == in.w # 0 /\ out # None

Idle == call = [t \in Threads |-> None]

-----------------------------------------------------------------------------
(* gst_g1_base_dec_init, with an element that was never opened. *)
PPInit ==
    /\ crop = NoCrop /\ ppCrop = NoCrop /\ enable = FALSE
    /\ in = NoPicture /\ out = None
    /\ call = [t \in Threads |-> None] /\ pc = "closed"
    /\ mixed = FALSE /\ settled = TRUE

(* A call up to its last check: what it goes on with if all are passed.    *)
Enter(t, a) ==
    /\ call[t] = None /\ Accepted(Aligned(a))
    /\ call' = [call EXCEPT ![t] = [args |-> Aligned(a),
                                    configured |-> Configured]]
    /\ mixed' = ~Idle
    /\ UNCHANGED <<crop, ppCrop, enable, in, out, settled>>

(* The rest of it. *)
Apply_Enables(t) ==
    LET new == With(call[t].args)
    IN  /\ crop' = new
        /\ ppCrop' = IF call[t].configured THEN new ELSE ppCrop
        /\ enable' = (enable \/ (call[t].configured /\ new.w # 0))

Apply(t) ==
    LET new == With(call[t].args)
    IN  /\ crop' = new
        /\ ppCrop' = IF call[t].configured THEN new ELSE ppCrop
        /\ enable' = (call[t].configured /\ new.w # 0 /\ new.h # 0)

Leave(t) ==
    /\ call[t] # None
    /\ Apply(t)
    /\ call' = [call EXCEPT ![t] = None]
    /\ UNCHANGED <<in, out, mixed>>

-----------------------------------------------------------------------------
(* The application's thread.                                               *)

(* gst_g1_base_dec_set_property, of one crop property. *)
Arguments ==
    LET nothing == [x |-> Keep, y |-> Keep, w |-> Keep, h |-> Keep]
    IN  {[nothing EXCEPT !.x = v] : v \in Positions}
        \cup {[nothing EXCEPT !.y = v] : v \in Positions}
        \cup {[nothing EXCEPT !.w = v] : v \in Extents}
        \cup {[nothing EXCEPT !.h = v] : v \in Extents}

SetCrop == \E a \in Arguments : Enter("app", a) /\ UNCHANGED pc

CropSet == Leave("app") /\ UNCHANGED <<pc, settled>>

(* gst_g1_base_dec_setup_pp, from open: there is neither picture nor       *)
(* output, so the crop passes every check and is not enabled.  ppconfig    *)
(* becomes what PPGetConfig reports of the new instance, taken as no crop. *)
OpenPP ==
    /\ pc = "closed" /\ Idle /\ out = None
    /\ in' = NoPicture /\ ppCrop' = NoCrop /\ enable' = FALSE
    /\ pc' = "idle" /\ settled' = TRUE
    /\ UNCHANGED <<crop, out, call, mixed>>

(* The base class forgets the output state when the element is stopped;    *)
(* ppconfig stays as it is, also when the element is closed.               *)
StopStream ==
    /\ pc = "idle" /\ Idle
    /\ out' = None
    /\ UNCHANGED <<crop, ppCrop, enable, in, call, pc, mixed, settled>>

ClosePP ==
    /\ pc = "idle" /\ Idle /\ out = None
    /\ pc' = "closed"
    /\ UNCHANGED <<crop, ppCrop, enable, in, out, call, mixed, settled>>

-----------------------------------------------------------------------------
(* The streaming thread.                                                   *)

(* The parse_header of the codecs: with caps that left a size open, the    *)
(* output takes the picture's; then gst_g1_base_dec_config_format.         *)
Header(picture) ==
    /\ pc = "idle"
    /\ in' = picture
    /\ out' = IF out # None /\ 1 \in {out.w, out.h} THEN picture ELSE out
    /\ pc' = "config" /\ settled' = FALSE
    /\ UNCHANGED <<crop, ppCrop, enable, call, mixed>>

(* gst_g1_base_dec_set_format, before and after it negotiates. *)
SetOutput(size) ==
    /\ pc = "idle"
    /\ out' = size
    /\ pc' = "negotiate" /\ settled' = FALSE
    /\ UNCHANGED <<crop, ppCrop, enable, in, call, mixed>>

Negotiated ==
    /\ pc = "negotiate"
    /\ pc' = "config"
    /\ UNCHANGED <<crop, ppCrop, enable, in, out, call, mixed, settled>>

(* config_crop with the element's own crop. *)
OwnCrop_Swapped == [x |-> crop.x, y |-> crop.y, w |-> crop.h, h |-> crop.w]
OwnCrop == crop

Reconfigure == pc = "config" /\ Enter("stream", OwnCrop) /\ pc' = "apply"

(* The crop does not suit the new sizes: an earlier one stays enabled. *)
Refuse ==
    /\ pc = "config" /\ ~Accepted(Aligned(OwnCrop))
    /\ pc' = "idle"
    /\ UNCHANGED <<crop, ppCrop, enable, in, out, call, mixed, settled>>

Reconfigured ==
    /\ pc = "apply"
    /\ Leave("stream")
    /\ pc' = "idle"
    /\ settled' = ~mixed

AppStep == SetCrop \/ CropSet \/ OpenPP \/ StopStream \/ ClosePP

StreamStep ==
    \/ \E p \in Pictures : Header(p)
    \/ \E o \in Outputs : SetOutput(o)
    \/ Negotiated \/ Reconfigure \/ Refuse \/ Reconfigured

PPNext == AppStep \/ StreamStep

PPSpec == PPInit /\ [][PPNext]_ppVars

-----------------------------------------------------------------------------
(* Properties.                                                             *)

Crops == [x : Nat, y : Nat, w : Nat, h : Nat]

(* Every variable keeps to its values, and what is kept is aligned as the  *)
(* post processor needs it.                                                *)
PPTypeOK ==
    /\ crop \in Crops /\ ppCrop \in Crops /\ enable \in BOOLEAN
    /\ \A c \in {crop, ppCrop} :
          c.x % 16 = 0 /\ c.y % 16 = 0 /\ c.w % 8 = 0 /\ c.h % 8 = 0
    /\ in \in Size /\ out \in Size \cup {None}
    /\ call \in [Threads -> CropCalls \cup {None}]
    /\ pc \in {"closed", "idle", "negotiate", "config", "apply"}
    /\ mixed \in BOOLEAN /\ settled \in BOOLEAN

(* Whatever the threads did to one another, once the streaming thread has  *)
(* gone through a change of the sizes undisturbed, the post processor      *)
(* crops to what the properties say, if they say anything.                 *)
PPAgrees ==
    settled /\ Idle =>
        /\ enable => ppCrop = crop
        /\ Configured => (enable <=> crop.w # 0 /\ crop.h # 0)

(* And then what it crops to is a part of the picture, and large enough    *)
(* for the output, as the checks of config_crop are for, although no call  *)
(* of the application checks more than one side.                           *)
CropFits ==
    settled /\ Idle /\ enable =>
        /\ crop.x + crop.w <= in.w /\ crop.y + crop.h <= in.h
        /\ out # None => Third(crop.w, out.w, 0) /\ Third(crop.h, out.h, 2)

(* Reconfiguring never changes what the application asked for, unless the  *)
(* application sets a property meanwhile.                                  *)
SettingsKept == [][Reconfigured /\ ~mixed => UNCHANGED crop]_ppVars
=============================================================================
