------------------------------ MODULE DrmSink ------------------------------
(***************************************************************************)
(* The device half of GstDrmsink (sys/drmsink/gstdrmsink.c): the DRM       *)
(* device it opens and closes, the video memory it allocates lazily, and   *)
(* the page flips it asks the display for and is told of by events.        *)
(*                                                                         *)
(* The operators are the calls FramebufferSink makes, and one step of the  *)
(* calls in which the display or the kernel may move meanwhile.            *)
(***************************************************************************)
EXTENDS Integers, FiniteSets

CONSTANTS
    MaxFrames,   \* screens, or buffers of the pool, of one stream
    Capacity,    \* frames the device has memory for
    Old,         \* stands for the frame buffers whose memory was given up
    None

Mems == 0..(MaxFrames - 1)

ASSUME DrmAssumption ==
    /\ MaxFrames \in Nat \ {0} /\ Capacity \in Nat
    /\ {Old, None} \cap Mems = {} /\ Old # None

VARIABLES
    fd,          \* the device is open
    planeSet,    \* set_plane_initialized
    pending,     \* page_flip_pending
    refused,     \* a page flip was refused since the device was opened
    mem,         \* the state of each memory
    fbs,         \* memories with a frame buffer: "fb" is valid
    orphans,     \* frame buffers on the device whose memory was given up
    physical,    \* the memory whose address the decoder was told
    flip,        \* what the display is about to show
    vblank,      \* an event was asked for at the next vertical blank
    events       \* events to be read from the device

sinkVars    == <<fd, planeSet, pending, refused>>
memoryVars  == <<mem, fbs, orphans, physical>>
displayVars == <<flip, vblank, events>>
drmVars == <<sinkVars, memoryVars, displayVars>>

Screens == Mems \cup {Old}

DrmTypeOK ==
    /\ fd \in BOOLEAN /\ planeSet \in BOOLEAN /\ pending \in BOOLEAN
    /\ refused \in BOOLEAN
    /\ mem \in [Mems -> {"none", "lazy", "actual"}]
    /\ fbs \subseteq Mems
    /\ orphans \in Nat
    /\ physical \in Screens \cup {None}
    /\ flip \in Screens \cup {None}
    /\ vblank \in BOOLEAN
    /\ events \subseteq {"flip", "vblank"}

(* gst_drmsink_init, gst_drmsink_reset. *)
DrmInit ==
    /\ fd = FALSE /\ planeSet = FALSE /\ pending = FALSE /\ refused = FALSE
    /\ mem = [m \in Mems |-> "none"] /\ fbs = {} /\ orphans = 0
    /\ physical = None
    /\ flip = None /\ vblank = FALSE /\ events = {}

-----------------------------------------------------------------------------
(* gst_drmsink_open_hardware.                                              *)

(* Without dumb buffers or a connector it returns with the device open;    *)
(* the other failures leave it closed, or close it.                        *)
OpenFails ==
    /\ fd' \in BOOLEAN
    /\ UNCHANGED <<planeSet, pending, refused, memoryVars, displayVars>>

OpenSucceeds_KeepsPending ==
    /\ fd' = TRUE /\ planeSet' = FALSE /\ refused' = FALSE
    /\ UNCHANGED <<pending, displayVars>>

OpenSucceeds ==
    /\ fd' = TRUE
    /\ planeSet' = FALSE /\ pending' = FALSE /\ refused' = FALSE
    /\ UNCHANGED displayVars

-----------------------------------------------------------------------------
(* Video memory.                                                           *)

(* Frames the device has given out.  Destroying a dumb buffer does not     *)
(* return its frame as long as the frame buffer made of it exists, and no  *)
(* call removes frame buffers: drmModeRmFB is given another object's name. *)
Used == Cardinality(fbs) + orphans

(* gst_drmsink_video_memory_allocator_alloc_actual, in the order of their  *)
(* numbers, on the memories of ok, which it maps, and of late, where it    *)
(* fails once the frame buffer is there, before or after it has told the   *)
(* decoder the address; elsewhere it fails before that.  The four values   *)
(* are those of memoryVars before.  A second attempt forgets the frame     *)
(* buffer of the first.                                                    *)
AllocActual_FirstOnly(mem0, fbs0, orphans0, physical0, ok, late) ==
    LET tried == ok \cup late
    IN  /\ Cardinality(fbs0) + orphans0 + Cardinality(tried) <= Capacity
        /\ mem' = [m \in Mems |-> IF m \in ok THEN "actual" ELSE mem0[m]]
        /\ fbs' = fbs0 \cup tried
        /\ orphans' = orphans0 + Cardinality(fbs0 \cap tried)
        /\ physical' \in IF physical0 # None THEN {physical0}
                         ELSE tried \cup {None}

AllocActual(mem0, fbs0, orphans0, physical0, ok, late) ==
    LET tried == ok \cup late
    IN  /\ Cardinality(fbs0) + orphans0 + Cardinality(tried) <= Capacity
        /\ mem' = [m \in Mems |-> IF m \in ok THEN "actual" ELSE mem0[m]]
        /\ fbs' = fbs0 \cup tried
        /\ orphans' = orphans0 + Cardinality(fbs0 \cap tried)
        /\ physical' \in {m \in tried : \A k \in ok : m >= k}
                         \cup (IF ok = {} THEN {physical0} ELSE {})

(* gst_drmsink_video_memory_map: the memory is allocated when it is mapped *)
(* for the first time.                                                     *)
MapMemory(m, mapped) ==
    IF mem[m] = "actual" THEN mapped /\ UNCHANGED memoryVars
    ELSE \E late \in {{}, {m}} :
            /\ mapped => late = {}
            /\ AllocActual(mem, fbs, orphans, physical,
                           IF mapped THEN {m} ELSE {}, late)

(* gst_drmsink_video_memory_allocator_free, or a memory whose owner        *)
(* forgets it: its frame buffer stays, and so does what the display is     *)
(* about to show.                                                          *)
Aged(s) == IF s \in Mems THEN Old ELSE s

Forget ==
    /\ flip' = Aged(flip)
    /\ UNCHANGED <<vblank, events>>

GiveUp ==
    /\ mem' = [m \in Mems |-> "none"]
    /\ fbs' = {} /\ orphans' = Used
    /\ physical' = Aged(physical)
    /\ Forget

-----------------------------------------------------------------------------
(* gst_drmsink_pan_display, in three steps.                                *)

(* What the field fb of a memory names: its frame buffer, or, before there *)
(* is one, any number at all.                                              *)
Named(m) == IF m \in fbs THEN {m}
            ELSE fbs \cup {None} \cup (IF orphans > 0 THEN {Old} ELSE {})

(* The plane is set once, to the first memory displayed, or to what the    *)
(* field fb happens to name; what it shows has no variable of its own.     *)
SetPlane ==
    /\ planeSet' = TRUE
    /\ UNCHANGED <<fd, pending, refused, memoryVars, displayVars>>

SetPlaneFails == UNCHANGED drmVars

(* drmHandleEvent reads every event there is; the handler of page flips    *)
(* clears the flag, the one of vertical blanks does nothing.               *)
HandleEvents_AnyEvent ==
    /\ events # {}
    /\ events' = {} /\ pending' = FALSE
    /\ UNCHANGED <<fd, planeSet, refused, memoryVars, flip, vblank>>

HandleEvents ==
    /\ events # {}
    /\ events' = {}
    /\ pending' = (pending /\ "flip" \notin events)
    /\ UNCHANGED <<fd, planeSet, refused, memoryVars, flip, vblank>>

SkipFlip == pending /\ UNCHANGED drmVars

(* The display takes one flip at a time. *)
AskFlip_Again(m) ==
    /\ pending' = TRUE
    /\ flip = None /\ flip' \in Named(m) \ {None}
    /\ UNCHANGED <<fd, planeSet, refused, memoryVars, vblank, events>>

AskFlip(m) ==
    /\ ~pending
    /\ pending' = TRUE
    /\ flip = None /\ flip' \in Named(m) \ {None}
    /\ UNCHANGED <<fd, planeSet, refused, memoryVars, vblank, events>>

FlipFails ==
    /\ ~pending
    /\ pending' = TRUE /\ refused' = TRUE
    /\ UNCHANGED <<fd, planeSet, memoryVars, displayVars>>

(* gst_drmsink_wait_for_vsync asks for an event, if the kernel takes the   *)
(* request, and so does not wait.                                          *)
WaitForVsync(wanted) ==
    vblank' \in IF wanted THEN {vblank, TRUE} ELSE {vblank}

(* gst_drmsink_close_hardware, once the wait for the flip has ended, with  *)
(* the flip or after five seconds.  Frame buffers and events end with the  *)
(* descriptor.                                                             *)
CloseDevice ==
    /\ fd' = FALSE
    /\ fbs' = {} /\ orphans' = 0
    /\ flip' = None /\ vblank' = FALSE /\ events' = {}
    /\ UNCHANGED <<planeSet, pending, refused, mem, physical>>

-----------------------------------------------------------------------------
(* The display. *)

FlipDone ==
    /\ flip # None
    /\ flip' = None /\ events' = events \cup {"flip"}
    /\ UNCHANGED <<sinkVars, memoryVars, vblank>>

VerticalBlank ==
    /\ vblank
    /\ vblank' = FALSE /\ events' = events \cup {"vblank"}
    /\ UNCHANGED <<sinkVars, memoryVars, flip>>
=============================================================================
