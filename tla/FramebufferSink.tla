--------------------------- MODULE FramebufferSink ---------------------------
(***************************************************************************)
(* GstFramebufferSink (sys/drmsink/gstframebuffersink.c) over the DRM      *)
(* device of DrmSink: the screens or the pool it gets for a stream, and    *)
(* how each frame is brought to one of them and shown.                     *)
(*                                                                         *)
(* The application's thread starts, resets and stops the sink and sets its *)
(* properties; the streaming thread negotiates and shows frames, one step  *)
(* of show_frame at a time; the display runs on its own.  As GStreamer     *)
(* stops the streaming thread before it resets or stops a sink, one pc     *)
(* serves the two.                                                         *)
(*                                                                         *)
(* Settings are the properties of the element, a setting one choice of     *)
(* them: zero (zero-memcpy), pool (buffer-pool), vsync, pan                *)
(* (pan-does-vsync), flips (flip-buffers), clear, memory (the frames that  *)
(* fit in video-memory), and benchmark.  A frame is as wide as the screen  *)
(* ("full") or not ("part").                                               *)
(***************************************************************************)
EXTENDS DrmSink

CONSTANTS
    Settings,    \* the settings the application chooses from
    Sizes        \* the sizes of frame that upstream sends

ASSUME SinkAssumption ==
    /\ Sizes \subseteq {"full", "part"}
    /\ Settings \subseteq
         [zero : BOOLEAN, pool : BOOLEAN, vsync : BOOLEAN, pan : BOOLEAN,
          clear : BOOLEAN, benchmark : BOOLEAN,
          flips : Nat, memory : 0..MaxFrames]

VARIABLES
    state,       \* of the element: "null", "ready" or "paused"
    set,         \* the properties
    usePool,     \* use_buffer_pool
    vsync,       \* the property, as start and reset read it
    maxFrames,   \* max_framebuffers
    info,        \* video_info: the size of the frames, or None
    output,      \* a CRTC, and with it a plane, was found
    slots,       \* memories that screens points to, 0 when it is NULL
    used,        \* nu_screens_used
    index,       \* current_framebuffer_index
    overrun,     \* since the last reset a frame was copied to a single
                 \* screen, or set_caps made fewer screens than before
    pool,        \* the pool, by the size it was made for, or None
    buffers,     \* upstream has the pool, by the same, or None
    pc,          \* what the streaming thread or the closing of the device does
    frame        \* the memory that show_frame displays, or None

configVars == <<state, set, usePool, vsync, maxFrames, info, output>>
screenVars == <<slots, used, index, overrun>>
poolVars   == <<pool, buffers>>
vars == <<drmVars, configVars, screenVars, poolVars, pc, frame>>

Init ==
    /\ DrmInit
    /\ state = "null" /\ set \in Settings
    /\ usePool = FALSE /\ vsync = FALSE /\ maxFrames = 0 /\ info = None
    /\ output = FALSE
    /\ slots = 0 /\ used = 0 /\ index = 0 /\ overrun = FALSE
    /\ pool = None /\ buffers = None
    /\ pc = "idle" /\ frame = None

(* At any time, a frame being shown included.  The setters only assign:    *)
(* zero-memcpy and pan-does-vsync are read with each frame, zero-memcpy,   *)
(* flip-buffers and clear by set_caps, the others by start and reset.      *)
SetProperty ==
    /\ pc \notin {"no screen", "no output"}
    /\ set' \in Settings
    /\ UNCHANGED <<drmVars, state, usePool, vsync, maxFrames, info, output,
                   screenVars, poolVars, pc, frame>>

-----------------------------------------------------------------------------
(* gst_framebuffersink_start.                                              *)

StartFails ==
    /\ state = "null" /\ pc = "idle"
    /\ OpenFails
    /\ usePool' = set.pool /\ vsync' = set.vsync
    /\ UNCHANGED <<state, set, maxFrames, info, output, screenVars, poolVars,
                   pc, frame>>

(* No mode or no plane was found, which open_hardware ignores: it writes   *)
(* through the plane's null pointer, or start divides the video memory by  *)
(* the size of a screen of no pixels.                                      *)
StartCrashes ==
    /\ state = "null" /\ pc = "idle"
    /\ pc' = "no output"
    /\ UNCHANGED <<drmVars, configVars, screenVars, poolVars, frame>>

(* gst_framebuffersink_benchmark maps its buffers without looking at the   *)
(* result.  Freed, they leave their frame buffers behind.                  *)
Benchmark ==
    /\ orphans' = orphans + set.memory
    /\ orphans' <= Capacity
    /\ physical' = IF set.memory = 0 THEN physical ELSE Old
    /\ UNCHANGED <<mem, fbs>>

(* That no CRTC was found is ignored as well, until the plane or the saved *)
(* CRTC is used.                                                           *)
Start ==
    /\ state = "null" /\ pc = "idle"
    /\ OpenSucceeds
    /\ IF set.benchmark THEN Benchmark ELSE UNCHANGED memoryVars
    /\ state' = "ready"
    /\ usePool' = set.pool /\ vsync' = set.vsync
    /\ maxFrames' = set.memory
    /\ output' \in BOOLEAN
    /\ slots' = 0 /\ used' = 0 /\ index' = 0 /\ overrun' = FALSE
    /\ UNCHANGED <<set, info, poolVars, pc, frame>>

ReadyToPaused ==
    /\ state = "ready" /\ pc = "idle"
    /\ state' = "paused"
    /\ UNCHANGED <<drmVars, set, usePool, vsync, maxFrames, info, output,
                   screenVars, poolVars, pc, frame>>

-----------------------------------------------------------------------------
(* gst_framebuffersink_set_caps, which returns at once when the video info *)
(* is the one it knows.                                                    *)

(* Caps of another size, which is as wide as the screen or not. *)
NewCaps(size) == state = "paused" /\ pc = "idle" /\ size # info

(* flip-buffers lowers the number of frames until the next start. *)
Limit_Unbounded == IF set.flips > 0 THEN set.flips ELSE maxFrames

Limit == IF set.flips \in 1..maxFrames THEN set.flips ELSE maxFrames

(* With flip-buffers 0, at most ten buffers in a pool and two screens if   *)
(* there is room for more than three.                                      *)
ScreensFor(pooled) ==
    IF Limit < 2 THEN 1
    ELSE IF set.flips = 0 /\ pooled /\ Limit > 10 THEN 10
    ELSE IF set.flips = 0 /\ ~pooled /\ Limit > 3 THEN 2
    ELSE Limit

Poolable(size) == usePool /\ size = "full" /\ Limit >= 2

(* gst_framebuffersink_allocate_buffer_pool: the pool takes the place of   *)
(* the one before, if any; nothing is allocated before upstream uses it.   *)
SetCapsPool(size) ==
    /\ NewCaps(size) /\ Poolable(size)
    /\ maxFrames' = Limit /\ used' = ScreensFor(TRUE)
    /\ pool' = size /\ info' = size
    /\ UNCHANGED <<drmVars, state, set, usePool, vsync, output, slots, index,
                   overrun, buffers, pc, frame>>

(* gst_framebuffersink_clear_screen, for each of the new screens: it maps  *)
(* them, which allocates them, or fails to.  Those before are forgotten.   *)
ClearScreens(n) ==
    \E ok, late \in SUBSET {m \in Mems : set.clear /\ m < n} :
        /\ ok \cap late = {}
        /\ AllocActual([m \in Mems |-> IF m < n THEN "lazy" ELSE "none"],
                       {}, Used, Aged(physical), ok, late)

(* New screens take the place of those before, which nobody frees, and so  *)
(* they do when the configuration of a pool has failed.  Upstream, whose   *)
(* caps have changed, lets go of the pool it used.                         *)
SetCapsScreens(size) ==
    /\ NewCaps(size)
    /\ maxFrames' = Limit /\ usePool' = FALSE /\ info' = size
    /\ used' = IF set.zero THEN 1 ELSE ScreensFor(FALSE)
    /\ slots' = used'
    /\ overrun' = (overrun \/ slots' < slots)
    /\ ClearScreens(slots')
    /\ Forget
    /\ buffers' = None
    /\ UNCHANGED <<sinkVars, state, set, vsync, output, index, pool, pc,
                   frame>>

(* gst_framebuffersink_propose_allocation, asked for the caps negotiated:  *)
(* the pool changes hands if it was made for them, and upstream activates  *)
(* it.  Otherwise upstream gets a pool of system memory, or none.          *)
ProposePool ==
    /\ state = "paused" /\ pc = "idle"
    /\ pool # None /\ pool = info
    /\ pool' = None /\ buffers' = info
    /\ mem' = IF slots > 0 THEN mem
              ELSE [m \in Mems |-> IF m < used THEN "lazy" ELSE "none"]
    /\ UNCHANGED <<sinkVars, fbs, orphans, physical, displayVars, configVars,
                   screenVars, pc, frame>>

-----------------------------------------------------------------------------
(* gst_framebuffersink_show_frame.                                         *)

(* A frame arrives in system memory, or in a buffer of the pool that       *)
(* upstream has mapped and filled.                                         *)
FrameInSystemMemory ==
    /\ state = "paused" /\ pc = "idle" /\ info # None
    /\ pc' = "show" /\ frame' = None
    /\ UNCHANGED <<drmVars, configVars, screenVars, poolVars>>

FrameInVideoMemory(m) ==
    /\ state = "paused" /\ pc = "idle" /\ info # None
    /\ buffers = info /\ slots = 0 /\ mem[m] # "none"
    /\ MapMemory(m, TRUE)
    /\ pc' = "show" /\ frame' = m
    /\ UNCHANGED <<sinkVars, displayVars, configVars, screenVars, poolVars>>

(* A pool made before there were screens may still be handed over; then    *)
(* its buffers, of which upstream maps one more, are copied like others.   *)
FrameOfOldPool ==
    /\ state = "paused" /\ pc = "idle" /\ info # None
    /\ buffers = info /\ slots > 0
    /\ Used < Capacity
    /\ orphans' = orphans + 1 /\ physical' = Old
    /\ pc' = "show" /\ frame' = None
    /\ UNCHANGED <<sinkVars, mem, fbs, displayVars, configVars, screenVars,
                   poolVars>>

MemoryMode == ~set.zero /\ ~usePool

(* The screen of the current index, if screens has one. *)
HasScreen == index < slots

(* The memory of the input cannot be mapped: a flow error. *)
InputUnmapped ==
    /\ pc = "show" /\ (set.zero \/ MemoryMode)
    /\ pc' = "idle" /\ frame' = None
    /\ UNCHANGED <<drmVars, configVars, screenVars, poolVars>>

NoScreen ==
    /\ pc = "show" /\ (set.zero \/ MemoryMode) /\ ~HasScreen
    /\ pc' = "no screen"
    /\ UNCHANGED <<drmVars, configVars, screenVars, poolVars, frame>>

(* gst_framebuffersink_put_image_pan and its copies in the two functions   *)
(* that use screens; pan_display begins with the place of the plane.       *)
Pan(m) ==
    /\ frame' = m
    /\ pc' = IF ~output THEN "no output" ELSE IF planeSet THEN "flush" ELSE "plane"
    /\ UNCHANGED <<configVars, slots, index, poolVars>>

(* gst_framebuffersink_show_plane_overlay: upstream has written the screen *)
(* itself, at the address it was told.                                     *)
ShowPlane ==
    /\ pc = "show" /\ set.zero /\ HasScreen
    /\ WaitForVsync(vsync /\ (used = 1 \/ ~set.pan))
    /\ Pan(index)
    /\ UNCHANGED <<sinkVars, memoryVars, flip, events, used, overrun>>

(* gst_framebuffersink_put_image_memcpy, where a screen that cannot be     *)
(* mapped is left as it is.                                                *)
PutImage(m) == \E mapped \in BOOLEAN : MapMemory(m, mapped)

(* gst_framebuffersink_show_frame_memcpy shows the screen nevertheless.    *)
(* Its test of nu_screens_used assigns 2 to it.                            *)
CopyFrame ==
    /\ pc = "show" /\ MemoryMode /\ HasScreen
    /\ WaitForVsync(vsync /\ (used = 1 \/ ~set.pan))
    /\ PutImage(index)
    /\ used' = 2 /\ overrun' = (overrun \/ slots = 1)
    /\ Pan(index)
    /\ UNCHANGED <<sinkVars, flip, events>>

(* gst_framebuffersink_show_frame_buffer_pool. *)
ShowBuffer ==
    /\ pc = "show" /\ ~set.zero /\ usePool /\ frame # None
    /\ WaitForVsync(vsync /\ ~set.pan)
    /\ Pan(frame)
    /\ UNCHANGED <<sinkVars, memoryVars, flip, events, used, overrun>>

IgnoreFrame ==
    /\ pc = "show" /\ ~set.zero /\ usePool /\ frame = None
    /\ pc' = "idle"
    /\ UNCHANGED <<drmVars, configVars, screenVars, poolVars, frame>>

(* The rest of show_frame when pan_display has returned. *)
Shown ==
    /\ pc' = "idle" /\ frame' = None
    /\ index' = IF slots = 0 THEN index
                ELSE IF index + 1 >= used THEN 0 ELSE index + 1
    /\ UNCHANGED <<configVars, slots, used, overrun, poolVars>>

PanSetsPlane ==
    /\ pc = "plane"
    /\ SetPlane
    /\ pc' = "flush"
    /\ UNCHANGED <<configVars, screenVars, poolVars, frame>>

PanSetsNoPlane == pc = "plane" /\ SetPlaneFails /\ Shown

PanHandlesEvents ==
    /\ pc = "flush"
    /\ HandleEvents
    /\ UNCHANGED <<configVars, screenVars, poolVars, pc, frame>>

PanFlushed_Early ==
    /\ pc = "flush"
    /\ pc' = "flip"
    /\ UNCHANGED <<drmVars, configVars, screenVars, poolVars, frame>>

PanFlushed ==
    /\ pc = "flush" /\ events = {}
    /\ pc' = "flip"
    /\ UNCHANGED <<drmVars, configVars, screenVars, poolVars, frame>>

PanSkips_Again ==
    /\ pc = "flip" /\ SkipFlip
    /\ pc' = "flush"
    /\ UNCHANGED <<configVars, screenVars, poolVars, frame>>

PanSkips == pc = "flip" /\ SkipFlip /\ Shown
PanFlips == pc = "flip" /\ AskFlip(frame) /\ Shown
PanFails == pc = "flip" /\ FlipFails /\ Shown

-----------------------------------------------------------------------------
(* gst_framebuffersink_reset, on the way from PAUSED to READY.  It frees   *)
(* nu_screens_used screens, however many there are, and keeps video_info.  *)
ResetSink_KeepsIndex ==
    /\ GiveUp
    /\ slots' = 0 /\ used' = 0 /\ index' = index /\ overrun' = FALSE
    /\ pool' = None
    /\ usePool' = set.pool /\ vsync' = set.vsync

ResetSink ==
    /\ GiveUp
    /\ slots' = 0 /\ used' = 0 /\ index' = 0 /\ overrun' = FALSE
    /\ pool' = None
    /\ usePool' = set.pool /\ vsync' = set.vsync

PausedToReady ==
    /\ state = "paused" /\ pc = "idle" /\ (slots = 0 \/ used <= slots)
    /\ ResetSink
    /\ state' = "ready" /\ buffers' = None
    /\ UNCHANGED <<sinkVars, set, maxFrames, info, output, pc, frame>>

ResetCrashes ==
    /\ state = "paused" /\ pc = "idle" /\ slots > 0 /\ used > slots
    /\ pc' = "no screen"
    /\ UNCHANGED <<drmVars, configVars, screenVars, poolVars, frame>>

(* gst_framebuffersink_stop: another reset, and the device is closed. *)
Stop ==
    /\ state = "ready" /\ pc = "idle"
    /\ ResetSink
    /\ pc' = "close"
    /\ UNCHANGED <<sinkVars, state, set, maxFrames, info, output, buffers,
                   frame>>

CloseHandlesEvents ==
    /\ pc \in {"close", "wait"} /\ (pc = "wait" => pending)
    /\ HandleEvents
    /\ UNCHANGED <<configVars, screenVars, poolVars, pc, frame>>

CloseFlushed ==
    /\ pc = "close" /\ events = {}
    /\ pc' = "wait"
    /\ UNCHANGED <<drmVars, configVars, screenVars, poolVars, frame>>

(* No flip is pending, or five seconds have passed. *)
CloseEnds_WaitsOn ==
    /\ pc = "wait" /\ ~pending /\ output
    /\ CloseDevice
    /\ pc' = "idle" /\ state' = "null"
    /\ UNCHANGED <<set, usePool, vsync, maxFrames, info, output, screenVars,
                   poolVars, frame>>

CloseEnds ==
    /\ pc = "wait" /\ (pending => events = {}) /\ output
    /\ CloseDevice
    /\ pc' = "idle" /\ state' = "null"
    /\ UNCHANGED <<set, usePool, vsync, maxFrames, info, output, screenVars,
                   poolVars, frame>>

(* There is no CRTC to give back to the console. *)
CloseCrashes ==
    /\ pc = "wait" /\ (pending => events = {}) /\ ~output
    /\ pc' = "no output"
    /\ UNCHANGED <<drmVars, configVars, screenVars, poolVars, frame>>

-----------------------------------------------------------------------------
Switch ==
    /\ FlipDone
    /\ UNCHANGED <<configVars, screenVars, poolVars, pc, frame>>

Blank ==
    /\ VerticalBlank
    /\ UNCHANGED <<configVars, screenVars, poolVars, pc, frame>>

Application ==
    SetProperty \/ StartFails \/ StartCrashes \/ Start \/ ReadyToPaused
    \/ PausedToReady \/ ResetCrashes \/ Stop

Negotiation ==
    \/ \E size \in Sizes : SetCapsPool(size) \/ SetCapsScreens(size)
    \/ ProposePool

Arrival ==
    \/ FrameInSystemMemory \/ FrameOfOldPool
    \/ \E m \in Mems : FrameInVideoMemory(m)

(* What goes on by itself once a frame has arrived or the sink is stopped. *)
Work ==
    \/ InputUnmapped \/ NoScreen \/ ShowPlane \/ CopyFrame \/ ShowBuffer
    \/ IgnoreFrame
    \/ PanSetsPlane \/ PanSetsNoPlane \/ PanHandlesEvents \/ PanFlushed
    \/ PanSkips \/ PanFlips \/ PanFails
    \/ CloseHandlesEvents \/ CloseFlushed \/ CloseEnds \/ CloseCrashes

Next == Application \/ Negotiation \/ Arrival \/ Work \/ Switch \/ Blank

Spec == Init /\ [][Next]_vars

(* The threads run, and the display goes on scanning. *)
FairSpec == Spec /\ WF_vars(Work) /\ WF_vars(Switch)

-----------------------------------------------------------------------------
(* Every variable keeps to its values. *)
TypeOK ==
    /\ DrmTypeOK
    /\ state \in {"null", "ready", "paused"} /\ set \in Settings
    /\ usePool \in BOOLEAN /\ vsync \in BOOLEAN
    /\ maxFrames \in 0..MaxFrames /\ info \in Sizes \cup {None}
    /\ output \in BOOLEAN
    /\ slots \in 0..MaxFrames /\ used \in Nat /\ index \in Nat
    /\ overrun \in BOOLEAN
    /\ pool \in Sizes \cup {None} /\ buffers \in Sizes \cup {None}
    /\ pc \in {"idle", "show", "plane", "flush", "flip", "close", "wait",
               "no screen", "no output"}
    /\ frame \in Mems \cup {None}

(* A flip that is under way, or of which the event was not read, is known  *)
(* to the sink, which therefore never asks for a second one: the display   *)
(* would refuse it, and the flag would stay set for ever.                  *)
FlipCovered == flip # None \/ "flip" \in events => pending

(* A frame is skipped because the display has not switched yet and for no  *)
(* other reason, as long as no flip was refused: a flag that outlived its  *)
(* flip would freeze the picture.                                          *)
PendingIsReal ==
    fd /\ pending /\ ~refused /\ state # "null"
        => flip # None \/ "flip" \in events

(* The screen of the index, and the screens counted for reset to free, are *)
(* screens that there are, whatever is negotiated and set meanwhile, as    *)
(* long as no frame was copied to a single screen, which counts two, and   *)
(* set_caps, which leaves the index alone, made no fewer screens.          *)
IndexInside == slots > 0 /\ ~overrun => index < slots /\ used <= slots

(* With a screen that it allocated itself and that upstream writes (zero   *)
(* memcpy), the address the decoder was told is the screen's, unless       *)
(* upstream was given a pool as well.                                      *)
ZeroCopyTarget ==
    slots = 1 /\ mem[0] = "actual" /\ buffers = None => physical = 0

(* The promise of page flipping is kept. *)
Flips == INSTANCE PageFlip WITH
    Pictures <- Screens, busy <- pending, asked <- flip
FlipSpec == Flips!Spec

(* show_frame and stop return, whatever the display does with the flips.   *)
CallsReturn == pc \notin {"idle", "no screen", "no output"}
                  ~> pc \in {"idle", "no screen", "no output"}

(* Why they do: while one of them runs, each step, the display's included, *)
(* takes it to a later stage or leaves fewer events to come or to be read; *)
(* the exception is the application's, which sets a property.              *)
(* The loops that read events have no limit of their own; what ends them   *)
(* is that only one flip and one vertical blank can be outstanding.        *)
Calls == {"show", "plane", "flush", "flip", "close", "wait"}

Stage == CASE pc = "show"  -> 4
           [] pc = "plane" -> 3
           [] pc = "flush" -> 2
           [] pc = "flip"  -> 1
           [] pc = "close" -> 2
           [] pc = "wait"  -> 1

Outstanding == (IF flip # None THEN 2 ELSE 0) + (IF vblank THEN 2 ELSE 0)
                 + (IF events # {} THEN 1 ELSE 0)

CallProgress ==
    [][{pc, pc'} \subseteq Calls =>
          \/ set' # set
          \/ Stage' < Stage
          \/ Stage' = Stage /\ Outstanding' < Outstanding]_vars

(* The picture does not freeze: if frames keep being skipped then flips    *)
(* keep being asked for, unless one was refused.                           *)
NotFrozen == []<><<PanSkips>>_vars => []<>(refused \/ ~pending)
=============================================================================
