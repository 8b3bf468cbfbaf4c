------------------------------- MODULE KMSSink -------------------------------
(***************************************************************************)
(* GstG1KMSSink (sys/kms/gstg1kmssink.c) with its allocator and pools: who *)
(* holds which memory of the display, and what the display scans out.      *)
(*                                                                         *)
(* Three parties run at once.  The sink's streaming thread renders one     *)
(* buffer at a time: it takes it as it is if it is KMS memory or copies it *)
(* into a memory of the internal pool, programs the plane, and waits for   *)
(* the display.  The producer upstream fills memories of the pool the sink *)
(* proposed and queues them.  The display switches, at each vertical       *)
(* blank, to the memory the plane is programmed with.                      *)
(*                                                                         *)
(* A buffer is its memory.  "plane" is the one output the sink drives: the *)
(* overlay plane, or the CRTC when the sink does the mode setting.         *)
(***************************************************************************)
EXTENDS Naturals

CONSTANTS
    Mems,        \* memories the device has room for
    Foreign,     \* stands for an input buffer without KMS memory
    AfterError,  \* what follows a flow error: "failed", the stream has ended,
                 \* or "idle", it goes on (after a flushing seek)
    None

ASSUME SinkAssumption == /\ AfterError \subseteq {"failed", "idle"}
                         /\ Foreign \notin Mems /\ None \notin Mems
                         /\ Foreign # None

VARIABLES
    started,     \* between start and stop
    negotiated,  \* the last set_caps succeeded
    master,      \* Ismaster
    modeset,     \* modesetting_enabled
    zero,        \* zero_copy
    output,      \* a connector, a CRTC and a plane are known
    pool,        \* where each memory belongs
    producer,    \* the memory the producer is writing
    queue,       \* the buffer queued in front of the sink
    pc,          \* where the sink's streaming thread is
    input,       \* the buffer show_frame was called with
    frame,       \* the memory show_frame displays
    sample,      \* the last buffer rendered, kept by the base class
    last,        \* last_buffer
    tmp,         \* tmp_kmsmem
    plane,       \* the memory the plane is programmed with
    scanned,     \* the memory the display reads
    event,       \* the vblank or flip event this call of sync waits for
    stale,       \* an event of an earlier call that nobody has read
    fresh        \* memories allocated and not shown since

sinkVars    == <<started, negotiated, master, modeset, zero, output>>
memVars     == <<pool, fresh, plane, scanned>>
streamVars  == <<producer, queue>>
renderVars  == <<pc, input, frame, sample>>
heldVars    == <<last, tmp>>
eventVars   == <<event, stale>>
vars == <<sinkVars, memVars, streamVars, renderVars, heldVars, eventVars>>

(* "none": not allocated; "retired": of a pool that is gone; "leaked": no  *)
(* reference to it is left, yet it was not freed.                          *)
Pools  == {"none", "internal", "proposed", "tmp", "retired", "leaked"}
Events == {"none", "pending", "ready"}

Init ==
    /\ started = FALSE /\ negotiated = FALSE
    /\ master = TRUE /\ modeset \in BOOLEAN /\ zero \in BOOLEAN
    /\ output = FALSE
    /\ pool = [m \in Mems |-> "none"]
    /\ producer = None /\ queue = None
    /\ pc = "idle" /\ input = None /\ frame = None /\ sample = None
    /\ last = None /\ tmp = None
    /\ plane = None /\ scanned = None
    /\ event = "none" /\ stale = "none"
    /\ fresh = {}

-----------------------------------------------------------------------------
(* Memories.                                                               *)

Held == {producer, queue, input, frame, sample, last, tmp}

(* gst_kms_allocator_bo_alloc: a new memory, which the master puts on the  *)
(* plane at once.                                                          *)
Allocate(m, name) ==
    /\ pool[m] = "none" /\ (master => output)
    /\ pool' = [pool EXCEPT ![m] = name]
    /\ fresh' = fresh \cup {m}
    /\ plane' = IF master THEN m ELSE plane
    /\ UNCHANGED scanned

(* A pool hands out a memory nobody holds, or allocates another one. *)
Acquire_Held(m, name) ==
    \/ pool[m] = name /\ UNCHANGED memVars
    \/ Allocate(m, name)

Acquire(m, name) ==
    \/ pool[m] = name /\ m \notin Held /\ UNCHANGED memVars
    \/ Allocate(m, name)

CanAcquire(name) ==
    \E m \in Mems : \/ pool[m] = name /\ m \notin Held
                    \/ pool[m] = "none" /\ (master => output)

Without(m, S) == IF m \in S THEN None ELSE m

(* The memories are where p says.  Those of a retired pool are freed when  *)
(* their last holder lets go; a freed memory loses its frame buffer, and   *)
(* the display goes dark if it was reading it.                             *)
HeldNext == {producer', queue', input', frame', sample', last', tmp'}

Release(p, on, seen) ==
    LET gone == {m \in Mems : \/ p[m] = "retired" /\ m \notin HeldNext
                              \/ p[m] = "none"}
    IN  /\ pool' = [m \in Mems |-> IF m \in gone THEN "none" ELSE p[m]]
        /\ fresh' = (fresh \ seen) \ gone
        /\ plane' = Without(on, gone)
        /\ scanned' = Without(scanned, gone)

(* Both pools are replaced, the proposed one by the upstream element that  *)
(* asks for another once its caps are accepted.                            *)
Retired ==
    [m \in Mems |-> IF pool[m] \in {"internal", "proposed"} THEN "retired"
                    ELSE pool[m]]

-----------------------------------------------------------------------------
(* gst_g1kms_sink_start: with a gem name the sink becomes a client of the  *)
(* DRM master, which it then stays.  When the object of that name cannot   *)
(* be opened, start returns -1, which its caller takes for success.        *)
StartAsClient ==
    /\ ~started
    /\ started' = TRUE
    /\ master' \in {FALSE, master}
    /\ UNCHANGED <<negotiated, modeset, zero, output, memVars, streamVars,
                   renderVars, heldVars, eventVars>>

(* Otherwise it looks for a connector, a CRTC and a plane, and sets the    *)
(* mode itself if nobody has.  When it finds none, start fails.            *)
StartAsMaster ==
    /\ ~started
    /\ started' \in BOOLEAN
    /\ modeset' \in {modeset, TRUE}
    /\ output' = (output \/ started')
    /\ UNCHANGED <<negotiated, master, zero, memVars, streamVars, renderVars,
                   heldVars, eventVars>>

(* gst_g1kms_sink_stop; the streaming threads are stopped, upstream's too. *)
(* tmp_kmsmem is not released, and its frame buffer outlives the sink's    *)
(* own descriptor.                                                         *)
Stop ==
    /\ started /\ pc \in {"idle", "failed"}
    /\ started' = FALSE /\ negotiated' = FALSE
    /\ producer' = None /\ queue' = None
    /\ pc' = "idle" /\ input' = None /\ frame' = None /\ sample' = None
    /\ last' = None
    /\ event' = "none" /\ stale' = "none"
    /\ UNCHANGED <<master, modeset, zero, output, tmp>>
    /\ Release(Retired, plane, {})

(* gst_g1kms_sink_set_caps: the memories of the old pool go, except what   *)
(* is still held.                                                          *)
SetCaps ==
    /\ started /\ pc = "idle" /\ ~modeset
    /\ negotiated' = TRUE
    /\ UNCHANGED <<started, master, modeset, zero, output, streamVars,
                   renderVars, heldVars, eventVars>>
    /\ Release(Retired, plane, {})

(* With mode setting, configure_mode_setting shows a memory of its own     *)
(* until the first frame.  When a later step of it fails, the caps are     *)
(* refused and the memory is lost; when it works, the memory of earlier    *)
(* caps that no frame followed is lost.                                    *)
ModeSet(m, done) ==
    /\ started /\ pc = "idle" /\ modeset
    /\ pool[m] = "none" /\ output
    /\ negotiated' = done
    /\ tmp' = IF done THEN m ELSE tmp
    /\ UNCHANGED <<started, master, modeset, zero, output, streamVars,
                   renderVars, last, eventVars>>
    /\ LET lost == IF done THEN {tmp} ELSE {m}
       IN  /\ Release([x \in Mems |-> IF x \in lost THEN "leaked"
                                      ELSE IF x = m THEN "tmp" ELSE Retired[x]],
                      IF master \/ done THEN m ELSE plane, {})

(* No connector, or no memory. *)
ModeSetFails ==
    /\ started /\ pc = "idle" /\ modeset
    /\ negotiated' = FALSE
    /\ UNCHANGED <<started, master, modeset, zero, output, streamVars,
                   renderVars, heldVars, eventVars>>
    /\ Release(Retired, plane, {})

-----------------------------------------------------------------------------
(* The producer (external): it fills memories of the pool the sink         *)
(* proposed and queues or drops them, or queues buffers of its own.        *)

ProducerAcquires(m) ==
    /\ negotiated /\ producer = None
    /\ producer' = m
    /\ Acquire(m, "proposed")
    /\ UNCHANGED <<sinkVars, queue, renderVars, heldVars, eventVars>>

ProducerQueues(b) ==
    /\ negotiated /\ queue = None
    /\ b \in {producer, Foreign} \ {None}
    /\ queue' = b
    /\ producer' = IF b = producer THEN None ELSE producer
    /\ UNCHANGED <<sinkVars, memVars, renderVars, heldVars, eventVars>>

ProducerDrops ==
    /\ producer # None
    /\ producer' = None
    /\ UNCHANGED <<sinkVars, queue, renderVars, heldVars, eventVars>>
    /\ Release(pool, plane, {})

-----------------------------------------------------------------------------
(* gst_g1kms_sink_show_frame                                               *)

(* The base class keeps the buffer as its last sample and renders it, or   *)
(* renders the last one again (after the preroll).  A zero-copy sink only  *)
(* waits for the display.                                                  *)
ShowFrame(b) ==
    /\ negotiated /\ pc = "idle"
    /\ b \in {queue, sample} \ {None}
    /\ input' = b /\ sample' = b
    /\ queue' = IF b = queue THEN None ELSE queue
    /\ pc' = IF zero THEN "sync" ELSE "input"
    /\ UNCHANGED <<sinkVars, producer, frame, heldVars, eventVars>>
    /\ Release(pool, plane, {})

(* The step goes on, or show_frame returns GST_FLOW_ERROR and releases the *)
(* buffer on its way.                                                      *)
GoesOn(to) ==
    /\ pc' = to
    /\ UNCHANGED <<sinkVars, streamVars, input, sample, heldVars>>

Fails ==
    /\ pc' \in AfterError /\ input' = None /\ frame' = None
    /\ UNCHANGED <<sinkVars, streamVars, sample, heldVars>>
    /\ Release(pool, plane, {})

(* get_input_buffer: KMS memory is shown as it is, other buffers are       *)
(* copied into a memory of the internal pool.                              *)
TakeInput ==
    /\ pc = "input" /\ input \in Mems
    /\ frame' = input
    /\ GoesOn("plane")
    /\ UNCHANGED <<memVars, eventVars>>

AcquireCopy(m) ==
    /\ pc = "input" /\ input = Foreign
    /\ frame' = m
    /\ Acquire(m, "internal")
    /\ GoesOn("copy")
    /\ UNCHANGED eventVars

NoCopy ==
    /\ pc = "input" /\ input = Foreign /\ ~CanAcquire("internal")
    /\ Fails
    /\ UNCHANGED eventVars

CopyDone ==
    /\ pc = "copy"
    /\ GoesOn("plane")
    /\ UNCHANGED <<memVars, frame, eventVars>>

CopyFails ==
    /\ pc = "copy"
    /\ Fails
    /\ UNCHANGED eventVars

(* drmModeSetPlane.  A sink that sets the mode notes the frame buffer for  *)
(* the page flip instead.                                                  *)
SetPlane ==
    /\ pc = "plane" /\ master
    /\ GoesOn("sync")
    /\ plane' = IF modeset THEN plane ELSE frame
    /\ UNCHANGED <<pool, fresh, scanned, frame, eventVars>>

(* The memory of a client has no frame buffer; or drmModeSetPlane fails.   *)
SetPlaneFails ==
    /\ pc = "plane" /\ (master => ~modeset)
    /\ Fails
    /\ UNCHANGED eventVars

(* gst_g1kms_sink_sync asks for an event: of a page flip to buffer_id if   *)
(* the sink sets the mode, which is the frame, or what was on the screen   *)
(* at the start for a zero-copy sink; or of the next vertical blank.  The  *)
(* kernel refuses a flip while another one is outstanding.                 *)
FlipTo_Input == IF modeset THEN input ELSE plane
FlipTo == IF modeset THEN frame ELSE plane

RequestEvent_Silent ==
    /\ pc = "sync"
    /\ modeset => stale # "pending"
    /\ GoesOn("wait")
    /\ plane' = FlipTo
    /\ event' = "none"
    /\ UNCHANGED <<pool, fresh, scanned, frame, stale>>

RequestEvent ==
    /\ pc = "sync"
    /\ modeset => stale # "pending"
    /\ GoesOn("wait")
    /\ plane' = FlipTo
    /\ event' = "pending"
    /\ UNCHANGED <<pool, fresh, scanned, frame, stale>>

RequestFails ==
    /\ pc = "sync"
    /\ Fails
    /\ UNCHANGED eventVars

(* drmHandleEvent runs sync_handler, which clears "waiting".  An event of  *)
(* an earlier call clears the variable of that call's stack frame, which   *)
(* is this call's own where the frames coincide; where they do not, this   *)
(* call goes on to wait for its own event.                                 *)
EventArrived_Early == TRUE
EventArrived       == event = "ready" \/ stale = "ready"

ReadEvent ==
    /\ event' = "none"
    /\ stale' = IF event = "pending" THEN "pending" ELSE "none"

(* last_buffer takes the place of the buffer shown before and tmp_kmsmem   *)
(* is released.                                                            *)
ReplaceLast_Drop == last' = None
ReplaceLast      == last' = frame

FrameShown ==
    /\ pc = "wait" /\ EventArrived /\ frame # None
    /\ pc' = "idle" /\ input' = None /\ frame' = None
    /\ ReplaceLast /\ tmp' = None
    /\ ReadEvent
    /\ UNCHANGED <<sinkVars, streamVars, sample>>
    /\ Release([m \in Mems |-> IF m = tmp THEN "none" ELSE pool[m]],
               plane, {frame})

ZeroCopyShown ==
    /\ pc = "wait" /\ EventArrived /\ frame = None
    /\ pc' = "idle" /\ input' = None
    /\ ReadEvent
    /\ UNCHANGED <<sinkVars, streamVars, frame, sample, heldVars>>
    /\ Release(pool, plane, {input})

(* drmHandleEvent cannot read the event, which stays outstanding. *)
ReadFails ==
    /\ pc = "wait"
    /\ event' = "none"
    /\ stale' = IF "ready" \in {event, stale} THEN "ready" ELSE "pending"
    /\ Fails

-----------------------------------------------------------------------------
(* The display (external): at a vertical blank it takes what the plane is  *)
(* programmed with and completes the events asked for.                     *)
Complete(e) == IF e = "pending" THEN "ready" ELSE e

VBlank ==
    /\ scanned' = plane
    /\ event' = Complete(event) /\ stale' = Complete(stale)
    /\ UNCHANGED <<sinkVars, pool, fresh, plane, streamVars, renderVars,
                   heldVars>>

-----------------------------------------------------------------------------
(* The steps of a call of show_frame, but for the ways to read events that *)
(* are not the ordinary one.                                               *)
Render ==
    \/ TakeInput
    \/ \E m \in Mems : AcquireCopy(m)
    \/ NoCopy
    \/ CopyDone
    \/ CopyFails
    \/ SetPlane
    \/ SetPlaneFails
    \/ RequestEvent
    \/ RequestFails
    \/ FrameShown
    \/ ZeroCopyShown

Next ==
    \/ StartAsClient
    \/ StartAsMaster
    \/ Stop
    \/ SetCaps
    \/ \E m \in Mems, done \in BOOLEAN : ModeSet(m, done)
    \/ ModeSetFails
    \/ \E m \in Mems : ProducerAcquires(m)
    \/ \E b \in Mems \cup {Foreign} : ProducerQueues(b)
    \/ ProducerDrops
    \/ \E b \in Mems \cup {Foreign} : ShowFrame(b)
    \/ Render
    \/ ReadFails
    \/ VBlank

Spec == Init /\ [][Next]_vars

(* The streaming thread runs, and the display keeps blanking. *)
FairSpec == Spec /\ WF_vars(Render) /\ WF_vars(VBlank)

-----------------------------------------------------------------------------
(* Properties                                                              *)

Slots == Mems \cup {Foreign, None}

TypeOK ==
    /\ {started, negotiated, master, modeset, zero, output} \subseteq BOOLEAN
    /\ pool \in [Mems -> Pools]
    /\ pc \in {"idle", "input", "copy", "plane", "sync", "wait", "failed"}
    /\ {queue, input, sample} \subseteq Slots
    /\ {producer, frame, last, tmp, plane, scanned} \subseteq Mems \cup {None}
    /\ {event, stale} \subseteq Events
    /\ fresh \subseteq Mems

(* Nobody writes a memory that is on the screen: while the producer fills  *)
(* one, or the sink copies into one, the display reads another - except    *)
(* for memories that were put on the screen by their own allocation.  Why  *)
(* show_frame holds on to last_buffer, and waits for the display before it *)
(* replaces it.  (A zero-copy sink keeps no buffer and promises nothing.)  *)
Written == {producer} \cup (IF pc = "copy" THEN {frame} ELSE {})

NoTearing ==
    ~zero /\ pc # "failed" =>
        \A m \in Mems : m \in Written /\ scanned = m => m \in fresh

(* The same over the whole life of a memory, of whichever pool: one that   *)
(* is queued, kept or on the screen is not taken to be written, and only   *)
(* what was written is queued or shown.  What the sink puts on the screen  *)
(* without any picture, new memories and those of the mode setting, does   *)
(* not count.                                                              *)
Promised == ~zero /\ pc # "failed"

Reads(m) == \/ m \in {queue, input, sample, last}
            \/ m = frame /\ pc # "copy"
            \/ /\ m \in {plane, scanned} \ fresh
               /\ pool[m] \in {"internal", "proposed", "retired"}

Writing == IF Promised THEN Written \ {None} ELSE {}
Reading == IF Promised THEN {m \in Mems : Reads(m)} ELSE {}

HandedOver == INSTANCE Handover WITH writing <- Writing, reading <- Reading

HandoverSpec == HandedOver!Spec

(* No memory the display reads is freed while the stream plays: the        *)
(* display does not go dark when a pool is replaced, the last buffer       *)
(* retires or the memory of the mode setting is released.                  *)
ScannedIsAlive ==
    [][\A m \in Mems \ fresh :
          ~zero /\ started' /\ pc' # "failed" /\ scanned = m
              => pool'[m] # "none"]_vars

(* "Wait for the previous frame to complete redraw": when show_frame is    *)
(* done, the display reads its frame, or a memory allocated meanwhile.     *)
OnScreen(m) == scanned \in {m} \cup fresh

FrameOnScreen == [][~zero /\ FrameShown => OnScreen(frame)]_vars

(* zero-copy: "When Enabled, vdec will copy frames directly to display     *)
(* memory", so a frame in the sink's own memory is on the screen when      *)
(* show_frame is done.                                                     *)
ZeroCopyOnScreen ==
    [][zero /\ master /\ ~modeset /\ input \in Mems /\ ZeroCopyShown
           => scanned = input]_vars

(* Every call of show_frame returns: the loop of sync, which has no limit, *)
(* ends with the event it asked for.                                       *)
ShowFrameReturns == pc \notin {"idle", "failed"} ~> pc \in {"idle", "failed"}
=============================================================================
