----------------------------- MODULE FbdevSink -----------------------------
(***************************************************************************)
(* GstG1FBDEVSink (sys/fbdev/gstg1fbdevsink.c), which copies frames into a *)
(* mapped frame buffer, and the one bus allocator of the process           *)
(* (gst-libs/ext/g1/bus), which gives out a frame buffer itself as memory. *)
(*                                                                         *)
(* A device is the geometry the kernel reports of it: xres and yres in     *)
(* pixels, line in bytes.  Its memory holds yres lines.  The calls of the  *)
(* element come one after the other.                                       *)
(***************************************************************************)
EXTENDS Integers

CONSTANTS
    Devices,     \* the frame buffers there are
    Offsets,     \* what cx and cy may be set to
    Frames,      \* the sizes of frame upstream sends
    None

Geometry == [xres : Nat \ {0}, yres : Nat \ {0}, line : Nat \ {0}]

(* What a position along one axis was computed from. *)
Spans == [screen : Nat \ {0}, size : Nat \ {0}]

ASSUME FbdevAssumption ==
    /\ \A d \in Devices : d \in Geometry /\ d.xres <= d.line
    /\ Offsets \subseteq Nat
    /\ Frames \subseteq [w : Nat \ {0}, h : Nat \ {0}]
    /\ None \notin Geometry /\ None \notin Spans /\ None \notin Frames

VARIABLES
    device,    \* the device property
    at,        \* cx and cy: set by the application, or by set_caps
    origin,    \* what set_caps computed each of them from, or None if the
               \* application set it
    started,   \* the device as start found it, or None
    caps,      \* width and height, or None
    scan,      \* bytespp, linelen and lines
    bus,       \* the device of the bus allocator, or None
    written    \* where the last copy ended: byte of the line, line of the
               \* screen; and along which axes it should be inside

layout == <<at, origin, caps, scan>>
vars == <<device, layout, started, bus, written>>

Default == -1

Nothing == [right |-> 0, bottom |-> 0, x |-> FALSE, y |-> FALSE]

(* gst_g1_fbdevsink_init. *)
Init ==
    /\ device \in Devices
    /\ at = [x |-> Default, y |-> Default]
    /\ origin = [x |-> None, y |-> None]
    /\ caps = None
    /\ scan = [bytespp |-> 0, linelen |-> 0, lines |-> 0]
    /\ started = None /\ bus = None
    /\ written = Nothing

(* gst_g1_fbdevsink_set_property.  A position set while frames are shown   *)
(* takes effect with the next one.                                         *)
SetPosition(axis, p) ==
    /\ at' = [at EXCEPT ![axis] = p]
    /\ origin' = [origin EXCEPT ![axis] = None]
    /\ UNCHANGED <<device, caps, scan, started, bus, written>>

SetDevice(d) ==
    /\ device' = d
    /\ UNCHANGED <<layout, started, bus, written>>

-----------------------------------------------------------------------------
(* gst_bus_allocator_new: there is one allocator, of the first device that *)
(* was started.                                                            *)
NewBusAllocator(d) == IF bus = None THEN d ELSE bus

(* gst_g1_fbdevsink_start. *)
Start ==
    /\ started = None
    /\ started' = device /\ bus' = NewBusAllocator(device)
    /\ UNCHANGED <<device, layout, written>>

(* The device cannot be opened, its geometry cannot be read, the bus       *)
(* allocator cannot map /dev/mem, or the frame buffer cannot be mapped.    *)
(* The descriptor that is left open is not counted.                        *)
StartFails ==
    /\ started = None
    /\ bus' \in {bus, NewBusAllocator(device)}
    /\ UNCHANGED <<device, layout, started, written>>

(* gst_g1_fbdevsink_stop, which the base class takes as done even if the   *)
(* frame buffer cannot be unmapped or the device closed.  The position     *)
(* stays as it is, and so does the bus allocator.                          *)
Stop ==
    /\ started # None
    /\ started' = None /\ caps' = None
    /\ written' = Nothing
    /\ UNCHANGED <<device, at, origin, scan, bus>>

-----------------------------------------------------------------------------
(* gst_g1_fbdevsink_setcaps. *)

Least(m, n) == IF m <= n THEN m ELSE n

(* The frame in the middle of the screen, or at its edge when it is the    *)
(* larger one.                                                             *)
Centre_Unclamped(screen, frame) == (screen - frame) \div 2

Centre(screen, frame) ==
    IF frame <= screen THEN (screen - frame) \div 2 ELSE 0

Place(old, screen, frame) ==
    IF old = Default THEN Centre(screen, frame) ELSE old

Origin(o, old, span) == IF old = Default THEN span ELSE o

BytesPerPixel(d) == d.line \div d.xres

(* The bytes of a line that are copied. *)
LineLength_Whole(width, d) == width * BytesPerPixel(d)
LineLength(width, d) == Least(width * BytesPerPixel(d), d.line)

SetCaps(f) ==
    /\ started # None
    /\ caps' = f
    /\ at' = [x |-> Place(at.x, started.xres, f.w),
              y |-> Place(at.y, started.yres, f.h)]
    /\ origin' =
         [x |-> Origin(origin.x, at.x, [screen |-> started.xres, size |-> f.w]),
          y |-> Origin(origin.y, at.y, [screen |-> started.yres, size |-> f.h])]
    /\ scan' = [bytespp |-> BytesPerPixel(started),
                linelen |-> LineLength(f.w, started),
                lines |-> Least(f.h, started.yres)]
    /\ UNCHANGED <<device, started, bus, written>>

-----------------------------------------------------------------------------
(* gst_g1_fbdevsink_show_frame.                                            *)

(* A position computed for a screen no larger and a frame no smaller. *)
Covers(o, screen, size) == o # None /\ o.screen <= screen /\ size <= o.size

(* Memory of the bus allocator is not copied: it is on the screen already, *)
(* or is refused if the frame is not as wide as the lines are.             *)
CopyFrame ==
    /\ caps # None
    /\ written' = [right |-> at.x * scan.bytespp + scan.linelen,
                   bottom |-> at.y + scan.lines,
                   x |-> Covers(origin.x, started.xres, caps.w),
                   y |-> Covers(origin.y, started.yres, caps.h)]
    /\ UNCHANGED <<device, layout, started, bus>>

Next ==
    \/ \E axis \in {"x", "y"}, p \in Offsets \cup {Default} : SetPosition(axis, p)
    \/ \E d \in Devices : SetDevice(d)
    \/ Start \/ StartFails \/ Stop
    \/ \E f \in Frames : SetCaps(f)
    \/ CopyFrame

Spec == Init /\ [][Next]_vars

-----------------------------------------------------------------------------
(* Properties.                                                             *)

(* Every variable keeps to its values. *)
TypeOK ==
    /\ device \in Devices
    /\ at \in [x : Nat \cup {Default}, y : Nat \cup {Default}]
    /\ \A o \in {origin.x, origin.y} :
         o # None => o.screen \in Nat \ {0} /\ o.size \in Nat \ {0}
    /\ caps \in Frames \cup {None}
    /\ scan \in [bytespp : Nat, linelen : Nat, lines : Nat]
    /\ started \in Devices \cup {None} /\ bus \in Devices \cup {None}
    /\ written \in [right : Int, bottom : Int, x : BOOLEAN, y : BOOLEAN]

(* "the video is centered and cropped if needed to fit onscreen"           *)
(* (gstg1fbdevsink.c:22): no copy leaves its line of the frame buffer, nor *)
(* the frame buffer, whatever the geometry of the screens and the sizes of *)
(* the frames.  As set_caps takes the position it computed for one stream  *)
(* for the application's at the next, this is so for every later stream    *)
(* and device, across restarts, as long as the screen is no smaller and    *)
(* the frame no larger than those the position was computed for.           *)
CopyInside ==
    /\ written.x => written.right <= started.line
    /\ written.y => written.bottom <= started.yres
=============================================================================
