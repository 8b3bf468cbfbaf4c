-------------------------- MODULE FbdevSink_proofs --------------------------
(***************************************************************************)
(* Theorems about FbdevSink, for screens and frames of any size.           *)
(*                                                                         *)
(* A copy stays inside the frame buffer because the position is the one of *)
(* a frame in the middle of some screen, and the extent is the one of the  *)
(* present frame on the present screen: LayoutInv says so of the layout    *)
(* until somebody sets another position.                                   *)
(***************************************************************************)
EXTENDS FbdevSink, TLAPS

-----------------------------------------------------------------------------
(* Lemmas about the layout. *)

LEMMA Division ==
    ASSUME NEW a \in Nat, NEW b \in Nat \ {0}
    PROVE  a \div b \in Nat /\ b * (a \div b) <= a
OBVIOUS

LEMMA MulMonotonic ==
    ASSUME NEW m \in Nat, NEW n \in Nat, NEW k \in Nat, m <= n
    PROVE  m * k <= n * k
<1>1. PICK d \in Nat : n = m + d
  <2>1. n - m \in Nat /\ n = m + (n - m)
    OBVIOUS
  <2> QED
    BY <2>1
<1>2. n * k = m * k + d * k /\ d * k \in Nat /\ m * k \in Nat
  BY <1>1
<1> QED
  BY <1>2

(* The frame in the middle takes no more than the screen has, cropped or   *)
(* not.                                                                    *)
LEMMA CentreInside ==
    ASSUME NEW screen \in Nat \ {0}, NEW size \in Nat \ {0}
    PROVE  /\ Centre(screen, size) \in Nat
           /\ size <= screen => Centre(screen, size) + size <= screen
           /\ size > screen => Centre(screen, size) = 0
<1>1. CASE size <= screen
  BY <1>1 DEF Centre
<1>2. CASE size > screen
  BY <1>2 DEF Centre
<1> QED
  BY <1>1, <1>2

(* A line ends within the line of the screen if its frame was put in the   *)
(* middle of a screen that is no wider, or a wider frame was.              *)
LEMMA LineInside ==
    ASSUME NEW d \in Geometry, NEW screen \in Nat \ {0}, NEW size \in Nat \ {0},
           NEW w \in Nat \ {0}, screen <= d.xres, w <= size
    PROVE  Centre(screen, size) * BytesPerPixel(d) + LineLength(w, d) <= d.line
<1> DEFINE bpp == BytesPerPixel(d)
           c == Centre(screen, size)
<1>1. d.xres \in Nat \ {0} /\ d.line \in Nat \ {0}
  BY DEF Geometry
<1>2. bpp \in Nat /\ d.xres * bpp <= d.line
  BY <1>1, Division DEF BytesPerPixel
<1>3. /\ c \in Nat
      /\ size <= screen => c + size <= screen
      /\ size > screen => c = 0
  BY CentreInside
<1> HIDE DEF bpp, c
<1>4. w * bpp \in Nat /\ c * bpp \in Nat
  BY <1>2, <1>3
<1>5. LineLength(w, d) = IF w * bpp <= d.line THEN w * bpp ELSE d.line
  BY DEF LineLength, Least, bpp
<1>6. CASE size <= screen
  <2>1. c + w <= d.xres
    BY <1>1, <1>3, <1>6
  <2>2. (c + w) * bpp <= d.xres * bpp
    BY <1>1, <1>2, <1>3, <2>1, MulMonotonic
  <2>3. (c + w) * bpp = c * bpp + w * bpp
    BY <1>2, <1>3
  <2>4. d.xres * bpp \in Nat
    BY <1>1, <1>2
  <2>5. c * bpp + w * bpp <= d.line
    BY <1>1, <1>2, <1>4, <2>2, <2>3, <2>4
  <2>6. LineLength(w, d) = w * bpp
    BY <1>1, <1>4, <1>5, <2>5
  <2> QED
    BY <2>5, <2>6 DEF bpp, c
<1>7. CASE size > screen
  <2>1. c * bpp = 0
    BY <1>2, <1>3, <1>7
  <2>2. LineLength(w, d) \in Nat /\ LineLength(w, d) <= d.line
    BY <1>1, <1>4, <1>5
  <2> QED
    BY <1>1, <2>1, <2>2 DEF bpp, c
<1> QED
  BY <1>6, <1>7

LEMMA ColumnInside ==
    ASSUME NEW d \in Geometry, NEW screen \in Nat \ {0}, NEW size \in Nat \ {0},
           NEW h \in Nat \ {0}, screen <= d.yres, h <= size
    PROVE  Centre(screen, size) + Least(h, d.yres) <= d.yres
<1>1. d.yres \in Nat \ {0}
  BY DEF Geometry
<1>2. CASE size <= screen
  BY <1>1, <1>2, CentreInside DEF Least
<1>3. CASE size > screen
  BY <1>1, <1>3, CentreInside DEF Least
<1> QED
  BY <1>2, <1>3

(* What set_caps computes are numbers. *)
LEMMA ScanTypes ==
    ASSUME NEW d \in Geometry, NEW w \in Nat \ {0}, NEW h \in Nat \ {0}
    PROVE  /\ BytesPerPixel(d) \in Nat /\ LineLength(w, d) \in Nat
           /\ Least(h, d.yres) \in Nat
<1>1. /\ d.xres \in Nat \ {0} /\ d.line \in Nat \ {0} /\ d.yres \in Nat \ {0}
  BY DEF Geometry
<1>2. BytesPerPixel(d) \in Nat
  BY <1>1, Division DEF BytesPerPixel
<1>3. w * BytesPerPixel(d) \in Nat
  BY <1>2
<1> QED
  BY <1>1, <1>2, <1>3 DEF LineLength, Least

-----------------------------------------------------------------------------
(* The invariant. *)

Types ==
    /\ device \in Devices
    /\ at \in [x : Nat \cup {Default}, y : Nat \cup {Default}]
    /\ origin \in [x : Spans \cup {None}, y : Spans \cup {None}]
    /\ caps \in Frames \cup {None}
    /\ scan \in [bytespp : Nat, linelen : Nat, lines : Nat]
    /\ started \in Devices \cup {None} /\ bus \in Devices \cup {None}
    /\ written \in [right : Int, bottom : Int, x : BOOLEAN, y : BOOLEAN]

LayoutInv ==
    /\ origin.x # None => at.x = Centre(origin.x.screen, origin.x.size)
    /\ origin.y # None => at.y = Centre(origin.y.screen, origin.y.size)
    /\ caps # None => /\ started # None
                      /\ scan = [bytespp |-> BytesPerPixel(started),
                                 linelen |-> LineLength(caps.w, started),
                                 lines |-> Least(caps.h, started.yres)]

CopyInv == CopyInside /\ (started = None => ~written.x /\ ~written.y)

Inv == Types /\ LayoutInv /\ CopyInv

LEMMA Constants ==
    /\ \A d \in Devices : d \in Geometry /\ d # None
    /\ \A f \in Frames : f.w \in Nat \ {0} /\ f.h \in Nat \ {0} /\ f # None
    /\ \A p \in Offsets \cup {Default} : p \in Nat \cup {Default}
    /\ \A s \in Spans : s.screen \in Nat \ {0} /\ s.size \in Nat \ {0} /\ s # None
BY FbdevAssumption DEF Spans

LEMMA SettingsKeep ==
    ASSUME Inv,
           \/ \E axis \in {"x", "y"}, p \in Offsets \cup {Default} :
                SetPosition(axis, p)
           \/ \E d \in Devices : SetDevice(d)
    PROVE  Inv'
<1>1. ASSUME NEW axis \in {"x", "y"}, NEW p \in Offsets \cup {Default},
             SetPosition(axis, p)
      PROVE  Inv'
  <2>1. p \in Nat \cup {Default}
    BY Constants
  <2>2. Types'
    BY <1>1, <2>1 DEF SetPosition, Inv, Types
  <2>3. LayoutInv'
    BY <1>1 DEF SetPosition, Inv, Types, LayoutInv
  <2>4. CopyInv'
    BY <1>1 DEF SetPosition, Inv, CopyInv, CopyInside
  <2> QED
    BY <2>2, <2>3, <2>4 DEF Inv
<1>2. ASSUME NEW d \in Devices, SetDevice(d) PROVE Inv'
  BY <1>2 DEF SetDevice, layout, Inv, Types, LayoutInv, CopyInv, CopyInside
<1> QED
  BY <1>1, <1>2

LEMMA StartKeeps ==
    ASSUME Inv, Start \/ StartFails
    PROVE  Inv'
<1>1. CASE Start
  <2>1. Types'
    BY <1>1 DEF Start, NewBusAllocator, layout, Inv, Types
  <2>2. started = None /\ caps = None /\ caps' = None
    BY <1>1 DEF Start, layout, Inv, LayoutInv
  <2>3. LayoutInv'
    BY <1>1, <2>2 DEF Start, layout, Inv, LayoutInv
  <2>4. CopyInv'
    <3>1. ~written.x /\ ~written.y /\ written' = written
      BY <1>1, <2>2 DEF Start, Inv, CopyInv
    <3> QED
      BY <3>1 DEF CopyInv, CopyInside
  <2> QED
    BY <2>1, <2>3, <2>4 DEF Inv
<1>2. CASE StartFails
  <2>1. Types'
    BY <1>2 DEF StartFails, NewBusAllocator, layout, Inv, Types
  <2>2. LayoutInv' /\ CopyInv'
    BY <1>2 DEF StartFails, layout, Inv, LayoutInv, CopyInv, CopyInside
  <2> QED
    BY <2>1, <2>2 DEF Inv
<1> QED
  BY <1>1, <1>2

LEMMA StopKeeps ==
    ASSUME Inv, Stop
    PROVE  Inv'
<1>1. /\ Nothing \in [right : Int, bottom : Int, x : BOOLEAN, y : BOOLEAN]
      /\ ~Nothing.x /\ ~Nothing.y
  BY DEF Nothing
<1>2. Types'
  BY <1>1 DEF Stop, Inv, Types
<1>3. LayoutInv'
  BY DEF Stop, Inv, LayoutInv
<1>4. CopyInv'
  BY <1>1 DEF Stop, CopyInv, CopyInside
<1> QED
  BY <1>2, <1>3, <1>4 DEF Inv

(* set_caps keeps a position or puts the frame in the middle. *)
LEMMA PlaceKeeps ==
    ASSUME NEW old \in Nat \cup {Default}, NEW o \in Spans \cup {None},
           o # None => old = Centre(o.screen, o.size),
           NEW span \in Spans
    PROVE  LET place == Place(old, span.screen, span.size)
               new == Origin(o, old, span)
           IN  /\ place \in Nat \cup {Default}
               /\ new \in Spans \cup {None}
               /\ new # None => place = Centre(new.screen, new.size)
<1>1. span.screen \in Nat \ {0} /\ span.size \in Nat \ {0}
  BY DEF Spans
<1>2. Centre(span.screen, span.size) \in Nat
  BY <1>1, CentreInside
<1>3. CASE old = Default
  BY <1>2, <1>3 DEF Place, Origin
<1>4. CASE old # Default
  BY <1>4 DEF Place, Origin
<1> QED
  BY <1>3, <1>4

LEMMA SetCapsKeeps ==
    ASSUME Inv, NEW f \in Frames, SetCaps(f)
    PROVE  Inv'
<1>1. started \in Geometry /\ f.w \in Nat \ {0} /\ f.h \in Nat \ {0}
  BY Constants DEF SetCaps, Inv, Types
<1>2. started.xres \in Nat \ {0} /\ started.yres \in Nat \ {0}
  BY <1>1 DEF Geometry
<1>3. /\ scan' = [bytespp |-> BytesPerPixel(started),
                 linelen |-> LineLength(f.w, started),
                 lines |-> Least(f.h, started.yres)]
      /\ at' = [x |-> Place(at.x, started.xres, f.w),
                y |-> Place(at.y, started.yres, f.h)]
      /\ origin' =
           [x |-> Origin(origin.x, at.x, [screen |-> started.xres, size |-> f.w]),
            y |-> Origin(origin.y, at.y, [screen |-> started.yres, size |-> f.h])]
      /\ caps' = f /\ UNCHANGED <<device, started, bus, written>>
      /\ started # None
  BY DEF SetCaps
<1>4. /\ at.x \in Nat \cup {Default} /\ at.y \in Nat \cup {Default}
      /\ origin.x \in Spans \cup {None} /\ origin.y \in Spans \cup {None}
      /\ origin.x # None => at.x = Centre(origin.x.screen, origin.x.size)
      /\ origin.y # None => at.y = Centre(origin.y.screen, origin.y.size)
  BY DEF Inv, Types, LayoutInv
<1>5. /\ at'.x \in Nat \cup {Default} /\ origin'.x \in Spans \cup {None}
      /\ origin'.x # None => at'.x = Centre(origin'.x.screen, origin'.x.size)
  <2> DEFINE span == [screen |-> started.xres, size |-> f.w]
  <2>1. span \in Spans /\ span.screen = started.xres /\ span.size = f.w
    BY <1>1, <1>2 DEF Spans
  <2>2. /\ at'.x = Place(at.x, span.screen, span.size)
        /\ origin'.x = Origin(origin.x, at.x, span)
    BY <1>3
  <2> HIDE DEF span
  <2>3. LET place == Place(at.x, span.screen, span.size)
            new == Origin(origin.x, at.x, span)
        IN  /\ place \in Nat \cup {Default} /\ new \in Spans \cup {None}
            /\ new # None => place = Centre(new.screen, new.size)
    BY <1>4, <2>1, PlaceKeeps
  <2> QED
    BY <2>2, <2>3
<1>6. /\ at'.y \in Nat \cup {Default} /\ origin'.y \in Spans \cup {None}
      /\ origin'.y # None => at'.y = Centre(origin'.y.screen, origin'.y.size)
  <2> DEFINE span == [screen |-> started.yres, size |-> f.h]
  <2>1. span \in Spans /\ span.screen = started.yres /\ span.size = f.h
    BY <1>1, <1>2 DEF Spans
  <2>2. /\ at'.y = Place(at.y, span.screen, span.size)
        /\ origin'.y = Origin(origin.y, at.y, span)
    BY <1>3
  <2> HIDE DEF span
  <2>3. LET place == Place(at.y, span.screen, span.size)
            new == Origin(origin.y, at.y, span)
        IN  /\ place \in Nat \cup {Default} /\ new \in Spans \cup {None}
            /\ new # None => place = Centre(new.screen, new.size)
    BY <1>4, <2>1, PlaceKeeps
  <2> QED
    BY <2>2, <2>3
<1>7. Types'
  <2>1. scan' \in [bytespp : Nat, linelen : Nat, lines : Nat]
    BY <1>1, <1>3, ScanTypes
  <2>2. /\ at' = [x |-> at'.x, y |-> at'.y]
        /\ origin' = [x |-> origin'.x, y |-> origin'.y]
    BY <1>3
  <2>3. at' \in [x : Nat \cup {Default}, y : Nat \cup {Default}]
    BY <1>5, <1>6, <2>2
  <2>4. origin' \in [x : Spans \cup {None}, y : Spans \cup {None}]
    BY <1>5, <1>6, <2>2
  <2> QED
    BY <1>3, <2>1, <2>3, <2>4 DEF Inv, Types
<1>8. LayoutInv'
  BY <1>3, <1>5, <1>6 DEF LayoutInv
<1>9. CopyInv'
  BY <1>3 DEF Inv, CopyInv, CopyInside
<1> QED
  BY <1>7, <1>8, <1>9 DEF Inv

(* A copy ends where the layout says, which is inside if it covers it.     *)
LEMMA CopyKeeps ==
    ASSUME Inv, CopyFrame
    PROVE  Inv'
<1>1. /\ written' = [right |-> at.x * scan.bytespp + scan.linelen,
                     bottom |-> at.y + scan.lines,
                     x |-> Covers(origin.x, started.xres, caps.w),
                     y |-> Covers(origin.y, started.yres, caps.h)]
      /\ UNCHANGED <<device, layout, started, bus>> /\ caps # None
  BY DEF CopyFrame
<1>2. /\ started \in Geometry /\ started # None
      /\ caps.w \in Nat \ {0} /\ caps.h \in Nat \ {0}
      /\ scan.bytespp = BytesPerPixel(started)
      /\ scan.linelen = LineLength(caps.w, started)
      /\ scan.lines = Least(caps.h, started.yres)
  BY <1>1, Constants DEF Inv, Types, LayoutInv
<1>3. Types'
  <2>1. /\ at.x \in Int /\ at.y \in Int /\ scan.bytespp \in Int
        /\ scan.linelen \in Int /\ scan.lines \in Int
    BY DEF Inv, Types, Default
  <2>2. /\ at.x * scan.bytespp + scan.linelen \in Int
        /\ at.y + scan.lines \in Int
    BY <2>1
  <2>3. /\ Covers(origin.x, started.xres, caps.w) \in BOOLEAN
        /\ Covers(origin.y, started.yres, caps.h) \in BOOLEAN
    BY DEF Covers
  <2>4. written' \in [right : Int, bottom : Int, x : BOOLEAN, y : BOOLEAN]
    BY <1>1, <2>2, <2>3
  <2> QED
    BY <1>1, <2>4 DEF layout, Inv, Types
<1>4. LayoutInv'
  BY <1>1 DEF layout, Inv, LayoutInv
<1>5. ASSUME Covers(origin.x, started.xres, caps.w)
      PROVE  at.x * scan.bytespp + scan.linelen <= started.line
  <2>1. /\ origin.x.screen \in Nat \ {0} /\ origin.x.size \in Nat \ {0}
        /\ origin.x.screen <= started.xres /\ caps.w <= origin.x.size
        /\ at.x = Centre(origin.x.screen, origin.x.size)
    BY <1>5, Constants DEF Covers, Inv, Types, LayoutInv
  <2>2. Centre(origin.x.screen, origin.x.size) * BytesPerPixel(started)
          + LineLength(caps.w, started) <= started.line
    BY <1>2, <2>1, LineInside
  <2> QED
    BY <1>2, <2>1, <2>2
<1>6. ASSUME Covers(origin.y, started.yres, caps.h)
      PROVE  at.y + scan.lines <= started.yres
  <2>1. /\ origin.y.screen \in Nat \ {0} /\ origin.y.size \in Nat \ {0}
        /\ origin.y.screen <= started.yres /\ caps.h <= origin.y.size
        /\ at.y = Centre(origin.y.screen, origin.y.size)
    BY <1>6, Constants DEF Covers, Inv, Types, LayoutInv
  <2>2. Centre(origin.y.screen, origin.y.size) + Least(caps.h, started.yres)
          <= started.yres
    BY <1>2, <2>1, ColumnInside
  <2> QED
    BY <1>2, <2>1, <2>2
<1>7. CopyInv'
  <2>1. /\ written'.x => Covers(origin.x, started.xres, caps.w)
        /\ written'.y => Covers(origin.y, started.yres, caps.h)
        /\ written'.right = at.x * scan.bytespp + scan.linelen
        /\ written'.bottom = at.y + scan.lines
        /\ started' = started /\ started # None
    BY <1>1, <1>2
  <2> QED
    BY <1>5, <1>6, <2>1 DEF CopyInv, CopyInside
<1> QED
  BY <1>3, <1>4, <1>7 DEF Inv

(* The invariant holds throughout, in whatever order the calls come.       *)
THEOREM Invariant == Spec => []Inv
<1>1. Init => Inv
  <2> SUFFICES ASSUME Init PROVE Inv
    OBVIOUS
  <2>1. Types
    BY DEF Init, Types, Nothing
  <2>2. LayoutInv /\ CopyInv
    BY DEF Init, LayoutInv, CopyInv, CopyInside, Nothing
  <2> QED
    BY <2>1, <2>2 DEF Inv
<1>2. Inv /\ [Next]_vars => Inv'
  <2> SUFFICES ASSUME Inv, [Next]_vars PROVE Inv'
    OBVIOUS
  <2>1. CASE Next
    BY <2>1, SettingsKeep, StartKeeps, StopKeeps, SetCapsKeeps, CopyKeeps DEF Next
  <2>2. CASE UNCHANGED vars
    BY <2>2 DEF vars, layout, Inv, Types, LayoutInv, CopyInv, CopyInside
  <2> QED
    BY <2>1, <2>2
<1> QED
  BY <1>1, <1>2, PTL DEF Spec

-----------------------------------------------------------------------------
(* Every variable keeps to its values. *)
THEOREM Typed == Spec => []TypeOK
<1>1. Inv => TypeOK
  <2> SUFFICES ASSUME Inv PROVE TypeOK
    OBVIOUS
  <2>1. \A o \in {origin.x, origin.y} :
          o # None => o.screen \in Nat \ {0} /\ o.size \in Nat \ {0}
    BY Constants DEF Inv, Types
  <2> QED
    BY <2>1 DEF Inv, Types, TypeOK
<1> QED
  BY <1>1, Invariant, PTL

(* Of screens of any geometry, and for frames of any size, no copy leaves  *)
(* its line or the frame buffer as long as the position, of this stream or *)
(* of one before, was computed for a screen no larger and a frame no       *)
(* smaller.                                                                *)
THEOREM CopiesInside == Spec => []CopyInside
<1>1. Inv => CopyInside
  BY DEF Inv, CopyInv
<1> QED
  BY <1>1, Invariant, PTL
=============================================================================
