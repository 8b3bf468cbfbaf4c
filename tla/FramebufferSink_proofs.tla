----------------------- MODULE FramebufferSink_proofs -----------------------
(***************************************************************************)
(* Theorems about FramebufferSink, for any settings, number of screens and *)
(* size of the device's memory.                                            *)
(*                                                                         *)
(* That a flip is never asked for twice is not inductive: FlipInv adds     *)
(* that a flip and the event of one before it are never both there, and    *)
(* that nothing is left of either once the device is closed.  Likewise     *)
(* ScreenInv adds that there are screens only while the element is paused  *)
(* and uses no pool, and that the index starts from 0 when they are made.  *)
(***************************************************************************)
EXTENDS FramebufferSink, FiniteSetTheorems, TLAPS

-----------------------------------------------------------------------------
(* Type correctness, a group of variables at a time. *)

SinkTypes == fd \in BOOLEAN /\ planeSet \in BOOLEAN /\ pending \in BOOLEAN
             /\ refused \in BOOLEAN

MemoryTypes ==
    /\ mem \in [Mems -> {"none", "lazy", "actual"}]
    /\ fbs \in SUBSET Mems
    /\ orphans \in Nat
    /\ physical \in Screens \cup {None}

DisplayTypes ==
    /\ flip \in Screens \cup {None}
    /\ vblank \in BOOLEAN
    /\ events \in SUBSET {"flip", "vblank"}

ConfigTypes ==
    /\ state \in {"null", "ready", "paused"} /\ set \in Settings
    /\ usePool \in BOOLEAN /\ vsync \in BOOLEAN
    /\ maxFrames \in 0..MaxFrames /\ info \in Sizes \cup {None}
    /\ output \in BOOLEAN

ScreenTypes ==
    /\ slots \in 0..MaxFrames /\ used \in Nat /\ index \in Nat
    /\ overrun \in BOOLEAN
    /\ pool \in Sizes \cup {None} /\ buffers \in Sizes \cup {None}

RunTypes ==
    /\ pc \in {"idle", "show", "plane", "flush", "flip", "close", "wait",
               "no screen", "no output"}
    /\ frame \in Mems \cup {None}

Types == /\ SinkTypes /\ MemoryTypes /\ DisplayTypes
         /\ ConfigTypes /\ ScreenTypes /\ RunTypes

LEMMA TypesIsTypeOK == Types <=> TypeOK
BY DEF Types, SinkTypes, MemoryTypes, DisplayTypes, ConfigTypes, ScreenTypes,
       RunTypes, TypeOK, DrmTypeOK

(* There is room for a screen. *)
LEMMA FrameBound ==
    /\ MaxFrames \in Nat /\ 0 \in 0..MaxFrames /\ 1 \in 1..MaxFrames /\ 0 # 1
    /\ \A n \in 1..MaxFrames : n \in 0..MaxFrames /\ n \in Nat
<1>1. MaxFrames \in Nat /\ MaxFrames >= 1
  BY DrmAssumption
<1> QED
  BY <1>1

(* The memories are finitely many, so that those in use can be counted. *)
LEMMA MemsAreCounted ==
    ASSUME NEW S \in SUBSET Mems
    PROVE  Cardinality(S) \in Nat
<1>1. IsFiniteSet(Mems)
  BY FS_Interval, DrmAssumption DEF Mems
<1>2. IsFiniteSet(S)
  BY <1>1, FS_Subset
<1> QED
  BY <1>2, FS_CardinalityType

LEMMA UsedType == MemoryTypes => Used \in Nat
BY MemsAreCounted DEF MemoryTypes, Used

(* Allocating keeps every memory's state among the three. *)
LEMMA AllocTypes ==
    ASSUME NEW mem0 \in [Mems -> {"none", "lazy", "actual"}],
           NEW fbs0 \in SUBSET Mems, NEW orphans0 \in Nat,
           NEW physical0 \in Screens \cup {None},
           NEW ok \in SUBSET Mems, NEW late \in SUBSET Mems,
           AllocActual(mem0, fbs0, orphans0, physical0, ok, late)
    PROVE  MemoryTypes'
<1>1. mem' = [m \in Mems |-> IF m \in ok THEN "actual" ELSE mem0[m]]
  BY DEF AllocActual
<1>2. fbs' \in SUBSET Mems
  BY DEF AllocActual
<1>3. orphans' \in Nat
  <2>1. orphans' = orphans0 + Cardinality(fbs0 \cap (ok \cup late))
    BY DEF AllocActual
  <2>2. Cardinality(fbs0 \cap (ok \cup late)) \in Nat
    BY MemsAreCounted
  <2> QED
    BY <2>1, <2>2
<1>4. physical' \in Screens \cup {None}
  BY DEF AllocActual, Screens
<1> QED
  BY <1>1, <1>2, <1>3, <1>4 DEF MemoryTypes

LEMMA MapTypes ==
    ASSUME MemoryTypes, NEW m \in Mems, NEW mapped \in BOOLEAN,
           MapMemory(m, mapped)
    PROVE  MemoryTypes'
<1>1. CASE mem[m] = "actual"
  BY <1>1 DEF MapMemory, MemoryTypes, memoryVars
<1>2. CASE mem[m] # "actual"
  <2>1. PICK late \in {{}, {m}} :
          AllocActual(mem, fbs, orphans, physical,
                      IF mapped THEN {m} ELSE {}, late)
    BY <1>2 DEF MapMemory
  <2> DEFINE ok == IF mapped THEN {m} ELSE {}
  <2>2. ok \in SUBSET Mems /\ late \in SUBSET Mems
    OBVIOUS
  <2> HIDE DEF ok
  <2>3. AllocActual(mem, fbs, orphans, physical, ok, late)
    BY <2>1 DEF ok
  <2> QED
    BY <2>2, <2>3, AllocTypes DEF MemoryTypes
<1> QED
  BY <1>1, <1>2

LEMMA AgedType ==
    /\ \A s \in Screens \cup {None} : Aged(s) \in Screens \cup {None}
    /\ \A s \in Screens \cup {None} : Aged(s) = None <=> s = None
BY DrmAssumption DEF Aged, Screens

LEMMA ForgetTypes == DisplayTypes /\ Forget => DisplayTypes'
BY AgedType DEF DisplayTypes, Forget

LEMMA GiveUpTypes ==
    MemoryTypes /\ DisplayTypes /\ GiveUp => MemoryTypes' /\ DisplayTypes'
<1> SUFFICES ASSUME MemoryTypes, DisplayTypes, GiveUp
             PROVE  MemoryTypes' /\ DisplayTypes'
  OBVIOUS
<1>1. DisplayTypes'
  BY ForgetTypes DEF GiveUp
<1>2. MemoryTypes'
  BY UsedType, AgedType DEF GiveUp, MemoryTypes
<1> QED
  BY <1>1, <1>2

(* Variables that a step leaves alone keep to their values. *)
LEMMA KeptTypes ==
    /\ SinkTypes /\ UNCHANGED sinkVars => SinkTypes'
    /\ MemoryTypes /\ UNCHANGED memoryVars => MemoryTypes'
    /\ DisplayTypes /\ UNCHANGED displayVars => DisplayTypes'
    /\ ConfigTypes /\ UNCHANGED configVars => ConfigTypes'
    /\ ScreenTypes /\ UNCHANGED <<screenVars, poolVars>> => ScreenTypes'
    /\ RunTypes /\ UNCHANGED <<pc, frame>> => RunTypes'
BY DEF sinkVars, memoryVars, displayVars, configVars, screenVars, poolVars,
       SinkTypes, MemoryTypes, DisplayTypes, ConfigTypes, ScreenTypes, RunTypes

LEMMA DrmKept ==
    SinkTypes /\ MemoryTypes /\ DisplayTypes /\ UNCHANGED drmVars
        => SinkTypes' /\ MemoryTypes' /\ DisplayTypes'
<1> SUFFICES ASSUME SinkTypes, MemoryTypes, DisplayTypes, UNCHANGED drmVars
             PROVE  SinkTypes' /\ MemoryTypes' /\ DisplayTypes'
  OBVIOUS
<1>1. UNCHANGED sinkVars /\ UNCHANGED memoryVars /\ UNCHANGED displayVars
  BY DEF drmVars
<1> QED
  BY <1>1, KeptTypes

(* The settings are what SinkAssumption says. *)
LEMMA SettingTypes ==
    ASSUME ConfigTypes
    PROVE  /\ set.flips \in Nat /\ set.memory \in 0..MaxFrames
           /\ set.zero \in BOOLEAN /\ set.pool \in BOOLEAN
           /\ set.vsync \in BOOLEAN /\ set.clear \in BOOLEAN
           /\ set.pan \in BOOLEAN
BY SinkAssumption DEF ConfigTypes

(* However many are asked for, there is at least one screen and at most    *)
(* what the memory holds.                                                  *)
LEMMA ScreenCount ==
    ASSUME ConfigTypes, NEW pooled \in BOOLEAN
    PROVE  /\ Limit \in 0..MaxFrames
           /\ ScreensFor(pooled) \in 1..MaxFrames
<1>1. set.flips \in Nat /\ maxFrames \in 0..MaxFrames /\ MaxFrames \in Nat \ {0}
  BY SettingTypes, DrmAssumption DEF ConfigTypes
<1>2. Limit \in 0..MaxFrames
  BY <1>1 DEF Limit
<1> QED
  BY <1>1, <1>2 DEF ScreensFor

(* The steps of the device that FramebufferSink's actions are made of. *)
LEMMA DisplayStepTypes ==
    ASSUME SinkTypes, MemoryTypes, DisplayTypes
    PROVE  /\ OpenFails \/ HandleEvents \/ SkipFlip \/ SetPlane \/ SetPlaneFails
              \/ FlipFails \/ FlipDone \/ VerticalBlank
                => SinkTypes' /\ MemoryTypes' /\ DisplayTypes'
           /\ \A m \in Mems \cup {None} :
                AskFlip(m) => SinkTypes' /\ MemoryTypes' /\ DisplayTypes'
           /\ OpenSucceeds => SinkTypes' /\ DisplayTypes'
           /\ CloseDevice => SinkTypes' /\ MemoryTypes' /\ DisplayTypes'
<1>1. ASSUME OpenFails PROVE SinkTypes' /\ MemoryTypes' /\ DisplayTypes'
  <2>1. UNCHANGED memoryVars /\ UNCHANGED displayVars
    BY <1>1 DEF OpenFails
  <2>2. SinkTypes'
    BY <1>1 DEF OpenFails, SinkTypes
  <2> QED
    BY <2>1, <2>2, KeptTypes
<1>2. ASSUME HandleEvents PROVE SinkTypes' /\ MemoryTypes' /\ DisplayTypes'
  <2>1. UNCHANGED memoryVars
    BY <1>2 DEF HandleEvents
  <2>2. SinkTypes'
    BY <1>2 DEF HandleEvents, SinkTypes
  <2>3. DisplayTypes'
    BY <1>2 DEF HandleEvents, DisplayTypes
  <2> QED
    BY <2>1, <2>2, <2>3, KeptTypes
<1>3. ASSUME SkipFlip \/ SetPlaneFails
      PROVE  SinkTypes' /\ MemoryTypes' /\ DisplayTypes'
  BY <1>3, DrmKept DEF SkipFlip, SetPlaneFails
<1>4. ASSUME FlipFails \/ SetPlane
      PROVE  SinkTypes' /\ MemoryTypes' /\ DisplayTypes'
  <2>1. UNCHANGED memoryVars /\ UNCHANGED displayVars
    BY <1>4 DEF FlipFails, SetPlane
  <2>2. SinkTypes'
    BY <1>4 DEF FlipFails, SetPlane, SinkTypes
  <2> QED
    BY <2>1, <2>2, KeptTypes
<1>5. ASSUME FlipDone \/ VerticalBlank
      PROVE  SinkTypes' /\ MemoryTypes' /\ DisplayTypes'
  <2>1. UNCHANGED sinkVars /\ UNCHANGED memoryVars
    BY <1>5 DEF FlipDone, VerticalBlank
  <2>2. DisplayTypes'
    BY <1>5 DEF FlipDone, VerticalBlank, DisplayTypes
  <2> QED
    BY <2>1, <2>2, KeptTypes
<1>6. ASSUME NEW m \in Mems \cup {None}, AskFlip(m)
      PROVE  SinkTypes' /\ MemoryTypes' /\ DisplayTypes'
  <2>1. UNCHANGED memoryVars
    BY <1>6 DEF AskFlip
  <2>2. Named(m) \ {None} \subseteq Screens
    BY DEF Named, Screens, MemoryTypes
  <2>3. SinkTypes'
    BY <1>6 DEF AskFlip, SinkTypes
  <2>4. DisplayTypes'
    BY <1>6, <2>2 DEF AskFlip, DisplayTypes
  <2> QED
    BY <2>1, <2>3, <2>4, KeptTypes
<1>7. ASSUME OpenSucceeds PROVE SinkTypes' /\ DisplayTypes'
  <2>1. SinkTypes'
    BY <1>7 DEF OpenSucceeds, SinkTypes
  <2> QED
    BY <1>7, <2>1, KeptTypes DEF OpenSucceeds
<1>8. ASSUME CloseDevice PROVE SinkTypes' /\ MemoryTypes' /\ DisplayTypes'
  <2>1. SinkTypes'
    BY <1>8 DEF CloseDevice, SinkTypes
  <2>2. MemoryTypes'
    BY <1>8 DEF CloseDevice, MemoryTypes
  <2>3. DisplayTypes'
    BY <1>8 DEF CloseDevice, DisplayTypes
  <2> QED
    BY <2>1, <2>2, <2>3
<1> QED
  BY <1>1, <1>2, <1>3, <1>4, <1>5, <1>6, <1>7, <1>8

LEMMA ResetTypes ==
    ASSUME MemoryTypes, DisplayTypes, ScreenTypes, ConfigTypes, ResetSink
    PROVE  /\ MemoryTypes' /\ DisplayTypes'
           /\ slots' = 0 /\ used' = 0 /\ index' = 0 /\ overrun' = FALSE
           /\ pool' = None /\ usePool' \in BOOLEAN /\ vsync' \in BOOLEAN
BY GiveUpTypes, SettingTypes DEF ResetSink

LEMMA ApplicationTypes == Types /\ Application => Types'
<1> SUFFICES ASSUME Types, Application PROVE Types'
  OBVIOUS
<1> USE DEF Types
<1>0. set.pool \in BOOLEAN /\ set.vsync \in BOOLEAN /\ set.memory \in 0..MaxFrames
  BY SettingTypes
<1>1. CASE SetProperty
  <2>1. ConfigTypes'
    BY <1>1 DEF SetProperty, ConfigTypes
  <2> QED
    BY <1>1, <2>1, DrmKept, KeptTypes DEF SetProperty
<1>2. CASE StartFails
  <2>1. ConfigTypes' /\ ScreenTypes' /\ RunTypes'
    BY <1>0, <1>2 DEF StartFails, ConfigTypes, ScreenTypes, RunTypes, screenVars, poolVars
  <2> QED
    BY <1>2, <2>1, DisplayStepTypes DEF StartFails
<1>3. CASE StartCrashes
  <2>1. RunTypes'
    BY <1>3 DEF StartCrashes, RunTypes
  <2> QED
    BY <1>3, <2>1, DrmKept, KeptTypes DEF StartCrashes
<1>4. CASE Start
  <2>1. ConfigTypes' /\ ScreenTypes' /\ RunTypes'
    BY <1>0, <1>4, FrameBound DEF Start, ConfigTypes, ScreenTypes, RunTypes, poolVars
  <2>2. MemoryTypes'
    <3>1. CASE Benchmark
      BY <1>0, <3>1 DEF Benchmark, MemoryTypes, Screens
    <3>2. CASE UNCHANGED memoryVars
      BY <3>2, KeptTypes
    <3> QED
      BY <1>4, <3>1, <3>2 DEF Start
  <2> QED
    BY <1>4, <2>1, <2>2, DisplayStepTypes DEF Start
<1>5. CASE ReadyToPaused
  <2>1. ConfigTypes' /\ ScreenTypes' /\ RunTypes'
    BY <1>5 DEF ReadyToPaused, ConfigTypes, ScreenTypes, RunTypes, screenVars, poolVars
  <2> QED
    BY <1>5, <2>1, DrmKept DEF ReadyToPaused
<1>6. CASE PausedToReady
  <2>0. ConfigTypes' /\ RunTypes'
    BY <1>6, ResetTypes DEF PausedToReady, ConfigTypes, RunTypes
  <2>1. ScreenTypes'
    <3>1. /\ slots' = 0 /\ used' = 0 /\ index' = 0 /\ pool' = None
          /\ buffers' = None
      BY <1>6, ResetTypes DEF PausedToReady
    <3>2. overrun' = FALSE
      BY <1>6, Zenon DEF PausedToReady, ResetSink
    <3>3. 0 \in Nat
      OBVIOUS
    <3> QED
      BY <3>1, <3>2, <3>3, FrameBound, Zenon DEF ScreenTypes
  <2>2. SinkTypes'
    BY <1>6, KeptTypes DEF PausedToReady
  <2> QED
    BY <1>6, <2>0, <2>1, <2>2, ResetTypes DEF PausedToReady
<1>7. CASE ResetCrashes
  <2>1. RunTypes'
    BY <1>7 DEF ResetCrashes, RunTypes
  <2> QED
    BY <1>7, <2>1, DrmKept, KeptTypes DEF ResetCrashes
<1>8. CASE Stop
  <2>0. ConfigTypes' /\ RunTypes'
    BY <1>8, ResetTypes DEF Stop, ConfigTypes, RunTypes
  <2>1. ScreenTypes'
    <3>1. /\ slots' = 0 /\ used' = 0 /\ index' = 0 /\ pool' = None
          /\ buffers' = buffers
      BY <1>8, ResetTypes DEF Stop
    <3>2. overrun' = FALSE
      BY <1>8, Zenon DEF Stop, ResetSink
    <3>3. 0 \in Nat
      OBVIOUS
    <3> QED
      BY <3>1, <3>2, <3>3, FrameBound, Zenon DEF ScreenTypes
  <2>2. SinkTypes'
    BY <1>8, KeptTypes DEF Stop
  <2> QED
    BY <1>8, <2>0, <2>1, <2>2, ResetTypes DEF Stop
<1> QED
  BY <1>1, <1>2, <1>3, <1>4, <1>5, <1>6, <1>7, <1>8 DEF Application

LEMMA ClearTypes ==
    ASSUME MemoryTypes, NEW n \in Nat, ClearScreens(n)
    PROVE  MemoryTypes'
<1>1. PICK ok, late \in SUBSET {m \in Mems : set.clear /\ m < n} :
        AllocActual([m \in Mems |-> IF m < n THEN "lazy" ELSE "none"],
                    {}, Used, Aged(physical), ok, late)
  BY DEF ClearScreens
<1>2. ok \in SUBSET Mems /\ late \in SUBSET Mems
  OBVIOUS
<1>3. [m \in Mems |-> IF m < n THEN "lazy" ELSE "none"]
         \in [Mems -> {"none", "lazy", "actual"}]
  OBVIOUS
<1>4. Used \in Nat /\ Aged(physical) \in Screens \cup {None} /\ {} \in SUBSET Mems
  BY UsedType, AgedType DEF MemoryTypes
<1> QED
  BY <1>1, <1>2, <1>3, <1>4, AllocTypes

LEMMA NegotiationTypes == Types /\ (Negotiation \/ Arrival) => Types'
<1> SUFFICES ASSUME Types, Negotiation \/ Arrival PROVE Types'
  OBVIOUS
<1> USE DEF Types
<1>0. /\ Limit \in 0..MaxFrames /\ MaxFrames \in Nat
      /\ ScreensFor(TRUE) \in 1..MaxFrames /\ ScreensFor(FALSE) \in 1..MaxFrames
  BY ScreenCount, DrmAssumption
<1>1. ASSUME NEW size \in Sizes, SetCapsPool(size) PROVE Types'
  <2>1. ConfigTypes' /\ ScreenTypes' /\ RunTypes'
    <3>1. used' \in Nat
      BY <1>0, <1>1, FrameBound, Zenon DEF SetCapsPool
    <3> QED
      BY <1>0, <1>1, <3>1 DEF SetCapsPool, ConfigTypes, ScreenTypes, RunTypes
  <2> QED
    BY <1>1, <2>1, DrmKept DEF SetCapsPool
<1>2. ASSUME NEW size \in Sizes, SetCapsScreens(size) PROVE Types'
  <2>0. /\ used' = (IF set.zero THEN 1 ELSE ScreensFor(FALSE)) /\ slots' = used'
        /\ buffers' = None /\ UNCHANGED <<index, pool, pc, frame>>
        /\ overrun' = (overrun \/ slots' < slots) /\ ClearScreens(slots')
    BY <1>2, Zenon DEF SetCapsScreens
  <2>1. used' \in 1..MaxFrames /\ slots' \in 1..MaxFrames
    BY <1>0, <2>0, FrameBound, Zenon
  <2>2. ConfigTypes'
    BY <1>0, <1>2 DEF SetCapsScreens, ConfigTypes
  <2>3. ScreenTypes' /\ RunTypes'
    BY <1>0, <2>0, <2>1, FrameBound DEF ScreenTypes, RunTypes
  <2>4. MemoryTypes'
    <3>1. slots' \in Nat
      BY <1>0, <2>1
    <3> QED
      BY <2>0, <3>1, ClearTypes
  <2>5. SinkTypes' /\ DisplayTypes'
    BY <1>2, KeptTypes, ForgetTypes DEF SetCapsScreens
  <2> QED
    BY <2>2, <2>3, <2>4, <2>5
<1>3. CASE ProposePool
  <2>1. ConfigTypes' /\ SinkTypes' /\ DisplayTypes'
    BY <1>3, KeptTypes DEF ProposePool
  <2>2. ScreenTypes' /\ RunTypes'
    BY <1>3 DEF ProposePool, ScreenTypes, RunTypes, screenVars, ConfigTypes
  <2>3. MemoryTypes'
    BY <1>3 DEF ProposePool, MemoryTypes
  <2> QED
    BY <2>1, <2>2, <2>3
<1>4. CASE FrameInSystemMemory
  <2>1. RunTypes'
    BY <1>4 DEF FrameInSystemMemory, RunTypes
  <2> QED
    BY <1>4, <2>1, DrmKept, KeptTypes DEF FrameInSystemMemory
<1>5. ASSUME NEW m \in Mems, FrameInVideoMemory(m) PROVE Types'
  <2>1. RunTypes'
    BY <1>5 DEF FrameInVideoMemory, RunTypes
  <2>2. MemoryTypes'
    BY <1>5, MapTypes DEF FrameInVideoMemory
  <2> QED
    BY <1>5, <2>1, <2>2, KeptTypes DEF FrameInVideoMemory
<1>6. CASE FrameOfOldPool
  <2>1. RunTypes'
    BY <1>6 DEF FrameOfOldPool, RunTypes
  <2>2. MemoryTypes'
    BY <1>6 DEF FrameOfOldPool, MemoryTypes, Screens
  <2> QED
    BY <1>6, <2>1, <2>2, KeptTypes DEF FrameOfOldPool
<1> QED
  BY <1>1, <1>2, <1>3, <1>4, <1>5, <1>6 DEF Negotiation, Arrival

LEMMA WorkTypes == Types /\ (Work \/ Switch \/ Blank) => Types'
<1> SUFFICES ASSUME Types, Work \/ Switch \/ Blank PROVE Types'
  OBVIOUS
<1> USE DEF Types
<1>0. \A m \in Nat : m < slots => m \in Mems
  BY DrmAssumption DEF ScreenTypes, Mems
<1>1. CASE InputUnmapped \/ NoScreen \/ IgnoreFrame \/ PanFlushed \/ CloseFlushed
           \/ CloseCrashes
  <2>1. /\ UNCHANGED drmVars /\ UNCHANGED configVars
        /\ UNCHANGED <<screenVars, poolVars>>
    BY <1>1 DEF InputUnmapped, NoScreen, IgnoreFrame, PanFlushed, CloseFlushed,
                CloseCrashes
  <2>2. RunTypes'
    BY <1>1 DEF InputUnmapped, NoScreen, IgnoreFrame, PanFlushed, CloseFlushed,
                CloseCrashes, RunTypes
  <2> QED
    BY <2>1, <2>2, DrmKept, KeptTypes
<1>2. CASE ShowPlane
  <2>1. index \in Mems
    BY <1>0, <1>2 DEF ShowPlane, HasScreen, ScreenTypes
  <2>2. ScreenTypes' /\ RunTypes'
    BY <1>2, <2>1 DEF ShowPlane, Pan, ScreenTypes, RunTypes, poolVars
  <2>3. DisplayTypes'
    BY <1>2 DEF ShowPlane, WaitForVsync, DisplayTypes
  <2> QED
    BY <1>2, <2>2, <2>3, KeptTypes DEF ShowPlane, Pan
<1>3. CASE CopyFrame
  <2>1. index \in Mems
    BY <1>0, <1>3 DEF CopyFrame, HasScreen, ScreenTypes
  <2>2. ScreenTypes' /\ RunTypes'
    BY <1>3, <2>1 DEF CopyFrame, Pan, ScreenTypes, RunTypes, poolVars
  <2>3. DisplayTypes'
    BY <1>3 DEF CopyFrame, WaitForVsync, DisplayTypes
  <2>4. MemoryTypes'
    BY <1>3, <2>1, MapTypes DEF CopyFrame, PutImage
  <2> QED
    BY <1>3, <2>2, <2>3, <2>4, KeptTypes DEF CopyFrame, Pan
<1>4. CASE ShowBuffer
  <2>1. ScreenTypes' /\ RunTypes'
    BY <1>4 DEF ShowBuffer, Pan, ScreenTypes, RunTypes, poolVars
  <2>2. DisplayTypes'
    BY <1>4 DEF ShowBuffer, WaitForVsync, DisplayTypes
  <2> QED
    BY <1>4, <2>1, <2>2, KeptTypes DEF ShowBuffer, Pan
<1>5. CASE PanSetsPlane
  <2>1. frame \in Mems \cup {None} /\ RunTypes'
    BY <1>5 DEF PanSetsPlane, RunTypes
  <2> QED
    BY <1>5, <2>1, DisplayStepTypes, KeptTypes DEF PanSetsPlane
<1>6. CASE PanHandlesEvents \/ CloseHandlesEvents
  BY <1>6, DisplayStepTypes, KeptTypes DEF PanHandlesEvents, CloseHandlesEvents
<1>7. ASSUME Shown PROVE ConfigTypes' /\ ScreenTypes' /\ RunTypes'
  <2>1. ScreenTypes'
    BY <1>7 DEF Shown, ScreenTypes, poolVars
  <2>2. RunTypes'
    BY <1>7 DEF Shown, RunTypes
  <2> QED
    BY <1>7, <2>1, <2>2, KeptTypes DEF Shown
<1>8. CASE PanSetsNoPlane \/ PanSkips \/ PanFlips \/ PanFails
  <2>1. frame \in Mems \cup {None}
    BY DEF RunTypes
  <2> QED
    BY <1>7, <1>8, <2>1, DisplayStepTypes
       DEF PanSetsNoPlane, PanSkips, PanFlips, PanFails
<1>9. CASE CloseEnds
  <2>1. ConfigTypes' /\ ScreenTypes' /\ RunTypes'
    BY <1>9 DEF CloseEnds, ConfigTypes, ScreenTypes, RunTypes, screenVars, poolVars
  <2> QED
    BY <1>9, <2>1, DisplayStepTypes DEF CloseEnds
<1>10. CASE Switch \/ Blank
  BY <1>10, DisplayStepTypes, KeptTypes DEF Switch, Blank
<1> QED
  BY <1>1, <1>2, <1>3, <1>4, <1>5, <1>6, <1>8, <1>9, <1>10 DEF Work

(* Every variable keeps to its values. *)
THEOREM TypesInvariant == Spec => []Types
<1>1. Init => Types
  <2> SUFFICES ASSUME Init PROVE Types
    OBVIOUS
  <2>1. SinkTypes /\ MemoryTypes /\ DisplayTypes
    BY DEF Init, DrmInit, SinkTypes, MemoryTypes, DisplayTypes, Screens
  <2>2. ConfigTypes
    BY FrameBound, Zenon DEF Init, ConfigTypes
  <2>3. ScreenTypes /\ RunTypes
    <3>1. 0 \in Nat
      OBVIOUS
    <3> QED
      BY <3>1, FrameBound, Zenon DEF Init, ScreenTypes, RunTypes
  <2> QED
    BY <2>1, <2>2, <2>3 DEF Types
<1>2. Types /\ [Next]_vars => Types'
  <2>1. CASE Next
    BY <2>1, ApplicationTypes, NegotiationTypes, WorkTypes DEF Next
  <2>2. ASSUME Types, UNCHANGED vars PROVE Types'
    BY <2>2, DrmKept, KeptTypes DEF vars, Types
  <2> QED
    BY <2>1, <2>2
<1> QED
  BY <1>1, <1>2, PTL DEF Spec

(* So the state of the sink and of the device has its types.               *)
THEOREM Typed == Spec => []TypeOK
BY TypesInvariant, TypesIsTypeOK, PTL

-----------------------------------------------------------------------------
(* Page flips. *)

(* Frames are shown while the element is paused, and the device is closed  *)
(* on the way down. *)
Where ==
    /\ pc \in {"show", "plane", "flush", "flip", "no screen"} => state = "paused"
    /\ pc \in {"close", "wait"} => state = "ready"

FlipInv ==
    /\ FlipCovered
    /\ flip # None => "flip" \notin events
    /\ state = "null" => flip = None /\ events = {} /\ ~vblank
    /\ PendingIsReal

LEMMA WhereKept == Types /\ Where /\ [Next]_vars => Where'
<1> SUFFICES ASSUME Where, [Next]_vars PROVE Where'
  OBVIOUS
<1>1. CASE Application
  BY <1>1 DEF Application, SetProperty, StartFails, StartCrashes, Start,
     ReadyToPaused, PausedToReady, ResetCrashes, Stop, configVars, Where
<1>2. CASE Negotiation \/ Arrival
  BY <1>2 DEF Negotiation, Arrival, SetCapsPool, SetCapsScreens, NewCaps,
     ProposePool, FrameInSystemMemory, FrameOfOldPool, FrameInVideoMemory,
     configVars, Where
<1>3. CASE Work
  <2>1. CASE InputUnmapped \/ NoScreen \/ ShowPlane \/ CopyFrame \/ ShowBuffer
             \/ IgnoreFrame
    BY <2>1 DEF InputUnmapped, NoScreen, ShowPlane, CopyFrame, ShowBuffer,
       IgnoreFrame, Pan, configVars, Where
  <2>2. CASE PanSetsPlane \/ PanSetsNoPlane \/ PanHandlesEvents \/ PanFlushed
             \/ PanSkips \/ PanFlips \/ PanFails
    BY <2>2 DEF PanSetsPlane, PanSetsNoPlane, PanHandlesEvents, PanFlushed,
       PanSkips, PanFlips, PanFails, Shown, configVars, Where
  <2>3. CASE CloseHandlesEvents \/ CloseFlushed \/ CloseEnds \/ CloseCrashes
    BY <2>3 DEF CloseHandlesEvents, CloseFlushed, CloseEnds, CloseCrashes,
       configVars, Where
  <2> QED
    BY <1>3, <2>1, <2>2, <2>3 DEF Work
<1>4. CASE Switch \/ Blank
  BY <1>4 DEF Switch, Blank, configVars, Where
<1>5. CASE UNCHANGED vars
  BY <1>5 DEF vars, configVars, Where
<1> QED
  BY <1>1, <1>2, <1>3, <1>4, <1>5 DEF Next

FlipStep == [Flips!Next]_<<pending, flip>>

(* A step that has nothing to do with flips, but may give up the memory of *)
(* the frame that the display is about to show. *)
LEMMA FlipUntouched ==
    ASSUME DisplayTypes, FlipInv, flip' = flip \/ flip' = Aged(flip),
           UNCHANGED <<fd, pending, refused, events, vblank>>,
           state' = state \/ (state # "null" /\ state' # "null")
    PROVE  FlipInv' /\ FlipStep
<1>1. flip' = None <=> flip = None
  BY AgedType DEF DisplayTypes
<1>2. FlipInv'
  BY <1>1 DEF FlipInv, FlipCovered, PendingIsReal
<1>3. ASSUME flip = None PROVE FlipStep
  BY <1>1, <1>3 DEF FlipStep
<1>4. ASSUME flip # None PROVE FlipStep
  <2>1. pending /\ pending' = pending
    BY <1>4 DEF FlipInv, FlipCovered
  <2>2. flip' \in Screens
    BY <1>4, AgedType DEF DisplayTypes
  <2>3. Flips!Rename
    BY <1>4, <2>1, <2>2 DEF Flips!Rename
  <2> QED
    BY <2>3 DEF FlipStep, Flips!Next
<1> QED
  BY <1>2, <1>3, <1>4

(* The same of a step that asks for an event at the next vertical blank.   *)
LEMMA FlipWaits ==
    ASSUME DisplayTypes, FlipInv, state = "paused", state' = state,
           UNCHANGED <<fd, pending, refused, flip, events>>
    PROVE  FlipInv' /\ FlipStep
BY DEF FlipInv, FlipCovered, PendingIsReal, FlipStep

(* Events are read: the flag is cleared when the display has switched, and *)
(* only then. *)
LEMMA FlipLearns ==
    ASSUME Types, FlipInv, HandleEvents, state' = state, state # "null"
    PROVE  FlipInv' /\ FlipStep
<1>1. /\ events' = {} /\ UNCHANGED <<fd, refused, flip, vblank>>
      /\ pending' = (pending /\ "flip" \notin events)
  BY DEF HandleEvents
<1>2. CASE "flip" \in events
  <2>1. flip = None /\ pending /\ ~pending'
    BY <1>1, <1>2 DEF FlipInv, FlipCovered
  <2>2. pending' = FALSE
    BY <1>1, <1>2, Zenon
  <2>3. Flips!Learn
    BY <1>1, <2>1, <2>2 DEF Flips!Learn
  <2>4. FlipInv'
    BY <1>1, <2>1 DEF FlipInv, FlipCovered, PendingIsReal
  <2> QED
    BY <2>3, <2>4 DEF FlipStep, Flips!Next
<1>3. CASE "flip" \notin events
  <2>1. pending' = pending
    BY <1>1, <1>3, Zenon DEF Types, SinkTypes
  <2>2. FlipInv'
    BY <1>1, <1>3, <2>1 DEF FlipInv, FlipCovered, PendingIsReal
  <2> QED
    BY <1>1, <2>1, <2>2 DEF FlipStep
<1> QED
  BY <1>2, <1>3

(* A flip is asked for, which the display takes, or refuses. *)
LEMMA FlipAsked ==
    ASSUME Types, FlipInv, state' = state, state # "null",
           NEW m \in Mems \cup {None}, AskFlip(m) \/ FlipFails
    PROVE  FlipInv' /\ FlipStep
<1>1. flip = None /\ "flip" \notin events
  BY DEF FlipInv, FlipCovered, AskFlip, FlipFails
<1>2. CASE AskFlip(m)
  <2>1. /\ ~pending /\ pending' = TRUE /\ flip' # None
        /\ UNCHANGED <<fd, refused, vblank, events>>
    BY <1>2 DEF AskFlip
  <2>2. flip' \in Screens
    BY <1>2 DEF AskFlip, Named, Types, MemoryTypes, Screens
  <2>3. Flips!Ask
    BY <1>1, <2>1, <2>2 DEF Flips!Ask
  <2>4. FlipInv'
    BY <1>1, <2>1 DEF FlipInv, FlipCovered, PendingIsReal
  <2> QED
    BY <2>3, <2>4 DEF FlipStep, Flips!Next
<1>3. CASE FlipFails
  <2>1. /\ ~pending /\ pending' = TRUE /\ refused' = TRUE
        /\ UNCHANGED <<fd, flip, vblank, events>>
    BY <1>3 DEF FlipFails, displayVars
  <2>2. Flips!Ask
    BY <1>1, <2>1 DEF Flips!Ask
  <2>3. FlipInv'
    BY <1>1, <2>1 DEF FlipInv, FlipCovered, PendingIsReal
  <2> QED
    BY <2>2, <2>3 DEF FlipStep, Flips!Next
<1> QED
  BY <1>2, <1>3

(* The display switches. *)
LEMMA FlipSwitches ==
    ASSUME FlipInv, FlipDone, state' = state
    PROVE  FlipInv' /\ FlipStep
<1>1. /\ flip # None /\ flip' = None /\ events' = events \cup {"flip"}
      /\ UNCHANGED <<fd, pending, refused, vblank>>
  BY DEF FlipDone, sinkVars
<1>2. pending /\ state # "null"
  BY <1>1 DEF FlipInv, FlipCovered
<1>3. FlipInv'
  BY <1>1, <1>2 DEF FlipInv, FlipCovered, PendingIsReal
<1>4. Flips!Switch
  BY <1>1, <1>2 DEF Flips!Switch
<1> QED
  BY <1>3, <1>4 DEF FlipStep, Flips!Next

(* The device is opened, or closed with a flip under way. *)
LEMMA FlipOpens ==
    ASSUME SinkTypes, FlipInv, OpenSucceeds, state = "null"
    PROVE  FlipInv' /\ FlipStep
<1>1. /\ pending' = FALSE /\ flip = None /\ events = {} /\ ~vblank
      /\ UNCHANGED <<flip, events, vblank>>
  BY DEF OpenSucceeds, FlipInv, displayVars
<1>2. FlipInv'
  BY <1>1 DEF FlipInv, FlipCovered, PendingIsReal
<1>3. ASSUME pending = TRUE PROVE FlipStep
  BY <1>1, <1>3 DEF FlipStep, Flips!Next, Flips!Learn
<1>4. ASSUME pending = FALSE PROVE FlipStep
  BY <1>1, <1>4 DEF FlipStep
<1> QED
  BY <1>2, <1>3, <1>4 DEF SinkTypes

LEMMA FlipCloses ==
    ASSUME FlipInv, CloseDevice
    PROVE  FlipInv' /\ FlipStep
<1>1. /\ fd' = FALSE /\ flip' = None /\ events' = {} /\ vblank' = FALSE
      /\ pending' = pending
  BY DEF CloseDevice
<1>2. FlipInv'
  BY <1>1 DEF FlipInv, FlipCovered, PendingIsReal
<1>3. ASSUME flip = None PROVE FlipStep
  BY <1>1, <1>3 DEF FlipStep
<1>4. ASSUME flip # None PROVE FlipStep
  BY <1>1, <1>4 DEF FlipInv, FlipCovered, FlipStep, Flips!Next, Flips!Switch
<1> QED
  BY <1>2, <1>3, <1>4

LEMMA FlipKept ==
    Types /\ Where /\ FlipInv /\ [Next]_vars => FlipInv' /\ FlipStep
<1> SUFFICES ASSUME Types, Where, FlipInv, [Next]_vars
             PROVE  FlipInv' /\ FlipStep
  OBVIOUS
<1>0. DisplayTypes
  BY DEF Types
<1>1. CASE SetProperty \/ StartCrashes \/ ReadyToPaused \/ ResetCrashes
           \/ (\E size \in Sizes : SetCapsPool(size)) \/ FrameInSystemMemory
           \/ InputUnmapped \/ NoScreen \/ IgnoreFrame \/ PanSetsNoPlane
           \/ PanFlushed \/ PanSkips \/ CloseFlushed
           \/ CloseCrashes
  <2>1. UNCHANGED drmVars
    BY <1>1 DEF SetProperty, StartCrashes, ReadyToPaused, ResetCrashes,
       SetCapsPool, FrameInSystemMemory, InputUnmapped, NoScreen, IgnoreFrame,
       PanSetsNoPlane, SetPlaneFails, PanFlushed, PanSkips, SkipFlip,
       CloseFlushed, CloseCrashes
  <2>2. state' = state \/ (state # "null" /\ state' # "null")
    BY <1>1 DEF SetProperty, StartCrashes, ReadyToPaused, ResetCrashes,
       SetCapsPool, FrameInSystemMemory, InputUnmapped, NoScreen, IgnoreFrame,
       PanSetsNoPlane, PanFlushed, PanSkips, CloseFlushed, CloseCrashes, Shown, configVars
  <2>3. UNCHANGED <<fd, pending, refused, flip, events, vblank>>
    BY <2>1 DEF drmVars, sinkVars, displayVars
  <2> QED
    BY <1>0, <2>2, <2>3, FlipUntouched
<1>2. CASE PausedToReady \/ Stop \/ \E size \in Sizes : SetCapsScreens(size)
  <2>1. /\ Forget /\ UNCHANGED sinkVars
        /\ state' = state \/ (state # "null" /\ state' # "null")
    BY <1>2 DEF PausedToReady, Stop, SetCapsScreens, ResetSink, GiveUp
  <2>2. flip' = Aged(flip) /\ UNCHANGED <<fd, pending, refused, events, vblank>>
    BY <2>1 DEF Forget, sinkVars
  <2> QED
    BY <1>0, <2>1, <2>2, FlipUntouched
<1>3. CASE ProposePool \/ FrameOfOldPool \/ (\E m \in Mems : FrameInVideoMemory(m))
           \/ PanSetsPlane
  <2>1. /\ UNCHANGED <<fd, pending, refused, flip, events, vblank>>
        /\ state' = state
    BY <1>3 DEF ProposePool, FrameOfOldPool, FrameInVideoMemory, PanSetsPlane, SetPlane,
       sinkVars, displayVars, configVars
  <2> QED
    BY <1>0, <2>1, FlipUntouched
<1>4. CASE StartFails
  <2>1. /\ UNCHANGED <<pending, refused, flip, events, vblank>>
        /\ state' = state /\ state = "null"
    BY <1>4 DEF StartFails, OpenFails, displayVars
  <2> QED
    BY <2>1 DEF FlipInv, FlipCovered, PendingIsReal, FlipStep
<1>5. CASE Start
  BY <1>5, FlipOpens DEF Start, Types
<1>6. CASE ShowPlane \/ CopyFrame \/ ShowBuffer
  <2>1. /\ UNCHANGED <<fd, pending, refused, flip, events>>
        /\ state' = state /\ state = "paused"
    BY <1>6 DEF ShowPlane, CopyFrame, ShowBuffer, Pan, sinkVars, configVars, Where
  <2> QED
    BY <1>0, <2>1, FlipWaits
<1>7. CASE PanHandlesEvents \/ CloseHandlesEvents
  <2>1. HandleEvents /\ state' = state /\ state # "null"
    BY <1>7 DEF PanHandlesEvents, CloseHandlesEvents, configVars, Where
  <2> QED
    BY <2>1, FlipLearns
<1>8. CASE PanFlips \/ PanFails
  <2>1. /\ state' = state /\ state # "null" /\ frame \in Mems \cup {None}
        /\ AskFlip(frame) \/ FlipFails
    BY <1>8 DEF PanFlips, PanFails, Shown, configVars, Where, Types, RunTypes
  <2> QED
    BY <2>1, FlipAsked
<1>9. CASE CloseEnds
  BY <1>9, FlipCloses DEF CloseEnds
<1>10. CASE Switch
  <2>1. FlipDone /\ state' = state
    BY <1>10 DEF Switch, configVars
  <2> QED
    BY <2>1, FlipSwitches
<1>11. CASE Blank
  <2>1. /\ vblank /\ vblank' = FALSE /\ events' = events \cup {"vblank"}
        /\ UNCHANGED <<fd, pending, refused, flip>> /\ state' = state
    BY <1>11 DEF Blank, VerticalBlank, sinkVars, configVars
  <2>2. state # "null" /\ ("flip" \in events' <=> "flip" \in events)
    BY <2>1 DEF FlipInv
  <2> QED
    BY <2>1, <2>2 DEF FlipInv, FlipCovered, PendingIsReal, FlipStep
<1>12. CASE UNCHANGED vars
  <2>1. UNCHANGED <<fd, pending, refused, flip, events, vblank, state>>
    BY <1>12 DEF vars, drmVars, sinkVars, displayVars, configVars
  <2> QED
    BY <1>0, <2>1, FlipUntouched
<1> QED
  BY <1>1, <1>2, <1>3, <1>4, <1>5, <1>6, <1>7, <1>8, <1>9, <1>10, <1>11, <1>12
     DEF Next, Application, Negotiation, Arrival, Work

(* What is proved of page flips is an invariant.                           *)
THEOREM FlipInvariant == Spec => [](Types /\ Where /\ FlipInv)
<1>1. Init => Where /\ FlipInv
  BY DEF Init, DrmInit, Where, FlipInv, FlipCovered, PendingIsReal
<1>2. Types /\ Where /\ FlipInv /\ [Next]_vars => Where' /\ FlipInv'
  BY WhereKept, FlipKept
<1> QED
  BY <1>1, <1>2, TypesInvariant, PTL DEF Spec

(* The display is never asked for a second flip: what is under way is      *)
(* known to the sink, through opening, closing and new streams.            *)
THEOREM FlipsCovered == Spec => []FlipCovered
<1>1. FlipInv => FlipCovered
  BY DEF FlipInv
<1> QED
  BY <1>1, FlipInvariant, PTL

(* And a frame is skipped only because the display has not switched yet,   *)
(* as long as no flip was refused.                                         *)
THEOREM PendingFlips == Spec => []PendingIsReal
<1>1. FlipInv => PendingIsReal
  BY DEF FlipInv
<1> QED
  BY <1>1, FlipInvariant, PTL

(* The sink keeps the promise of PageFlip. *)
THEOREM KeepsToPageFlip == Spec => FlipSpec
<1>1. Init => Flips!Init
  BY DEF Init, DrmInit, Flips!Init
<1>2. Types /\ Where /\ FlipInv /\ [Next]_vars => [Flips!Next]_<<pending, flip>>
  BY FlipKept DEF FlipStep
<1> QED
  BY <1>1, <1>2, FlipInvariant, PTL DEF Spec, FlipSpec, Flips!Spec

-----------------------------------------------------------------------------
(* Why calls return. *)

(* Reading the events, or the display's next step, leaves fewer of them.   *)
LEMMA FewerOutstanding ==
    ASSUME Types, HandleEvents \/ FlipDone \/ VerticalBlank
    PROVE  Outstanding' < Outstanding
<1>1. CASE HandleEvents
  BY <1>1 DEF HandleEvents, Outstanding
<1>2. CASE FlipDone
  <2>1. flip # None /\ flip' = None /\ events' # {} /\ vblank' = vblank
    BY <1>2 DEF FlipDone
  <2> QED
    BY <2>1 DEF Outstanding
<1>3. CASE VerticalBlank
  <2>1. vblank = TRUE /\ vblank' = FALSE /\ events' # {} /\ flip' = flip
    BY <1>3 DEF VerticalBlank, Types, DisplayTypes
  <2> QED
    BY <2>1 DEF Outstanding
<1> QED
  BY <1>1, <1>2, <1>3

(* A call of show_frame or stop makes no step in vain: it goes on to a     *)
(* later stage or reads events, of which at most two were asked for.  Only *)
(* the application may set properties meanwhile.                           *)
THEOREM CallsProgress == Spec => CallProgress
<1>1. Types /\ [Next]_vars =>
        [{pc, pc'} \subseteq Calls =>
            \/ set' # set
            \/ Stage' < Stage
            \/ Stage' = Stage /\ Outstanding' < Outstanding]_vars
  <2> SUFFICES ASSUME Types, Next, ~UNCHANGED vars, pc \in Calls, pc' \in Calls
               PROVE  \/ set' # set
                      \/ Stage' < Stage
                      \/ Stage' = Stage /\ Outstanding' < Outstanding
    OBVIOUS
  <2>0. CASE SetProperty
    BY <2>0 DEF SetProperty, vars, configVars
  <2>1. CASE (Application /\ ~SetProperty) \/ Negotiation \/ Arrival
    <3>1. pc = "idle"
      BY <2>1 DEF Application, Negotiation, Arrival, StartFails, StartCrashes,
         Start, ReadyToPaused, PausedToReady, ResetCrashes, Stop,
         SetCapsPool, SetCapsScreens, NewCaps, ProposePool,
         FrameInSystemMemory, FrameOfOldPool, FrameInVideoMemory
    <3> QED
      BY <3>1 DEF Calls
  <2>2. CASE PanHandlesEvents \/ CloseHandlesEvents \/ Switch \/ Blank
    <3>1. pc' = pc /\ (HandleEvents \/ FlipDone \/ VerticalBlank)
      BY <2>2 DEF PanHandlesEvents, CloseHandlesEvents, Switch, Blank
    <3> QED
      BY <3>1, FewerOutstanding DEF Stage
  <2>3. CASE InputUnmapped \/ NoScreen \/ IgnoreFrame \/ PanSetsNoPlane
             \/ PanSkips \/ PanFlips \/ PanFails \/ CloseEnds
             \/ CloseCrashes
    <3>1. pc' \in {"idle", "no screen", "no output"}
      BY <2>3 DEF InputUnmapped, NoScreen, IgnoreFrame, PanSetsNoPlane,
         PanSkips, PanFlips, PanFails, CloseEnds, CloseCrashes, Shown
    <3> QED
      BY <3>1 DEF Calls
  <2>4. CASE ShowPlane \/ CopyFrame \/ ShowBuffer
    <3>1. pc = "show" /\ pc' \in {"plane", "flush"}
      BY <2>4 DEF ShowPlane, CopyFrame, ShowBuffer, Pan, Calls
    <3> QED
      BY <3>1 DEF Stage
  <2>5. CASE PanSetsPlane \/ PanFlushed \/ CloseFlushed
    <3>1. \/ pc = "plane" /\ pc' = "flush"
          \/ pc = "flush" /\ pc' = "flip"
          \/ pc = "close" /\ pc' = "wait"
      BY <2>5 DEF PanSetsPlane, PanFlushed, CloseFlushed
    <3> QED
      BY <3>1 DEF Stage
  <2> QED
    BY <2>0, <2>1, <2>2, <2>3, <2>4, <2>5 DEF Next, Work
<1> QED
  BY <1>1, TypesInvariant, PTL DEF Spec, CallProgress

-----------------------------------------------------------------------------
(* Screens. *)

(* There are screens only while the element is paused and uses no pool;    *)
(* without them the index waits at 0.                                      *)
ScreenInv ==
    /\ state # "paused" => slots = 0
    /\ slots = 0 => index = 0
    /\ slots # 0 => ~usePool
    /\ IndexInside
    /\ ZeroCopyTarget

LEMMA Counts ==
    ASSUME Types
    PROVE  /\ slots \in Nat /\ used \in Nat /\ index \in Nat
           /\ slots > 0 <=> slots # 0
<1>1. slots \in Nat
  BY FrameBound DEF Types, ScreenTypes
<1> QED
  BY <1>1 DEF Types, ScreenTypes

(* A step that has nothing to do with screens. *)
LEMMA ScreensUntouched ==
    ASSUME ScreenInv, UNCHANGED <<state, usePool, screenVars>>,
           UNCHANGED <<mem, physical, buffers>>
    PROVE  ScreenInv'
BY DEF ScreenInv, IndexInside, ZeroCopyTarget, screenVars

(* A step that leaves no screens. *)
LEMMA NoScreens ==
    ASSUME slots' = 0, index' = 0
    PROVE  ScreenInv'
BY DEF ScreenInv, IndexInside, ZeroCopyTarget

(* set_caps makes as many screens as there were, or more, or counts as an  *)
(* overrun.                                                                *)
LEMMA ScreensMade ==
    ASSUME Types, ScreenInv, NEW size \in Sizes, SetCapsScreens(size)
    PROVE  ScreenInv'
<1> USE DEF Types
<1>1. state' = "paused" /\ usePool' = FALSE /\ index' = index
  BY DEF SetCapsScreens, NewCaps
<1>2. /\ used' = (IF set.zero THEN 1 ELSE ScreensFor(FALSE)) /\ slots' = used'
      /\ overrun' = (overrun \/ slots' < slots) /\ ClearScreens(slots')
  BY Zenon DEF SetCapsScreens
<1>3. used' \in 1..MaxFrames
  BY <1>2, ScreenCount, FrameBound, Zenon
<1>4. slots' \in Nat /\ slots' > 0 /\ slots' = used'
  <2>1. slots' \in 1..MaxFrames /\ slots' = used'
    BY <1>2, <1>3, Zenon
  <2> QED
    BY <2>1, FrameBound
<1>5. IndexInside'
  <2> SUFFICES ASSUME ~overrun' PROVE index' < slots' /\ used' <= slots'
    BY DEF IndexInside
  <2>1. ~overrun /\ ~(slots' < slots)
    BY <1>2, Zenon
  <2>2. slots \in Nat /\ index \in Nat /\ (slots = 0 => index = 0)
    BY Counts DEF ScreenInv
  <2>3. slots > 0 => index < slots
    BY <2>1 DEF ScreenInv, IndexInside
  <2> QED
    BY <1>1, <1>4, <2>1, <2>2, <2>3
<1>6. ZeroCopyTarget'
  <2> SUFFICES ASSUME slots' = 1, mem'[0] = "actual" PROVE physical' = 0
    BY DEF ZeroCopyTarget
  <2>1. PICK ok, late \in SUBSET {m \in Mems : set.clear /\ m < 1} :
          AllocActual([m \in Mems |-> IF m < 1 THEN "lazy" ELSE "none"],
                      {}, Used, Aged(physical), ok, late)
    BY <1>2 DEF ClearScreens
  <2>2. 0 \in Mems /\ \A m \in Mems : m < 1 => m = 0
    BY FrameBound DEF Mems
  <2>3. 0 \in ok
    BY <2>1, <2>2 DEF AllocActual
  <2>4. physical' \in ok \cup late
    BY <2>1, <2>3 DEF AllocActual
  <2> QED
    BY <2>1, <2>2, <2>4
<1> QED
  BY <1>1, <1>4, <1>5, <1>6 DEF ScreenInv

(* A frame is copied to the screen of the index, and two are counted. *)
LEMMA ScreenCopied ==
    ASSUME Types, ScreenInv, CopyFrame
    PROVE  ScreenInv'
<1> USE DEF Types
<1>1. /\ used' = 2 /\ index < slots /\ overrun' = (overrun \/ slots = 1)
      /\ UNCHANGED <<state, usePool, slots, index, buffers>>
  BY DEF CopyFrame, Pan, HasScreen, configVars, poolVars
<1>2. PICK mapped \in BOOLEAN : MapMemory(index, mapped)
  BY DEF CopyFrame, PutImage
<1>3. index \in Nat /\ slots \in Nat /\ (slots = 1 => index = 0)
  <2>1. index \in Nat /\ slots \in Nat
    BY Counts
  <2> QED
    BY <1>1, <2>1
<1>4. IndexInside'
  <2>1. ~overrun' => slots # 1
    BY <1>1, Zenon
  <2>2. slots # 1 => 2 <= slots
    BY <1>1, <1>3
  <2> QED
    BY <1>1, <2>1, <2>2 DEF IndexInside
<1>5. ZeroCopyTarget'
  <2> SUFFICES ASSUME slots = 1, mem'[0] = "actual", buffers = None
               PROVE  physical' = 0
    BY <1>1 DEF ZeroCopyTarget
  <2>1. index = 0
    BY <1>3, Zenon
  <2>2. CASE mem[0] = "actual"
    BY <1>2, <2>1, <2>2 DEF MapMemory, memoryVars, ScreenInv, ZeroCopyTarget
  <2>3. CASE mem[0] # "actual"
    <3>1. PICK late \in {{}, {0}} :
            AllocActual(mem, fbs, orphans, physical,
                        IF mapped THEN {0} ELSE {}, late)
      BY <1>2, <2>1, <2>3 DEF MapMemory
    <3>2. mem'[0] = IF 0 \in (IF mapped THEN {0} ELSE {}) THEN "actual" ELSE mem[0]
      <4>1. 0 \in Mems
        BY FrameBound DEF Mems
      <4> QED
        BY <3>1, <4>1 DEF AllocActual
    <3>3. mapped
      BY <2>3, <3>2
    <3> QED
      BY <3>1, <3>3 DEF AllocActual
  <2> QED
    BY <2>2, <2>3
<1> QED
  BY <1>1, <1>4, <1>5 DEF ScreenInv

(* The index goes on, or starts again. *)
LEMMA ScreenShown ==
    ASSUME Types, ScreenInv, Shown, UNCHANGED <<mem, physical>>
    PROVE  ScreenInv'
<1> USE DEF Types
<1>1. /\ UNCHANGED <<state, usePool, slots, used, overrun, buffers>>
      /\ index' = IF slots = 0 THEN index
                  ELSE IF index + 1 >= used THEN 0 ELSE index + 1
  BY DEF Shown, configVars, poolVars
<1>2. index \in Nat /\ slots \in Nat /\ used \in Nat
  BY Counts
<1>3. IndexInside'
  BY <1>1, <1>2 DEF ScreenInv, IndexInside
<1>4. ZeroCopyTarget'
  BY <1>1 DEF ScreenInv, ZeroCopyTarget
<1> QED
  BY <1>1, <1>3, <1>4 DEF ScreenInv

LEMMA ScreensKept ==
    Types /\ Where /\ ScreenInv /\ [Next]_vars => ScreenInv'
<1> SUFFICES ASSUME Types, Where, ScreenInv, [Next]_vars PROVE ScreenInv'
  OBVIOUS
<1>1. CASE SetProperty \/ StartCrashes \/ ResetCrashes \/ FrameInSystemMemory
           \/ InputUnmapped \/ NoScreen \/ IgnoreFrame \/ PanFlushed
           \/ CloseFlushed \/ CloseCrashes \/ UNCHANGED vars
  <2>1. UNCHANGED <<state, usePool, screenVars, mem, physical, buffers>>
    BY <1>1 DEF SetProperty, StartCrashes, ResetCrashes, FrameInSystemMemory,
       InputUnmapped, NoScreen, IgnoreFrame, PanFlushed, CloseFlushed,
       CloseCrashes, vars, drmVars, memoryVars, configVars, poolVars
  <2> QED
    BY <2>1, ScreensUntouched
<1>2. CASE StartFails \/ ReadyToPaused \/ CloseEnds
  <2>1. state # "paused" /\ UNCHANGED screenVars
    BY <1>2 DEF StartFails, ReadyToPaused, CloseEnds, Where
  <2> QED
    BY <2>1, NoScreens DEF ScreenInv, screenVars
<1>3. CASE Start \/ PausedToReady \/ Stop
  BY <1>3, NoScreens DEF Start, PausedToReady, Stop, ResetSink
<1>4. ASSUME NEW size \in Sizes, SetCapsPool(size) PROVE ScreenInv'
  <2>1. slots' = slots /\ index' = index /\ usePool
    BY <1>4 DEF SetCapsPool, Poolable
  <2> QED
    BY <2>1, NoScreens, Zenon DEF ScreenInv
<1>5. ASSUME NEW size \in Sizes, SetCapsScreens(size) PROVE ScreenInv'
  BY <1>5, ScreensMade
<1>6. CASE ProposePool
  <2>1. /\ UNCHANGED <<state, usePool, screenVars, physical>>
        /\ buffers' # None
    BY <1>6, DrmAssumption, SinkAssumption DEF ProposePool, configVars, Types, ConfigTypes
  <2> QED
    BY <2>1 DEF ScreenInv, IndexInside, ZeroCopyTarget, screenVars
<1>7. CASE FrameOfOldPool
  <2>1. /\ UNCHANGED <<state, usePool, screenVars, buffers>> /\ buffers # None
    BY <1>7 DEF FrameOfOldPool, configVars, poolVars
  <2> QED
    BY <2>1 DEF ScreenInv, IndexInside, ZeroCopyTarget, screenVars
<1>8. ASSUME NEW m \in Mems, FrameInVideoMemory(m) PROVE ScreenInv'
  <2>1. slots' = 0 /\ index' = 0
    BY <1>8 DEF FrameInVideoMemory, ScreenInv, screenVars
  <2> QED
    BY <2>1, NoScreens
<1>9. CASE ShowPlane \/ ShowBuffer \/ PanSetsPlane \/ PanHandlesEvents
           \/ CloseHandlesEvents \/ Switch \/ Blank
  <2>1. UNCHANGED <<state, usePool, screenVars, mem, physical, buffers>>
    BY <1>9 DEF ShowPlane, ShowBuffer, PanSetsPlane, PanHandlesEvents,
       CloseHandlesEvents, Switch, Blank, Pan, SetPlane, HandleEvents,
       FlipDone, VerticalBlank, memoryVars, configVars, screenVars, poolVars
  <2> QED
    BY <2>1, ScreensUntouched
<1>10. CASE CopyFrame
  BY <1>10, ScreenCopied
<1>11. CASE PanSetsNoPlane \/ PanSkips \/ PanFlips \/ PanFails
  <2>1. Shown /\ UNCHANGED <<mem, physical>>
    BY <1>11 DEF PanSetsNoPlane, PanSkips, PanFlips, PanFails, SetPlaneFails,
       SkipFlip, AskFlip, FlipFails, drmVars, memoryVars
  <2> QED
    BY <2>1, ScreenShown
<1> QED
  BY <1>1, <1>2, <1>3, <1>4, <1>5, <1>6, <1>7, <1>8, <1>9, <1>10, <1>11
     DEF Next, Application, Negotiation, Arrival, Work

(* So is what is proved of the screens.                                    *)
THEOREM ScreenInvariant == Spec => []ScreenInv
<1>1. Init => ScreenInv
  BY DEF Init, ScreenInv, IndexInside, ZeroCopyTarget
<1> QED
  BY <1>1, ScreensKept, FlipInvariant, PTL DEF Spec

(* The index and the count stay inside the screens, whatever is negotiated *)
(* and set in whatever order, but for the two ways that IndexInside names. *)
THEOREM IndexesInside == Spec => []IndexInside
<1>1. ScreenInv => IndexInside
  BY DEF ScreenInv
<1> QED
  BY <1>1, ScreenInvariant, PTL

(* The address that the decoder is told is the one of the single screen.   *)
THEOREM ZeroCopies == Spec => []ZeroCopyTarget
<1>1. ScreenInv => ZeroCopyTarget
  BY DEF ScreenInv
<1> QED
  BY <1>1, ScreenInvariant, PTL

=============================================================================
