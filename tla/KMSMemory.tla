------------------------------ MODULE KMSMemory ------------------------------
(***************************************************************************)
(* One memory of GstKMSAllocator (sys/kms/gstkmsallocator.c): a dumb       *)
(* buffer object of the DRM device with a frame buffer made for it, which  *)
(* the threads of a pipeline map to read or write a picture.               *)
(*                                                                         *)
(* The threads of a pipeline may map a memory at the same time (two        *)
(* branches of a tee read one buffer, for example): gst_memory_map lets    *)
(* readers in together and calls mem_map and mem_unmap without a lock of   *)
(* its own.  Each user maps and unmaps in steps; Serialised says whether   *)
(* something outside the allocator keeps those calls apart.                *)
(***************************************************************************)
EXTENDS Naturals, FiniteSets

CONSTANTS
    Users,       \* threads that map the memory
    Addrs,       \* addresses mmap may return
    MaxLeaked,   \* mappings lost by add_fb, at most
    Serialised,  \* the calls to map and unmap exclude each other
    None

ASSUME NoneAssumption  == None \notin Addrs
ASSUME BoundAssumption == MaxLeaked \in Nat /\ Serialised \in BOOLEAN
ASSUME UsersAssumption == IsFiniteSet(Users)

VARIABLES
    bo,       \* the stage of the buffer object: "none", "bare" (no frame
              \* buffer yet), "fb" (not mapped for the driver yet), "ready"
    ptr,      \* bo->ptr, None for NULL
    refs,     \* bo->refs
    windows,  \* addresses where mmap put the object and munmap did not undo
    leaked,   \* mappings made by add_fb, whose address is lost
    pc,       \* where each user's call is
    view      \* the address each user was given, None if it has none

objectVars == <<bo, leaked>>
mapVars    == <<ptr, refs, windows>>
userVars   == <<pc, view>>
vars       == <<objectVars, mapVars, userVars>>

Init ==
    /\ bo = "none" /\ leaked = 0
    /\ ptr = None /\ refs = 0 /\ windows = {}
    /\ pc = [u \in Users |-> "out"] /\ view = [u \in Users |-> None]

-----------------------------------------------------------------------------
(* gst_kms_allocator_bo_alloc, stage by stage.                             *)

(* memory_create: g_malloc0 of the kms_bo, then CREATE_DUMB (a client of   *)
(* another master uses that one's object).  When the device has no room    *)
(* the kms_bo is freed again.                                              *)
CreateBo ==
    /\ bo = "none"
    /\ bo' \in {"none", "bare"}
    /\ ptr' = None /\ refs' = 0
    /\ UNCHANGED <<leaked, windows, userVars>>

(* gst_kms_allocator_memory_reset: remove the frame buffer, unmap what is  *)
(* still mapped, destroy the object and free the kms_bo.                   *)
MemoryReset ==
    /\ bo' = "none"
    /\ windows' = windows \ {ptr}
    /\ ptr' = None
    /\ UNCHANGED <<refs, userVars>>

(* add_fb, drmModeAddFB2: failing, bo_alloc drops the memory. *)
AddFb ==
    /\ bo = "bare"
    /\ UNCHANGED leaked
    /\ \/ bo' = "fb" /\ UNCHANGED <<mapVars, userVars>>
       \/ MemoryReset

(* add_fb, the rest: the object is mapped, for nobody ("out" is a local);  *)
(* bo_alloc then puts the frame buffer on the plane.  Each can fail, the   *)
(* second after the mapping is made.                                       *)
MapForNobody ==
    /\ bo = "fb"
    /\ \/ /\ bo' = "ready"
          /\ leaked < MaxLeaked /\ leaked' = leaked + 1
          /\ UNCHANGED <<mapVars, userVars>>
       \/ /\ leaked < MaxLeaked /\ leaked' = leaked + 1
          /\ MemoryReset
       \/ /\ UNCHANGED leaked
          /\ MemoryReset

(* gst_kms_allocator_free, when the last reference to the memory goes: no  *)
(* user has it mapped or is in a call.                                     *)
Free ==
    /\ bo = "ready"
    /\ \A u \in Users : pc[u] = "out" /\ view[u] = None
    /\ UNCHANGED leaked
    /\ MemoryReset

-----------------------------------------------------------------------------
(* gst_kms_memory_map                                                      *)

(* A call may start unless another one is inside and calls are serialised. *)
MayEnter == Serialised => \A u \in Users : pc[u] = "out"

Goto(u, label) == pc' = [pc EXCEPT ![u] = label]

(* "Reuse existing buffer object mapping if possible". *)
MapTestsPtr_Never(u) == Goto(u, "mmap")
MapTestsPtr(u)       == Goto(u, IF ptr # None THEN "reuse" ELSE "mmap")

MapEnters(u) ==
    /\ bo = "ready" /\ pc[u] = "out" /\ view[u] = None
    /\ MayEnter
    /\ MapTestsPtr(u)
    /\ UNCHANGED <<objectVars, mapVars, view>>

(* MAP_DUMB or mmap fails: the call returns NULL. *)
MmapFails(u) ==
    /\ pc[u] = "mmap"
    /\ Goto(u, "out")
    /\ UNCHANGED <<objectVars, mapVars, view>>

(* mmap returns a free address, which is stored. *)
Mmap(u) ==
    /\ pc[u] = "mmap"
    /\ \E a \in Addrs \ windows :
          windows' = windows \cup {a} /\ ptr' = a
    /\ Goto(u, "reuse")
    /\ UNCHANGED <<objectVars, refs, view>>

(* g_atomic_int_inc *)
IncRefs_Skip == UNCHANGED refs
IncRefs      == refs' = refs + 1

MapCounts(u) ==
    /\ pc[u] = "reuse"
    /\ IncRefs
    /\ Goto(u, "return")
    /\ UNCHANGED <<objectVars, ptr, windows, view>>

(* return kmsmem->bo->ptr, whatever it is by now *)
MapReturns(u) ==
    /\ pc[u] = "return"
    /\ view' = [view EXCEPT ![u] = ptr]
    /\ Goto(u, "out")
    /\ UNCHANGED <<objectVars, mapVars>>

-----------------------------------------------------------------------------
(* gst_kms_memory_unmap                                                    *)

(* g_atomic_int_dec_and_test: the last one goes on to munmap. *)
LastOne_OffByOne == refs <= 2
LastOne          == refs = 1

UnmapEnters(u) ==
    /\ bo = "ready" /\ pc[u] = "out" /\ view[u] # None
    /\ MayEnter
    /\ view' = [view EXCEPT ![u] = None]
    /\ refs' = refs - 1
    /\ Goto(u, IF LastOne THEN "munmap" ELSE "out")
    /\ UNCHANGED <<objectVars, ptr, windows>>

Munmap(u) ==
    /\ pc[u] = "munmap"
    /\ windows' = windows \ {ptr}
    /\ Goto(u, "clear")
    /\ UNCHANGED <<objectVars, ptr, refs, view>>

(* ptr = NULL *)
ClearPtr_Forget == UNCHANGED ptr
ClearPtr        == ptr' = None

UnmapReturns(u) ==
    /\ pc[u] = "clear"
    /\ ClearPtr
    /\ Goto(u, "out")
    /\ UNCHANGED <<objectVars, refs, windows, view>>

-----------------------------------------------------------------------------
Call(u) ==
    \/ MapEnters(u) \/ MmapFails(u) \/ Mmap(u) \/ MapCounts(u) \/ MapReturns(u)
    \/ UnmapEnters(u) \/ Munmap(u) \/ UnmapReturns(u)

Next ==
    \/ CreateBo
    \/ AddFb
    \/ MapForNobody
    \/ Free
    \/ \E u \in Users : Call(u)

Spec == Init /\ [][Next]_vars

-----------------------------------------------------------------------------
(* Properties.                                                             *)

TypeOK ==
    /\ bo \in {"none", "bare", "fb", "ready"}
    /\ ptr \in Addrs \cup {None} /\ refs \in Nat
    /\ windows \subseteq Addrs
    /\ leaked \in 0 .. MaxLeaked
    /\ pc \in [Users -> {"out", "mmap", "reuse", "return", "munmap", "clear"}]
    /\ view \in [Users -> Addrs \cup {None}]

(* The users that hold a view. *)
Viewers == {u \in Users : view[u] # None}

(* "Reuse existing buffer object mapping if possible"                      *)
(* (gstkmsallocator.c:320): the address a user was given stays mapped      *)
(* until that user unmaps it.                                              *)
ViewsMapped == \A u \in Viewers : view[u] \in windows

(* Every user is given an address when mem_map succeeds, and the same one  *)
(* as the others: the implementation of SharedMapping.                     *)
Mapping == INSTANCE SharedMapping
               WITH mapped <- Viewers,
                    window <- IF Viewers = {} THEN None ELSE ptr

MappingSpec == Mapping!Spec

(* bo->refs counts the views once no call is under way, so that the last   *)
(* unmap, and no other, closes the window; a freed memory has none open.   *)
RefsCountViews ==
    /\ (\A u \in Users : pc[u] = "out") => /\ refs = Cardinality(Viewers)
                                           /\ windows = {view[u] : u \in Viewers}
    /\ bo = "none" => windows = {}
=============================================================================
