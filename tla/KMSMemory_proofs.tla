-------------------------- MODULE KMSMemory_proofs --------------------------
(***************************************************************************)
(* Theorems about KMSMemory, for any finite set of users, when the calls   *)
(* to map and unmap exclude each other.  Without that assumption they do   *)
(* not hold: the model checker shows the race.                             *)
(***************************************************************************)
EXTENDS KMSMemory, TLAPS, FiniteSetTheorems

(* One call at a time is under way, on a memory that exists, by a user     *)
(* that has no view.                                                       *)
Exclusive ==
    /\ \A u, v \in Users : pc[u] # "out" /\ pc[v] # "out" => u = v
    /\ \A u \in Users : pc[u] # "out" => bo = "ready" /\ view[u] = None

(* bo->refs counts the views, and the one about to be given. *)
Counted == {u \in Users : view[u] # None \/ pc[u] = "return"}
RefsExact == refs = Cardinality(Counted)

(* The pointer is set exactly while somebody has a view or is on the way   *)
(* from or to one; all views are that pointer.                             *)
PtrInUse ==
    /\ \A u \in Viewers : view[u] = ptr /\ bo = "ready"
    /\ ptr # None <=>
          \/ Viewers # {}
          \/ \E u \in Users : pc[u] \in {"reuse", "return", "munmap", "clear"}
    /\ \A u \in Users : pc[u] \in {"mmap", "munmap", "clear"} => Viewers = {}
    /\ \A u \in Users : pc[u] = "mmap" => ptr = None

(* It is the only window, except between munmap and the reset of ptr. *)
OneWindow ==
    windows = IF ptr = None \/ \E u \in Users : pc[u] = "clear" THEN {}
                                                              ELSE {ptr}

IInv == TypeOK /\ Exclusive /\ RefsExact /\ PtrInUse /\ OneWindow

USE DEF vars, objectVars, mapVars, userVars, Goto

-----------------------------------------------------------------------------
LEMMA CountedFinite ==
    /\ IsFiniteSet(Counted) /\ Cardinality(Counted) \in Nat
    /\ IsFiniteSet(Counted') /\ Cardinality(Counted') \in Nat
BY UsersAssumption, FS_Subset, FS_CardinalityType DEF Counted

(* The memory starts unmapped, with nobody in map or unmap.                *)
THEOREM InitIInv == Init => IInv
<1> SUFFICES ASSUME Init PROVE IInv
  OBVIOUS
<1>1. TypeOK
  BY NoneAssumption, BoundAssumption DEF Init, TypeOK
<1>2. Counted = {} /\ Viewers = {}
  BY DEF Init, Counted, Viewers
<1>3. RefsExact
  BY <1>2, FS_EmptySet DEF Init, RefsExact
<1>4. Exclusive /\ PtrInUse /\ OneWindow
  BY <1>2 DEF Init, Exclusive, PtrInUse, OneWindow, Viewers
<1> QED
  BY <1>1, <1>3, <1>4 DEF IInv

(* Steps of the allocator happen while nobody is in a call or has a view. *)
LEMMA Unused ==
    ASSUME IInv, bo # "ready" \/ Free
    PROVE  /\ Counted = {} /\ Viewers = {}
           /\ \A u \in Users : pc[u] = "out" /\ view[u] = None
           /\ ptr = None /\ windows = {} /\ refs = 0
<1>1. \A u \in Users : pc[u] = "out" /\ view[u] = None
  BY DEF IInv, TypeOK, Exclusive, PtrInUse, Viewers, Free
<1>2. Counted = {} /\ Viewers = {}
  BY <1>1 DEF Counted, Viewers
<1>3. ptr = None /\ windows = {}
  BY <1>1, <1>2 DEF IInv, PtrInUse, OneWindow
<1>4. refs = 0
  BY <1>2, FS_EmptySet DEF IInv, RefsExact
<1> QED
  BY <1>1, <1>2, <1>3, <1>4

LEMMA ObjectStep ==
    ASSUME IInv, CreateBo \/ AddFb \/ MapForNobody \/ Free
    PROVE  IInv'
<1>1. /\ \A u \in Users : pc[u] = "out" /\ view[u] = None
      /\ ptr = None /\ windows = {} /\ refs = 0
  BY Unused DEF CreateBo, AddFb, MapForNobody
<1>2. /\ pc' = pc /\ view' = view
      /\ ptr' = None /\ windows' = {} /\ refs' = 0
      /\ bo' \in {"none", "bare", "fb", "ready"}
      /\ leaked' \in 0 .. MaxLeaked
  BY <1>1, BoundAssumption
     DEF CreateBo, AddFb, MapForNobody, Free, MemoryReset, IInv, TypeOK
<1>3. TypeOK'
  BY <1>2 DEF IInv, TypeOK
<1>4. Counted' = {} /\ Viewers' = {}
  BY <1>1, <1>2 DEF Counted, Viewers
<1>5. RefsExact'
  BY <1>2, <1>4, FS_EmptySet DEF RefsExact
<1>6. Exclusive' /\ PtrInUse' /\ OneWindow'
  BY <1>1, <1>2, <1>4 DEF Exclusive, PtrInUse, OneWindow
<1> QED
  BY <1>3, <1>5, <1>6 DEF IInv

-----------------------------------------------------------------------------
(* The calls.  A user in a call is the only one.                           *)

LEMMA Alone ==
    ASSUME IInv, Serialised, NEW u \in Users,
           pc[u] # "out" \/ (MayEnter /\ pc[u] = "out")
    PROVE  \A v \in Users : v # u => pc[v] = "out"
BY DEF IInv, Exclusive, MayEnter

(* A step that leaves everyone's view and refs alone. *)
LEMMA CallStep ==
    ASSUME IInv, Serialised, NEW u \in Users, Call(u)
    PROVE  IInv'
<1> USE DEF TypeOK
<1>1. CASE MapEnters(u)
  <2>1. \A v \in Users : v # u => pc[v] = "out"
    BY <1>1, Alone DEF MapEnters
  <2>2. /\ pc' = [pc EXCEPT ![u] = IF ptr # None THEN "reuse" ELSE "mmap"]
        /\ UNCHANGED <<bo, leaked, ptr, refs, windows, view>>
        /\ bo = "ready" /\ view[u] = None /\ pc[u] = "out"
    BY <1>1 DEF MapEnters, MapTestsPtr
  <2>3. Counted' = Counted /\ Viewers' = Viewers
    BY <2>2 DEF IInv, Counted, Viewers
  <2>4. TypeOK' /\ RefsExact'
    BY <2>2, <2>3 DEF IInv, RefsExact
  <2>5. Exclusive'
    BY <2>1, <2>2 DEF IInv, Exclusive
  <2>6. PtrInUse' /\ OneWindow'
    BY <2>1, <2>2, <2>3 DEF IInv, PtrInUse, OneWindow
  <2> QED
    BY <2>4, <2>5, <2>6 DEF IInv
<1>2. CASE MmapFails(u)
  <2>1. \A v \in Users : v # u => pc[v] = "out"
    BY <1>2, Alone DEF MmapFails
  <2>2. /\ pc' = [pc EXCEPT ![u] = "out"] /\ pc[u] = "mmap"
        /\ UNCHANGED <<bo, leaked, ptr, refs, windows, view>>
    BY <1>2 DEF MmapFails
  <2>3. Counted' = Counted /\ Viewers' = Viewers
    BY <2>2 DEF IInv, Counted, Viewers
  <2>4. TypeOK' /\ RefsExact'
    BY <2>2, <2>3 DEF IInv, RefsExact
  <2>5. Exclusive'
    BY <2>1, <2>2 DEF IInv, Exclusive
  <2>6. PtrInUse' /\ OneWindow'
    BY <2>1, <2>2, <2>3 DEF IInv, PtrInUse, OneWindow
  <2> QED
    BY <2>4, <2>5, <2>6 DEF IInv
<1>3. CASE Mmap(u)
  <2>1. \A v \in Users : v # u => pc[v] = "out"
    BY <1>3, Alone DEF Mmap
  <2>2. PICK a \in Addrs : ptr' = a /\ windows' = windows \cup {a}
    BY <1>3 DEF Mmap
  <2>3. /\ pc' = [pc EXCEPT ![u] = "reuse"] /\ pc[u] = "mmap"
        /\ UNCHANGED <<bo, leaked, refs, view>>
    BY <1>3 DEF Mmap
  <2>4. Counted' = Counted /\ Viewers' = Viewers /\ Viewers = {}
    BY <2>3 DEF IInv, Counted, Viewers, PtrInUse
  <2>5. ptr = None /\ windows = {}
    BY <2>3 DEF IInv, PtrInUse, OneWindow
  <2>6. TypeOK' /\ RefsExact'
    BY <2>2, <2>3, <2>4 DEF IInv, RefsExact
  <2>7. Exclusive'
    BY <2>1, <2>3 DEF IInv, Exclusive
  <2>8. PtrInUse' /\ OneWindow'
    BY <2>1, <2>2, <2>3, <2>4, <2>5, NoneAssumption
       DEF IInv, PtrInUse, OneWindow
  <2> QED
    BY <2>6, <2>7, <2>8 DEF IInv
<1>4. CASE MapCounts(u)
  <2>1. \A v \in Users : v # u => pc[v] = "out"
    BY <1>4, Alone DEF MapCounts
  <2>2. /\ pc' = [pc EXCEPT ![u] = "return"] /\ pc[u] = "reuse"
        /\ refs' = refs + 1 /\ UNCHANGED <<bo, leaked, ptr, windows, view>>
    BY <1>4 DEF MapCounts, IncRefs
  <2>3. u \notin Counted
    BY <2>2 DEF IInv, Exclusive, Counted
  <2>4. Counted' = Counted \cup {u} /\ Viewers' = Viewers
    BY <2>2 DEF IInv, Counted, Viewers
  <2>5. RefsExact'
    BY <2>2, <2>3, <2>4, CountedFinite, FS_AddElement DEF IInv, RefsExact
  <2>6. TypeOK'
    BY <2>2 DEF IInv
  <2>7. Exclusive'
    BY <2>1, <2>2 DEF IInv, Exclusive
  <2>8. PtrInUse' /\ OneWindow'
    BY <2>1, <2>2, <2>4 DEF IInv, PtrInUse, OneWindow
  <2> QED
    BY <2>5, <2>6, <2>7, <2>8 DEF IInv
<1>5. CASE MapReturns(u)
  <2>1. \A v \in Users : v # u => pc[v] = "out"
    BY <1>5, Alone DEF MapReturns
  <2>2. /\ pc' = [pc EXCEPT ![u] = "out"] /\ pc[u] = "return"
        /\ view' = [view EXCEPT ![u] = ptr]
        /\ UNCHANGED <<bo, leaked, ptr, refs, windows>>
    BY <1>5 DEF MapReturns
  <2>3. ptr # None /\ ptr \in Addrs /\ bo = "ready"
    BY <2>2 DEF IInv, PtrInUse, Exclusive
  <2>4. Counted' = Counted /\ Viewers' = Viewers \cup {u}
    BY <2>2, <2>3 DEF IInv, Counted, Viewers
  <2>5. TypeOK' /\ RefsExact'
    BY <2>2, <2>3, <2>4 DEF IInv, RefsExact
  <2>6. Exclusive'
    BY <2>1, <2>2 DEF IInv, Exclusive
  <2>7. \A v \in Viewers' : view'[v] = ptr' /\ bo' = "ready"
    BY <2>2, <2>3, <2>4 DEF IInv, PtrInUse
  <2>8. PtrInUse'
    BY <2>1, <2>2, <2>3, <2>4, <2>7 DEF IInv, PtrInUse
  <2>9. OneWindow'
    BY <2>1, <2>2 DEF IInv, OneWindow
  <2> QED
    BY <2>5, <2>6, <2>8, <2>9 DEF IInv
<1>6. CASE UnmapEnters(u)
  <2>1. \A v \in Users : v # u => pc[v] = "out"
    BY <1>6, Alone DEF UnmapEnters
  <2>2. /\ pc' = [pc EXCEPT ![u] = IF refs = 1 THEN "munmap" ELSE "out"]
        /\ view' = [view EXCEPT ![u] = None]
        /\ refs' = refs - 1 /\ UNCHANGED <<bo, leaked, ptr, windows>>
        /\ bo = "ready" /\ view[u] # None /\ pc[u] = "out"
    BY <1>6 DEF UnmapEnters, LastOne
  <2>3. Counted' = Counted \ {u} /\ Viewers' = Viewers \ {u}
        /\ u \in Counted /\ Counted = Viewers
    BY <2>1, <2>2 DEF IInv, Counted, Viewers
  <2>4. refs' = Cardinality(Counted')
    BY <2>2, <2>3, CountedFinite, FS_RemoveElement DEF IInv, RefsExact
  <2>5. refs = 1 <=> Viewers' = {}
    BY <2>2, <2>3, <2>4, CountedFinite, FS_EmptySet DEF IInv
  <2>6. refs' \in Nat
    BY <2>4, CountedFinite
  <2>7. TypeOK' /\ RefsExact'
    BY <2>2, <2>4, <2>6 DEF IInv, RefsExact
  <2>8. Exclusive'
    BY <2>1, <2>2 DEF IInv, Exclusive
  <2>9. ptr # None /\ u \in Viewers
    BY <2>3 DEF IInv, PtrInUse
  <2>10. PtrInUse'
    BY <2>1, <2>2, <2>3, <2>5, <2>9 DEF IInv, PtrInUse, Viewers
  <2>11. OneWindow'
    BY <2>1, <2>2 DEF IInv, OneWindow
  <2> QED
    BY <2>7, <2>8, <2>10, <2>11 DEF IInv
<1>7. CASE Munmap(u)
  <2>1. \A v \in Users : v # u => pc[v] = "out"
    BY <1>7, Alone DEF Munmap
  <2>2. /\ pc' = [pc EXCEPT ![u] = "clear"] /\ pc[u] = "munmap"
        /\ windows' = windows \ {ptr}
        /\ UNCHANGED <<bo, leaked, ptr, refs, view>>
    BY <1>7 DEF Munmap
  <2>3. Counted' = Counted /\ Viewers' = Viewers /\ Viewers = {}
    BY <2>2 DEF IInv, Counted, Viewers, PtrInUse
  <2>4. TypeOK' /\ RefsExact'
    BY <2>2, <2>3 DEF IInv, RefsExact
  <2>5. Exclusive'
    BY <2>1, <2>2 DEF IInv, Exclusive
  <2>6. PtrInUse' /\ OneWindow'
    BY <2>1, <2>2, <2>3 DEF IInv, PtrInUse, OneWindow
  <2> QED
    BY <2>4, <2>5, <2>6 DEF IInv
<1>8. CASE UnmapReturns(u)
  <2>1. \A v \in Users : v # u => pc[v] = "out"
    BY <1>8, Alone DEF UnmapReturns
  <2>2. /\ pc' = [pc EXCEPT ![u] = "out"] /\ pc[u] = "clear" /\ ptr' = None
        /\ UNCHANGED <<bo, leaked, refs, windows, view>>
    BY <1>8 DEF UnmapReturns, ClearPtr
  <2>3. Counted' = Counted /\ Viewers' = Viewers /\ Viewers = {}
    BY <2>2 DEF IInv, Counted, Viewers, PtrInUse
  <2>4. windows = {}
    BY <2>2 DEF IInv, OneWindow
  <2>5. TypeOK' /\ RefsExact'
    BY <2>2, <2>3 DEF IInv, RefsExact
  <2>6. Exclusive'
    BY <2>1, <2>2 DEF IInv, Exclusive
  <2>7. PtrInUse' /\ OneWindow'
    BY <2>1, <2>2, <2>3, <2>4 DEF IInv, PtrInUse, OneWindow
  <2> QED
    BY <2>5, <2>6, <2>7 DEF IInv
<1> QED
  BY <1>1, <1>2, <1>3, <1>4, <1>5, <1>6, <1>7, <1>8 DEF Call

-----------------------------------------------------------------------------
(* The invariant holds throughout, if calls exclude each other.            *)
THEOREM Invariant ==
    ASSUME Serialised
    PROVE  Spec => []IInv
<1>1. IInv /\ [Next]_vars => IInv'
  <2> SUFFICES ASSUME IInv, [Next]_vars PROVE IInv'
    OBVIOUS
  <2>1. CASE CreateBo \/ AddFb \/ MapForNobody \/ Free
    BY <2>1, ObjectStep
  <2>2. CASE \E u \in Users : Call(u)
    BY <2>2, CallStep
  <2>3. CASE UNCHANGED vars
    BY <2>3 DEF IInv, TypeOK, Exclusive, RefsExact, Counted, PtrInUse, Viewers,
       OneWindow
  <2> QED
    BY <2>1, <2>2, <2>3 DEF Next
<1> QED
  BY InitIInv, <1>1, PTL DEF Spec

(* When map and unmap exclude each other, an address mem_map gave to a     *)
(* user is mapped until that user gives it back.                           *)
THEOREM ViewsStayMapped ==
    ASSUME Serialised
    PROVE  Spec => []ViewsMapped
<1>1. IInv => ViewsMapped
  <2> SUFFICES ASSUME IInv, NEW u \in Viewers PROVE view[u] \in windows
    BY DEF ViewsMapped
  <2>1. ptr # None /\ view[u] = ptr
    BY DEF IInv, PtrInUse
  <2>2. \A v \in Users : pc[v] # "clear"
    BY DEF IInv, PtrInUse
  <2> QED
    BY <2>1, <2>2 DEF IInv, OneWindow
<1> QED
  BY Invariant, <1>1, PTL

(* When map and unmap exclude each other, bo->refs is the number of views  *)
(* between calls, and what is mapped is what was given out.                *)
THEOREM RefsAreViews ==
    ASSUME Serialised
    PROVE  Spec => []RefsCountViews
<1>1. IInv => RefsCountViews
  <2> SUFFICES ASSUME IInv PROVE RefsCountViews
    OBVIOUS
  <2>1. ASSUME \A u \in Users : pc[u] = "out"
        PROVE  refs = Cardinality(Viewers)
    <3>1. Counted = Viewers
      BY <2>1 DEF Counted, Viewers
    <3> QED
      BY <3>1 DEF IInv, RefsExact
  <2>2. ASSUME \A u \in Users : pc[u] = "out"
        PROVE  windows = {view[u] : u \in Viewers}
    <3>1. CASE Viewers = {}
      BY <2>2, <3>1 DEF IInv, PtrInUse, OneWindow
    <3>2. CASE Viewers # {}
      BY <2>2, <3>2 DEF IInv, PtrInUse, OneWindow
    <3> QED
      BY <3>1, <3>2
  <2>3. bo = "none" => windows = {}
    BY Unused
  <2> QED
    BY <2>1, <2>2, <2>3 DEF RefsCountViews
<1> QED
  BY Invariant, <1>1, PTL

(* When map and unmap exclude each other, the memory's state has its       *)
(* types; in particular the count never goes below zero.                   *)
THEOREM Typed ==
    ASSUME Serialised
    PROVE  Spec => []TypeOK
<1>1. IInv => TypeOK
  BY DEF IInv
<1> QED
  BY Invariant, <1>1, PTL

(* When map and unmap exclude each other, the allocator keeps the promise  *)
(* of SharedMapping.                                                       *)
THEOREM ImplementsSharedMapping ==
    ASSUME Serialised
    PROVE  Spec => MappingSpec
<1> USE DEF Mapping!Map, Mapping!Unmap
<1>1. Init => Mapping!Init
  BY DEF Init, Mapping!Init, Viewers
<1>2. IInv /\ IInv' /\ [Next]_vars =>
        [Mapping!Next]_<<Viewers, IF Viewers = {} THEN None ELSE ptr>>
  <2> SUFFICES ASSUME IInv, IInv', [Next]_vars
               PROVE  \/ Mapping!Next
                      \/ /\ Viewers' = Viewers
                         /\ Viewers # {} => ptr' = ptr
    OBVIOUS
  <2>1. CASE CreateBo \/ AddFb \/ MapForNobody \/ Free
    <3>1. \A u \in Users : view[u] = None
      BY <2>1, Unused DEF CreateBo, AddFb, MapForNobody
    <3>2. view' = view
      BY <2>1 DEF CreateBo, AddFb, MapForNobody, Free, MemoryReset
    <3> QED
      BY <3>1, <3>2 DEF Viewers
  <2>2. ASSUME NEW u \in Users, MapReturns(u)
        PROVE  Mapping!Map(u)
    <3>1. Viewers' = Viewers \cup {u} /\ u \notin Viewers
      BY <2>2 DEF MapReturns, IInv, TypeOK, PtrInUse, Exclusive, Viewers
    <3>2. ptr' = ptr /\ ptr \in Addrs
      BY <2>2 DEF MapReturns, IInv, TypeOK, PtrInUse
    <3> QED
      BY <3>1, <3>2
  <2>3. ASSUME NEW u \in Users, UnmapEnters(u)
        PROVE  Mapping!Unmap(u)
    <3>1. Viewers' = Viewers \ {u} /\ u \in Viewers /\ ptr' = ptr
      BY <2>3 DEF UnmapEnters, IInv, TypeOK, Viewers
    <3> QED
      BY <3>1
  <2>4. ASSUME NEW u \in Users, Call(u), ~MapReturns(u), ~UnmapEnters(u)
        PROVE  Viewers' = Viewers /\ (Viewers # {} => ptr' = ptr)
    <3>1. view' = view
      BY <2>4 DEF Call, MapEnters, MmapFails, Mmap, MapCounts, Munmap,
         UnmapReturns
    <3>2. Viewers # {} => ptr' = ptr
      BY <2>4 DEF Call, MapEnters, MmapFails, Mmap, MapCounts, Munmap,
         UnmapReturns, IInv, PtrInUse
    <3> QED
      BY <3>1, <3>2 DEF Viewers
  <2>5. CASE UNCHANGED vars
    BY <2>5 DEF Viewers
  <2> QED
    BY <2>1, <2>2, <2>3, <2>4, <2>5 DEF Next, Mapping!Next
<1> QED
  BY Invariant, <1>1, <1>2, PTL DEF Spec, MappingSpec, Mapping!Spec
=============================================================================
