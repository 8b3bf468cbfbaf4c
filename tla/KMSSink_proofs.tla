--------------------------- MODULE KMSSink_proofs ---------------------------
(***************************************************************************)
(* Theorems about KMSSink, for any set of memories.                        *)
(*                                                                         *)
(* HeldInv says whose each memory in use is: what anybody holds has not    *)
(* been freed, and nobody else holds what is being written.  ScreenInv     *)
(* says why each memory on the screen may be there: it is new, belongs to  *)
(* the mode setting, was shown last, or is the frame that sync waits for.  *)
(* A stream that has failed promises nothing until the sink is stopped,    *)
(* which leaves only memories of the mode setting on the screen.           *)
(***************************************************************************)
EXTENDS KMSSink, TLAPS

Kinds == {"internal", "proposed", "retired"}

HeldInv ==
    /\ producer # None => pool[producer] \in Kinds
    /\ \A m \in Mems : m \in {queue, input, frame, sample, last}
                           => pool[m] \in Kinds /\ m # producer
    /\ tmp # None => pool[tmp] = "tmp"
    /\ pc \in {"idle", "failed"} => input = None /\ frame = None
    /\ pc = "input" => frame = None
    /\ pc \in {"copy", "plane"} => frame # None
    /\ ~zero /\ pc \in {"sync", "wait"} => frame # None
    /\ pc = "copy" => frame \notin {queue, input, sample, last}
    /\ ~started => pc = "idle" /\ ~negotiated

(* x may be on the screen. *)
Justified(x) ==
    \/ x = None
    \/ x \in fresh
    \/ x = last
    \/ pool[x] \in {"tmp", "leaked"}
    \/ x = frame /\ pc \in {"sync", "wait"}

(* x is the frame, or a memory of a pool that was allocated after it. *)
Current(x) ==
    \/ x = frame
    \/ x \in fresh /\ pool[x] \in {"internal", "proposed"}

EventInv ==
    /\ stale = "none"
    /\ pc # "wait" => event = "none"

ScreenInv ==
    ~zero /\ pc # "failed" =>
        /\ EventInv
        /\ Justified(plane) /\ Justified(scanned)
        /\ pc = "sync" /\ ~modeset => Current(plane)
        /\ pc = "wait" => Current(plane)
        /\ pc = "wait" /\ event = "ready" => Current(scanned)

IInv == TypeOK /\ HeldInv

LEMMA NotMemories == Foreign \notin Mems /\ None \notin Mems /\ Foreign # None
BY SinkAssumption

-----------------------------------------------------------------------------
(* Releasing and acquiring memories. *)

(* Release frees what is retired and not held, and nothing else. *)
LEMMA ReleaseFrees ==
    ASSUME TypeOK, NEW p \in [Mems -> Pools], NEW on \in Mems \cup {None},
           NEW seen, Release(p, on, seen)
    PROVE  /\ pool' \in [Mems -> Pools]
           /\ fresh' \in SUBSET fresh
           /\ plane' \in {on, None} /\ scanned' \in {scanned, None}
           /\ \A m \in Mems : m \in HeldNext \/ p[m] # "retired"
                                  => pool'[m] = p[m]
           /\ \A m \in Mems : pool'[m] \in {p[m], "none"}
           /\ \A m \in Mems : pool'[m] # "none" /\ m \in fresh /\ m \notin seen
                                  => m \in fresh'
           /\ \A m \in Mems : m \in {plane', scanned'}
                  => pool'[m] # "none" /\ pool'[m] = p[m]
           /\ \A m \in Mems : p[m] # "none"
                              /\ (m \in HeldNext \/ p[m] # "retired")
                  => (on = m => plane' = m) /\ (scanned = m => scanned' = m)
<1> DEFINE gone == {m \in Mems : \/ p[m] = "retired" /\ m \notin HeldNext
                                 \/ p[m] = "none"}
<1>1. /\ pool' = [m \in Mems |-> IF m \in gone THEN "none" ELSE p[m]]
      /\ fresh' = (fresh \ seen) \ gone
      /\ plane' = Without(on, gone)
      /\ scanned' = Without(scanned, gone)
  BY DEF Release
<1>2. /\ fresh \subseteq Mems /\ scanned \in Mems \cup {None}
      /\ gone \subseteq Mems
  BY DEF TypeOK
<1>3. \A m \in Mems : m \in gone <=> \/ p[m] = "retired" /\ m \notin HeldNext
                                     \/ p[m] = "none"
  OBVIOUS
<1> HIDE DEF gone
<1>4. pool' \in [Mems -> Pools]
  BY <1>1 DEF Pools
<1>5. \A m \in Mems : pool'[m] = IF m \in gone THEN "none" ELSE p[m]
  BY <1>1
<1>6. \A m \in Mems : m \in {plane', scanned'} => m \notin gone
  BY <1>1, NotMemories DEF Without
<1>7. plane' \in {on, None} /\ scanned' \in {scanned, None}
  BY <1>1 DEF Without
<1>8. /\ on \notin gone => plane' = on
      /\ scanned \notin gone => scanned' = scanned
  BY <1>1 DEF Without
<1> HIDE DEF Pools
<1>9. fresh' \in SUBSET fresh
  BY <1>1
<1>10. \A m \in Mems : pool'[m] # "none" /\ m \in fresh /\ m \notin seen
                           => m \in fresh'
  BY <1>1, <1>3, <1>5
<1>11. \A m \in Mems : m \in {plane', scanned'}
                           => pool'[m] # "none" /\ pool'[m] = p[m]
  BY <1>3, <1>5, <1>6
<1>12. \A m \in Mems : /\ m \in HeldNext \/ p[m] # "retired"
                              => pool'[m] = p[m]
                       /\ pool'[m] \in {p[m], "none"}
                       /\ p[m] # "none" /\ (m \in HeldNext \/ p[m] # "retired")
                              => m \notin gone
  BY <1>3, <1>5
<1> QED
  BY <1>4, <1>7, <1>8, <1>9, <1>10, <1>11, <1>12

(* What stays on the screen keeps its pool, and is as new as it was. *)
LEMMA ReleaseShows ==
    ASSUME TypeOK, NEW p \in [Mems -> Pools], NEW on \in Mems \cup {None},
           NEW seen, Release(p, on, seen)
    PROVE  \A m \in Mems : m \in {plane', scanned'}
               => pool'[m] = p[m] /\ (m \in fresh \ seen => m \in fresh')
<1> SUFFICES ASSUME NEW m \in Mems, m \in {plane', scanned'}
             PROVE  pool'[m] = p[m] /\ (m \in fresh \ seen => m \in fresh')
  OBVIOUS
<1>1. pool'[m] # "none" /\ pool'[m] = p[m]
  BY ReleaseFrees
<1>2. pool'[m] # "none" /\ m \in fresh /\ m \notin seen => m \in fresh'
  BY ReleaseFrees
<1> QED
  BY <1>1, <1>2

LEMMA RetiredPools ==
    ASSUME TypeOK
    PROVE  /\ Retired \in [Mems -> Pools]
           /\ \A m \in Mems :
                 /\ pool[m] \in Kinds => Retired[m] = "retired"
                 /\ pool[m] \notin Kinds => Retired[m] = pool[m]
BY DEF Retired, TypeOK, Pools, Kinds

(* What is acquired was held by nobody. *)
LEMMA AcquireTakes ==
    ASSUME TypeOK, HeldInv, NEW m \in Mems, NEW name \in {"internal", "proposed"},
           Acquire(m, name)
    PROVE  /\ m \notin Held
           /\ pool' \in [Mems -> Pools]
           /\ pool'[m] = name
           /\ \A x \in Mems : pool[x] # "none" => pool'[x] = pool[x]
           /\ fresh' \subseteq Mems /\ fresh \subseteq fresh'
           /\ plane' = plane \/ (plane' = m /\ m \in fresh')
           /\ scanned' = scanned
<1>1. CASE pool[m] = name /\ m \notin Held /\ UNCHANGED memVars
  BY <1>1 DEF memVars, TypeOK
<1>2. CASE Allocate(m, name)
  <2>1. pool[m] = "none" /\ pool' = [pool EXCEPT ![m] = name]
    BY <1>2 DEF Allocate
  <2>2. m \notin Held
    BY <2>1, NotMemories DEF HeldInv, Held, Kinds, TypeOK
  <2>3. fresh' = fresh \cup {m} /\ plane' \in {m, plane} /\ scanned' = scanned
    BY <1>2 DEF Allocate
  <2> QED
    BY <2>1, <2>2, <2>3 DEF TypeOK, Pools
<1> QED
  BY <1>1, <1>2 DEF Acquire

-----------------------------------------------------------------------------
(* Types and holders. *)

(* At first nobody holds anything.                                         *)
THEOREM HeldInit == Init => IInv
BY NotMemories DEF Init, IInv, TypeOK, HeldInv, Pools, Events, Slots

(* The memories are released where they are, or after their pools are      *)
(* gone, while everybody holds what is held before or nothing.             *)
LEMMA ReleaseKeepsTypes ==
    ASSUME TypeOK, NEW p \in [Mems -> Pools], NEW on \in Mems \cup {None},
           NEW seen, Release(p, on, seen)
    PROVE  /\ pool' \in [Mems -> Pools]
           /\ {plane', scanned'} \subseteq Mems \cup {None}
           /\ fresh' \subseteq Mems
<1>1. /\ fresh \subseteq Mems /\ scanned \in Mems \cup {None}
  BY DEF TypeOK
<1> QED
  BY <1>1, ReleaseFrees

LEMMA StartHeld ==
    ASSUME IInv, StartAsClient \/ StartAsMaster
    PROVE  IInv'
<1> USE DEF IInv
<1>1. UNCHANGED <<zero, memVars, streamVars, renderVars, heldVars, eventVars>>
  BY DEF StartAsClient, StartAsMaster
<1>2. {started', negotiated', master', modeset', zero', output'}
        \subseteq BOOLEAN
  BY DEF StartAsClient, StartAsMaster, TypeOK
<1>3. TypeOK'
  BY <1>1, <1>2 DEF TypeOK, memVars, streamVars, renderVars, heldVars, eventVars
<1>4. ~started /\ negotiated' = negotiated
  BY DEF StartAsClient, StartAsMaster
<1>5. HeldInv'
  BY <1>1, <1>4 DEF HeldInv, memVars, streamVars, renderVars, heldVars, eventVars
<1> QED
  BY <1>3, <1>5

LEMMA StopHeld ==
    ASSUME IInv, Stop
    PROVE  IInv'
<1> USE DEF IInv
<1>1. Release(Retired, plane, {})
  BY DEF Stop
<1>2. plane \in Mems \cup {None}
  BY DEF TypeOK
<1>3. TypeOK'
  BY <1>1, <1>2, RetiredPools, ReleaseKeepsTypes DEF Stop, TypeOK, Slots, Events
<1>4. tmp # None => pool'[tmp] = "tmp" /\ tmp' = tmp
  <2> SUFFICES ASSUME tmp # None
               PROVE  pool'[tmp] = "tmp" /\ tmp' = tmp
    BY DEF Stop
  <2>1. tmp \in Mems /\ pool[tmp] = "tmp" /\ tmp' = tmp
    BY DEF Stop, HeldInv, TypeOK
  <2>2. Retired[tmp] = "tmp"
    BY <2>1, RetiredPools DEF Kinds
  <2> QED
    BY <1>1, <1>2, <2>1, <2>2, RetiredPools, ReleaseFrees
<1>5. HeldInv'
  BY <1>4, NotMemories DEF HeldInv, Stop
<1> QED
  BY <1>3, <1>5

LEMMA CapsHeld ==
    ASSUME IInv, SetCaps \/ ModeSetFails
    PROVE  IInv'
<1> USE DEF IInv
<1>1. /\ Release(Retired, plane, {})
      /\ UNCHANGED <<started, master, modeset, zero, output, streamVars,
                     renderVars, heldVars, eventVars>>
      /\ negotiated' \in BOOLEAN /\ started
  BY DEF SetCaps, ModeSetFails
<1>2. plane \in Mems \cup {None}
  BY DEF TypeOK
<1>3. TypeOK'
  BY <1>1, <1>2, RetiredPools, ReleaseKeepsTypes
     DEF TypeOK, streamVars, renderVars, heldVars, eventVars
<1>4. \A m \in Mems : m \in Held /\ pool[m] \in Kinds => pool'[m] = "retired"
  <2>1. Held = HeldNext
    BY <1>1 DEF Held, HeldNext, streamVars, renderVars, heldVars
  <2> QED
    BY <1>1, <1>2, <2>1, RetiredPools, ReleaseFrees
<1>5. \A m \in Mems : pool[m] = "tmp" => pool'[m] = "tmp"
  BY <1>1, <1>2, RetiredPools, ReleaseFrees DEF Kinds
<1>6. HeldInv'
  BY <1>1, <1>4, <1>5
     DEF HeldInv, TypeOK, Held, Kinds, streamVars, renderVars, heldVars
<1> QED
  BY <1>3, <1>6

(* The pools after configure_mode_setting. *)
ModePools(m, done) ==
    [x \in Mems |-> IF x \in (IF done THEN {tmp} ELSE {m}) THEN "leaked"
                    ELSE IF x = m THEN "tmp" ELSE Retired[x]]

LEMMA ModeSetPools ==
    ASSUME IInv, NEW m \in Mems, NEW done \in BOOLEAN, ModeSet(m, done)
    PROVE  /\ ModePools(m, done) \in [Mems -> Pools]
           /\ Release(ModePools(m, done), IF master \/ done THEN m ELSE plane, {})
           /\ UNCHANGED <<started, master, modeset, zero, output, streamVars,
                          renderVars, last, eventVars>>
           /\ negotiated' = done /\ tmp' = IF done THEN m ELSE tmp
           /\ started /\ pc = "idle" /\ pool[m] = "none" /\ m \notin Held
           /\ \A x \in Mems :
                 /\ pool[x] \in Kinds => ModePools(m, done)[x] = "retired"
                 /\ pool[x] \in {"tmp", "leaked"} \/ x = m
                        => ModePools(m, done)[x] \in {"tmp", "leaked"}
                 /\ x = tmp' => ModePools(m, done)[x] = "tmp"
<1> USE DEF IInv
<1>1. /\ UNCHANGED <<started, master, modeset, zero, output, streamVars,
                     renderVars, last, eventVars>>
      /\ negotiated' = done /\ tmp' = IF done THEN m ELSE tmp
      /\ started /\ pc = "idle" /\ pool[m] = "none"
  BY DEF ModeSet
<1>2. Release(ModePools(m, done), IF master \/ done THEN m ELSE plane, {})
  BY DEF ModeSet, ModePools
<1>3. m \notin Held
  BY <1>1, NotMemories DEF HeldInv, Held, Kinds, TypeOK
<1>4. ModePools(m, done) \in [Mems -> Pools]
  BY RetiredPools DEF ModePools, Pools
<1>5. \A x \in Mems : pool[x] \in Kinds => x # m /\ x # tmp
  BY <1>1, NotMemories DEF HeldInv, Kinds
<1>6. ASSUME NEW x \in Mems, pool[x] \in Kinds
      PROVE  ModePools(m, done)[x] = "retired"
  BY <1>5, <1>6, RetiredPools DEF ModePools
<1>7. ASSUME NEW x \in Mems, pool[x] \in {"tmp", "leaked"} \/ x = m
      PROVE  ModePools(m, done)[x] \in {"tmp", "leaked"}
  <2>1. x # m => Retired[x] = pool[x]
    BY <1>7, RetiredPools DEF Kinds
  <2> QED
    BY <1>7, <2>1 DEF ModePools
<1>8. ASSUME NEW x \in Mems, x = tmp'
      PROVE  ModePools(m, done)[x] = "tmp"
  <2>1. m # tmp
    BY <1>3 DEF Held
  <2>2. CASE done
    BY <1>1, <1>8, <2>1, <2>2 DEF ModePools
  <2>3. CASE ~done
    <3>1. x = tmp /\ pool[x] = "tmp"
      BY <1>1, <1>8, <2>3, NotMemories DEF HeldInv
    <3>2. Retired[x] = "tmp"
      BY <3>1, RetiredPools DEF Kinds
    <3> QED
      BY <2>1, <2>3, <3>1, <3>2 DEF ModePools
  <2> QED
    BY <2>2, <2>3
<1> QED
  BY <1>1, <1>2, <1>3, <1>4, <1>6, <1>7, <1>8

LEMMA ModeSetHeld ==
    ASSUME IInv, NEW m \in Mems, NEW done \in BOOLEAN, ModeSet(m, done)
    PROVE  IInv'
<1> USE DEF IInv
<1> DEFINE p == ModePools(m, done)
           on == IF master \/ done THEN m ELSE plane
<1>1. on \in Mems \cup {None}
  BY DEF TypeOK
<1>2. p \in [Mems -> Pools] /\ Release(p, on, {})
  BY ModeSetPools
<1> HIDE DEF p, on
<1>3. /\ UNCHANGED <<started, master, modeset, zero, output, streamVars,
                     renderVars, last, eventVars>>
      /\ negotiated' = done /\ tmp' = IF done THEN m ELSE tmp
      /\ m \notin Held /\ started
  BY ModeSetPools
<1>4. TypeOK'
  BY <1>1, <1>2, <1>3, ReleaseKeepsTypes
     DEF TypeOK, streamVars, renderVars, eventVars
<1>5. \A x \in Mems : x \in HeldNext => pool'[x] = p[x]
  BY <1>1, <1>2, ReleaseFrees
<1>6. \A x \in Mems : x \in {producer, queue, input, frame, sample, last}
                          => x \in HeldNext
  BY <1>3 DEF HeldNext, streamVars, renderVars
<1>7. tmp' \in HeldNext
  BY DEF HeldNext
<1>8. \A x \in Mems : pool[x] \in Kinds => p[x] = "retired"
  BY ModeSetPools DEF p
<1>9. \A x \in Mems : x = tmp' => p[x] = "tmp"
  BY ModeSetPools DEF p
<1>10. tmp' # None => pool'[tmp'] = "tmp"
  BY <1>4, <1>5, <1>7, <1>9 DEF TypeOK
<1>11. /\ producer' = producer /\ queue' = queue /\ input' = input
       /\ frame' = frame /\ sample' = sample /\ last' = last /\ pc' = pc
       /\ zero' = zero /\ started' = started
  BY <1>3 DEF streamVars, renderVars
<1>12. HeldInv'
  BY <1>3, <1>5, <1>6, <1>8, <1>10, <1>11 DEF HeldInv, TypeOK, Kinds
<1> QED
  BY <1>4, <1>12

(* A step that releases memories but leaves them in their pools, and gives *)
(* nobody another memory.                                                  *)
LEMMA LetGo ==
    ASSUME IInv, Release(pool, plane, {}) \/ UNCHANGED memVars
    PROVE  /\ pool' \in [Mems -> Pools]
           /\ {plane', scanned'} \subseteq Mems \cup {None}
           /\ fresh' \subseteq Mems
           /\ \A m \in Mems : m \in HeldNext => pool'[m] = pool[m]
<1>1. /\ pool \in [Mems -> Pools] /\ plane \in Mems \cup {None}
  BY DEF IInv, TypeOK
<1>2. CASE Release(pool, plane, {})
  BY <1>1, <1>2, ReleaseKeepsTypes, ReleaseFrees DEF IInv
<1>3. CASE UNCHANGED memVars
  BY <1>3 DEF memVars, IInv, TypeOK
<1> QED
  BY <1>2, <1>3

LEMMA ProducerHeld ==
    ASSUME IInv,
           \/ \E m \in Mems : ProducerAcquires(m)
           \/ \E b \in Mems \cup {Foreign} : ProducerQueues(b)
           \/ ProducerDrops
    PROVE  IInv'
<1> USE DEF IInv
<1>1. ASSUME NEW m \in Mems, ProducerAcquires(m)
      PROVE  IInv'
  <2>1. /\ Acquire(m, "proposed") /\ producer' = m
        /\ UNCHANGED <<sinkVars, queue, renderVars, heldVars, eventVars>>
    BY <1>1 DEF ProducerAcquires
  <2>2. /\ m \notin Held /\ pool'[m] = "proposed"
        /\ \A x \in Mems : pool[x] # "none" => pool'[x] = pool[x]
    BY <2>1, AcquireTakes
  <2>3. TypeOK'
    BY <2>1, AcquireTakes DEF TypeOK, sinkVars, renderVars, heldVars, eventVars
  <2>4. HeldInv'
    BY <2>1, <2>2 DEF HeldInv, Held, Kinds, TypeOK, sinkVars, renderVars, heldVars
  <2> QED
    BY <2>3, <2>4
<1>2. ASSUME NEW b \in Mems \cup {Foreign}, ProducerQueues(b)
      PROVE  IInv'
  <2>1. /\ b \in {producer, Foreign} /\ queue' = b
        /\ producer' = IF b = producer THEN None ELSE producer
        /\ UNCHANGED <<sinkVars, memVars, renderVars, heldVars, eventVars>>
    BY <1>2 DEF ProducerQueues
  <2>2. TypeOK'
    BY <2>1 DEF TypeOK, Slots, sinkVars, memVars, renderVars, heldVars, eventVars
  <2>3. HeldInv'
    BY <2>1, NotMemories
       DEF HeldInv, TypeOK, sinkVars, memVars, renderVars, heldVars
  <2> QED
    BY <2>2, <2>3
<1>3. ASSUME ProducerDrops
      PROVE  IInv'
  <2>1. /\ producer' = None /\ Release(pool, plane, {})
        /\ UNCHANGED <<sinkVars, queue, renderVars, heldVars, eventVars>>
    BY <1>3 DEF ProducerDrops
  <2>2. TypeOK'
    BY <2>1, LetGo DEF TypeOK, sinkVars, renderVars, heldVars, eventVars
  <2>3. HeldInv'
    BY <2>1, LetGo, NotMemories
       DEF HeldInv, HeldNext, TypeOK, sinkVars, renderVars, heldVars
  <2> QED
    BY <2>2, <2>3
<1> QED
  BY <1>1, <1>2, <1>3

LEMMA ShowHeld ==
    ASSUME IInv, NEW b \in Mems \cup {Foreign}, ShowFrame(b)
    PROVE  IInv'
<1> USE DEF IInv
<1>1. /\ b \in {queue, sample} /\ pc = "idle" /\ negotiated
      /\ input' = b /\ sample' = b
      /\ queue' = IF b = queue THEN None ELSE queue
      /\ pc' = IF zero THEN "sync" ELSE "input"
      /\ UNCHANGED <<sinkVars, producer, frame, heldVars, eventVars>>
      /\ Release(pool, plane, {})
  BY DEF ShowFrame
<1>2. TypeOK'
  BY <1>1, LetGo DEF TypeOK, Slots, sinkVars, heldVars, eventVars
<1>3. HeldInv'
  BY <1>1, LetGo, NotMemories DEF HeldInv, HeldNext, TypeOK, sinkVars, heldVars
<1> QED
  BY <1>2, <1>3

LEMMA FailsHeld ==
    ASSUME IInv, Fails, pc # "idle", event' \in Events, stale' \in Events
    PROVE  IInv'
<1> USE DEF IInv
<1>1. /\ pc' \in {"failed", "idle"} /\ input' = None /\ frame' = None
      /\ UNCHANGED <<sinkVars, streamVars, sample, heldVars>>
      /\ Release(pool, plane, {})
  BY SinkAssumption DEF Fails
<1>2. TypeOK'
  BY <1>1, LetGo DEF TypeOK, Slots, sinkVars, streamVars, heldVars
<1>3. HeldInv'
  BY <1>1, LetGo, NotMemories
     DEF HeldInv, HeldNext, TypeOK, sinkVars, streamVars, heldVars
<1> QED
  BY <1>2, <1>3

(* The ways out of show_frame with an error. *)
LEMMA FailureFails ==
    ASSUME IInv,
           NoCopy \/ CopyFails \/ SetPlaneFails \/ RequestFails \/ ReadFails
    PROVE  Fails /\ pc # "idle" /\ event' \in Events /\ stale' \in Events
<1>1. CASE ReadFails
  BY <1>1 DEF ReadFails, Events
<1>2. CASE NoCopy \/ CopyFails \/ SetPlaneFails \/ RequestFails
  BY <1>2 DEF NoCopy, CopyFails, SetPlaneFails, RequestFails, eventVars, IInv,
     TypeOK
<1> QED
  BY <1>1, <1>2

LEMMA CopyHeld ==
    ASSUME IInv, NEW m \in Mems, AcquireCopy(m)
    PROVE  IInv'
<1> USE DEF IInv
<1>1. /\ pc = "input" /\ input = Foreign /\ frame' = m /\ pc' = "copy"
      /\ Acquire(m, "internal")
      /\ UNCHANGED <<sinkVars, streamVars, input, sample, heldVars, eventVars>>
  BY DEF AcquireCopy, GoesOn
<1>2. /\ m \notin Held /\ pool'[m] = "internal"
      /\ \A x \in Mems : pool[x] # "none" => pool'[x] = pool[x]
  BY <1>1, AcquireTakes
<1>3. TypeOK'
  BY <1>1, AcquireTakes DEF TypeOK, sinkVars, streamVars, heldVars, eventVars
<1>4. HeldInv'
  BY <1>1, <1>2 DEF HeldInv, Held, Kinds, TypeOK, sinkVars, streamVars, heldVars
<1> QED
  BY <1>3, <1>4

LEMMA GoesOnHeld ==
    ASSUME IInv,
           TakeInput \/ CopyDone \/ SetPlane \/ RequestEvent
    PROVE  IInv'
<1> USE DEF IInv
<1>1. CASE TakeInput
  <2>1. /\ pc = "input" /\ pc' = "plane" /\ frame' = input /\ input \in Mems
        /\ UNCHANGED <<sinkVars, streamVars, memVars, input, sample, heldVars,
                       eventVars>>
    BY <1>1 DEF TakeInput, GoesOn
  <2>2. TypeOK'
    BY <2>1 DEF TypeOK, sinkVars, streamVars, memVars, heldVars, eventVars
  <2>3. HeldInv'
    BY <2>1, NotMemories DEF HeldInv, sinkVars, streamVars, memVars, heldVars
  <2> QED
    BY <2>2, <2>3
<1>2. CASE CopyDone
  <2>1. /\ pc = "copy" /\ pc' = "plane"
        /\ UNCHANGED <<sinkVars, streamVars, memVars, input, frame, sample,
                       heldVars, eventVars>>
    BY <1>2 DEF CopyDone, GoesOn
  <2> QED
    BY <2>1 DEF TypeOK, HeldInv, sinkVars, streamVars, memVars, heldVars, eventVars
<1>3. CASE SetPlane
  <2>1. /\ pc = "plane" /\ pc' = "sync"
        /\ plane' = IF modeset THEN plane ELSE frame
        /\ UNCHANGED <<sinkVars, streamVars, pool, fresh, scanned, input, frame,
                       sample, heldVars, eventVars>>
    BY <1>3 DEF SetPlane, GoesOn
  <2>2. TypeOK'
    BY <2>1 DEF TypeOK, sinkVars, streamVars, heldVars, eventVars
  <2>3. HeldInv'
    BY <2>1 DEF HeldInv, sinkVars, streamVars, heldVars
  <2> QED
    BY <2>2, <2>3
<1>4. CASE RequestEvent
  <2>1. /\ pc = "sync" /\ pc' = "wait" /\ event' = "pending" /\ stale' = stale
        /\ plane' = IF modeset THEN frame ELSE plane
        /\ UNCHANGED <<sinkVars, streamVars, pool, fresh, scanned, input, frame,
                       sample, heldVars>>
    BY <1>4 DEF RequestEvent, GoesOn, FlipTo
  <2>2. TypeOK'
    BY <2>1 DEF TypeOK, Events, sinkVars, streamVars, heldVars
  <2>3. HeldInv'
    BY <2>1 DEF HeldInv, sinkVars, streamVars, heldVars
  <2> QED
    BY <2>2, <2>3
<1> QED
  BY <1>1, <1>2, <1>3, <1>4

(* The pools once tmp_kmsmem is released. *)
LEMMA FrameShownReleases ==
    ASSUME IInv, FrameShown
    PROVE  LET p == [m \in Mems |-> IF m = tmp THEN "none" ELSE pool[m]]
           IN  /\ p \in [Mems -> Pools] /\ Release(p, plane, {frame})
               /\ \A m \in Mems : m # tmp => p[m] = pool[m]
BY DEF FrameShown, IInv, TypeOK, Pools

LEMMA ShownHeld ==
    ASSUME IInv, FrameShown \/ ZeroCopyShown
    PROVE  IInv'
<1> USE DEF IInv
<1>1. /\ pc = "wait" /\ pc' = "idle" /\ input' = None /\ frame' = None
      /\ UNCHANGED <<sinkVars, streamVars, sample>>
      /\ event' \in Events /\ stale' \in Events
  BY DEF FrameShown, ZeroCopyShown, ReadEvent, Events
<1>2. plane \in Mems \cup {None} /\ pool \in [Mems -> Pools]
  BY DEF TypeOK
<1>3. CASE FrameShown
  <2> DEFINE p == [m \in Mems |-> IF m = tmp THEN "none" ELSE pool[m]]
  <2>1. last' = frame /\ tmp' = None
    BY <1>3 DEF FrameShown, ReplaceLast
  <2>2. /\ p \in [Mems -> Pools] /\ Release(p, plane, {frame})
        /\ \A m \in Mems : m # tmp => p[m] = pool[m]
    BY <1>3, FrameShownReleases
  <2> HIDE DEF p
  <2>3. TypeOK'
    BY <1>1, <1>2, <2>1, <2>2, ReleaseKeepsTypes
       DEF TypeOK, Slots, sinkVars, streamVars
  <2>4. \A m \in Mems : pool[m] \in Kinds => m # tmp
    BY NotMemories DEF HeldInv, Kinds
  <2>5. \A m \in Mems : m \in HeldNext /\ pool[m] \in Kinds => pool'[m] = pool[m]
    BY <1>2, <2>2, <2>4, ReleaseFrees
  <2>6. HeldInv'
    BY <1>1, <2>1, <2>5, NotMemories
       DEF HeldInv, HeldNext, TypeOK, sinkVars, streamVars
  <2> QED
    BY <2>3, <2>6
<1>4. CASE ZeroCopyShown
  <2>1. /\ UNCHANGED heldVars /\ Release(pool, plane, {input})
    BY <1>4 DEF ZeroCopyShown
  <2>2. TypeOK'
    BY <1>1, <1>2, <2>1, ReleaseKeepsTypes
       DEF TypeOK, Slots, sinkVars, streamVars, heldVars
  <2>3. \A m \in Mems : m \in HeldNext => pool'[m] = pool[m]
    BY <1>2, <2>1, ReleaseFrees
  <2>4. HeldInv'
    BY <1>1, <2>1, <2>3, NotMemories
       DEF HeldInv, HeldNext, TypeOK, sinkVars, streamVars, heldVars
  <2> QED
    BY <2>2, <2>4
<1> QED
  BY <1>3, <1>4

LEMMA VBlankHeld ==
    ASSUME IInv, VBlank
    PROVE  IInv'
<1>1. /\ scanned' = plane
      /\ UNCHANGED <<sinkVars, pool, fresh, plane, streamVars, renderVars,
                     heldVars>>
  BY DEF VBlank
<1>2. event' \in Events /\ stale' \in Events
  BY DEF VBlank, Complete, IInv, TypeOK, Events
<1> QED
  BY <1>1, <1>2
     DEF IInv, TypeOK, HeldInv, sinkVars, streamVars, renderVars, heldVars

LEMMA HeldStep == IInv /\ [Next]_vars => IInv'
<1> SUFFICES ASSUME IInv, [Next]_vars
             PROVE  IInv'
  OBVIOUS
<1>1. CASE Render
  <2>1. CASE NoCopy \/ CopyFails \/ SetPlaneFails \/ RequestFails
    BY <2>1, FailureFails, FailsHeld
  <2>2. CASE \E m \in Mems : AcquireCopy(m)
    BY <2>2, CopyHeld
  <2>3. CASE TakeInput \/ CopyDone \/ SetPlane \/ RequestEvent
    BY <2>3, GoesOnHeld
  <2>4. CASE FrameShown \/ ZeroCopyShown
    BY <2>4, ShownHeld
  <2> QED
    BY <1>1, <2>1, <2>2, <2>3, <2>4 DEF Render
<1>2. CASE ReadFails
  BY <1>2, FailureFails, FailsHeld
<1>3. CASE UNCHANGED vars
  BY <1>3 DEF vars, IInv, TypeOK, HeldInv, sinkVars, memVars, streamVars,
     renderVars, heldVars, eventVars
<1> QED
  BY <1>1, <1>2, <1>3, StartHeld, StopHeld, CapsHeld, ModeSetHeld, ProducerHeld,
     ShowHeld, VBlankHeld DEF Next

(* The types and the holders are an invariant of every sink.               *)
THEOREM HeldInvariant == Spec => []IInv
BY HeldInit, HeldStep, PTL DEF Spec

(* The state of the sink has its types, whatever follows a flow error. *)
THEOREM Typed == Spec => []TypeOK
<1>1. IInv => TypeOK
  BY DEF IInv
<1> QED
  BY <1>1, HeldInvariant, PTL

-----------------------------------------------------------------------------
(* The screen, of a sink whose stream ends with the first flow error.      *)
(* (When it goes on, an event of a failed call can arrive in a later one.) *)

ErrorsEnd == AfterError \subseteq {"failed"}

LEMMA ScreenInit == Init => ScreenInv
BY DEF Init, ScreenInv, EventInv, Justified

(* A step within a call, or between two, that frees nothing that is held   *)
(* keeps what is on the screen justified.                                  *)
LEMMA ScreenLetGo ==
    ASSUME IInv, ScreenInv, ~zero, pc # "failed",
           Release(pool, plane, {}) \/ UNCHANGED memVars,
           UNCHANGED <<sinkVars, frame, heldVars, eventVars>>,
           pc' = pc \/ (pc = "idle" /\ pc' = "input")
    PROVE  ScreenInv'
<1>1. pool \in [Mems -> Pools] /\ plane \in Mems \cup {None}
  BY DEF IInv, TypeOK
<1>2. CASE Release(pool, plane, {})
  <2>1. /\ plane' \in {plane, None} /\ scanned' \in {scanned, None}
        /\ \A m \in Mems : m \in {plane', scanned'}
               => pool'[m] = pool[m] /\ (m \in fresh => m \in fresh')
        /\ \A m \in Mems : pool[m] # "none"
                           /\ (m \in HeldNext \/ pool[m] # "retired")
               => (plane = m => plane' = m) /\ (scanned = m => scanned' = m)
    <3>1. TypeOK
      BY DEF IInv
    <3>2. /\ plane' \in {plane, None} /\ scanned' \in {scanned, None}
          /\ \A m \in Mems : pool[m] # "none"
                             /\ (m \in HeldNext \/ pool[m] # "retired")
                 => (plane = m => plane' = m) /\ (scanned = m => scanned' = m)
      BY <1>1, <1>2, <3>1, ReleaseFrees
    <3>3. \A m \in Mems : m \in {plane', scanned'}
              => pool'[m] = pool[m] /\ (m \in fresh => m \in fresh')
      BY <1>1, <1>2, <3>1, ReleaseShows
    <3> QED
      BY <3>2, <3>3
  <2>2. frame # None => pool[frame] # "none" /\ frame \in HeldNext
    BY NotMemories DEF IInv, HeldInv, Kinds, HeldNext, TypeOK
  <2>3. ASSUME Justified(plane)
        PROVE  Justified(plane)'
    BY <2>1, <2>3, <1>1, NotMemories DEF Justified, heldVars, IInv, TypeOK
  <2>4. ASSUME Justified(scanned)
        PROVE  Justified(scanned)'
    BY <2>1, <2>4, <1>1, NotMemories DEF Justified, heldVars, IInv, TypeOK
  <2>5. ASSUME pc \in {"sync", "wait"}, Current(plane)
        PROVE  Current(plane)'
    <3>1. plane \in Mems /\ plane' = plane
      <4>1. CASE plane = frame
        BY <2>1, <2>2, <2>5, <4>1, <1>1 DEF IInv, HeldInv
      <4>2. CASE plane \in fresh /\ pool[plane] \in {"internal", "proposed"}
        BY <2>1, <4>2 DEF IInv, TypeOK
      <4> QED
        BY <2>5, <4>1, <4>2 DEF Current
    <3> QED
      BY <2>1, <2>5, <3>1 DEF Current
  <2>6. ASSUME pc \in {"sync", "wait"}, Current(scanned)
        PROVE  Current(scanned)'
    <3>1. scanned \in Mems /\ scanned' = scanned
      <4>1. CASE scanned = frame
        BY <2>1, <2>2, <2>6, <4>1 DEF IInv, HeldInv, TypeOK
      <4>2. CASE scanned \in fresh /\ pool[scanned] \in {"internal", "proposed"}
        BY <2>1, <4>2 DEF IInv, TypeOK
      <4> QED
        BY <2>6, <4>1, <4>2 DEF Current
    <3> QED
      BY <2>1, <2>6, <3>1 DEF Current
  <2> QED
    BY <2>3, <2>4, <2>5, <2>6 DEF ScreenInv, EventInv, sinkVars, eventVars
<1>3. CASE UNCHANGED memVars
  BY <1>3 DEF ScreenInv, EventInv, Justified, Current, memVars, sinkVars,
     heldVars, eventVars
<1> QED
  BY <1>2, <1>3

(* A memory that is acquired is new if it comes to the screen by that. *)
LEMMA ScreenAcquire ==
    ASSUME IInv, ScreenInv, ~zero, pc # "failed", NEW m \in Mems,
           NEW name \in {"internal", "proposed"}, Acquire(m, name),
           UNCHANGED <<sinkVars, heldVars, eventVars>>,
           \/ frame' = frame /\ pc' = pc
           \/ pc = "input" /\ pc' = "copy"
    PROVE  ScreenInv'
<1>1. /\ pool'[m] = name
      /\ \A x \in Mems : pool[x] # "none" => pool'[x] = pool[x]
      /\ fresh \subseteq fresh'
      /\ plane' = plane \/ (plane' = m /\ m \in fresh')
      /\ scanned' = scanned
  BY AcquireTakes DEF IInv
<1>2. plane \in Mems \cup {None} /\ scanned \in Mems \cup {None}
  BY DEF IInv, TypeOK
<1>3. pc \in {"sync", "wait"} => frame' = frame
  OBVIOUS
<1>4. ASSUME NEW x \in Mems \cup {None}, Justified(x)
      PROVE  \/ x = None \/ x \in fresh' \/ x = last'
             \/ pool'[x] \in {"tmp", "leaked"}
             \/ x = frame' /\ pc' \in {"sync", "wait"}
  BY <1>1, <1>4 DEF Justified, heldVars
<1>5. ASSUME NEW x \in Mems \cup {None}, Current(x), pc \in {"sync", "wait"}
      PROVE  \/ x = frame'
             \/ x \in fresh' /\ pool'[x] \in {"internal", "proposed"}
  BY <1>1, <1>3, <1>5 DEF Current, IInv, TypeOK
<1>6. ScreenInv => Justified(plane) /\ Justified(scanned)
  BY DEF ScreenInv
<1>7. Justified(plane)' /\ Justified(scanned)'
  BY <1>1, <1>2, <1>4, <1>6 DEF Justified
<1>8. pc \in {"sync", "wait"} /\ Current(plane) => Current(plane)'
  BY <1>1, <1>2, <1>5 DEF Current
<1>9. pc \in {"sync", "wait"} /\ Current(scanned) => Current(scanned)'
  BY <1>1, <1>2, <1>5 DEF Current
<1> QED
  BY <1>7, <1>8, <1>9 DEF ScreenInv, EventInv, sinkVars, eventVars

LEMMA ScreenStop ==
    ASSUME IInv, Stop
    PROVE  ScreenInv'
<1>1. /\ Release(Retired, plane, {}) /\ tmp' = tmp
      /\ HeldNext = {None, tmp}
      /\ pc' = "idle" /\ event' = "none" /\ stale' = "none"
  BY DEF Stop, HeldNext
<1>2. plane \in Mems \cup {None} /\ scanned \in Mems \cup {None}
  BY DEF IInv, TypeOK
<1>3. ASSUME NEW x \in Mems, x \in {plane', scanned'}
      PROVE  pool'[x] \in {"tmp", "leaked"}
  <2>1. pool'[x] # "none" /\ pool'[x] = Retired[x] /\ pool'[x] \in Pools
    BY <1>1, <1>2, <1>3, RetiredPools, ReleaseFrees DEF IInv
  <2>2. pool[x] \notin Kinds
    <3> SUFFICES ASSUME pool[x] \in Kinds
                 PROVE  FALSE
      OBVIOUS
    <3>1. x \notin HeldNext /\ Retired[x] = "retired"
      BY <1>1, NotMemories, RetiredPools DEF IInv, HeldInv, Kinds
    <3>2. \A m \in Mems : Retired[m] = "retired" /\ m \notin HeldNext
                              => pool'[m] = "none"
      BY <1>1 DEF Release
    <3> QED
      BY <2>1, <3>1, <3>2
  <2> QED
    BY <2>1, <2>2, RetiredPools DEF Pools, Kinds, IInv
<1>4. plane' \in Mems \cup {None} /\ scanned' \in Mems \cup {None}
  BY <1>1, <1>2, RetiredPools, ReleaseKeepsTypes DEF IInv
<1> QED
  BY <1>1, <1>3, <1>4 DEF ScreenInv, EventInv, Justified

(* New caps retire the pools, but not what is on the screen. *)
LEMMA ScreenCaps ==
    ASSUME IInv, ScreenInv, SetCaps \/ ModeSetFails
    PROVE  ScreenInv'
<1>1. /\ Release(Retired, plane, {}) /\ pc = "idle"
      /\ UNCHANGED <<zero, modeset, renderVars, heldVars, eventVars>>
  BY DEF SetCaps, ModeSetFails
<1>2. plane \in Mems \cup {None} /\ scanned \in Mems \cup {None}
  BY DEF IInv, TypeOK
<1>3. /\ plane' \in {plane, None} /\ scanned' \in {scanned, None}
      /\ \A m \in Mems : m \in {plane', scanned'}
             => pool'[m] = Retired[m] /\ (m \in fresh => m \in fresh')
  <2>1. TypeOK /\ Retired \in [Mems -> Pools]
    BY RetiredPools DEF IInv
  <2>2. plane' \in {plane, None} /\ scanned' \in {scanned, None}
    BY <1>1, <1>2, <2>1, ReleaseFrees
  <2>3. \A m \in Mems : m \in {plane', scanned'}
            => pool'[m] = Retired[m] /\ (m \in fresh => m \in fresh')
    BY <1>1, <1>2, <2>1, ReleaseShows
  <2> QED
    BY <2>2, <2>3
<1>4. ASSUME NEW x \in Mems, x \in {plane', scanned'}, Justified(x)
      PROVE  \/ x \in fresh' \/ x = last' \/ pool'[x] \in {"tmp", "leaked"}
  BY <1>1, <1>3, <1>4, RetiredPools, NotMemories
     DEF Justified, heldVars, IInv, Kinds
<1>5. Justified(plane) => Justified(plane)'
  BY <1>2, <1>3, <1>4 DEF Justified
<1>6. Justified(scanned) => Justified(scanned)'
  BY <1>2, <1>3, <1>4 DEF Justified
<1> QED
  BY <1>1, <1>5, <1>6 DEF ScreenInv, EventInv, renderVars, eventVars

LEMMA ScreenModeSet ==
    ASSUME IInv, ScreenInv, NEW m \in Mems, NEW done \in BOOLEAN, ModeSet(m, done)
    PROVE  ScreenInv'
<1> DEFINE p == ModePools(m, done)
           on == IF master \/ done THEN m ELSE plane
<1>1. p \in [Mems -> Pools] /\ Release(p, on, {})
  BY ModeSetPools
<1>2. on \in {m, plane} /\ on \in Mems \cup {None}
  BY DEF IInv, TypeOK
<1>3. \A x \in Mems : pool[x] \in {"tmp", "leaked"} \/ x = m
                          => p[x] \in {"tmp", "leaked"}
  BY ModeSetPools
<1> HIDE DEF p, on
<1>4. pc = "idle" /\ UNCHANGED <<zero, modeset, last, renderVars, eventVars>>
  BY ModeSetPools
<1>5. /\ plane' \in {on, None} /\ scanned' \in {scanned, None}
      /\ \A x \in Mems : x \in {plane', scanned'}
             => pool'[x] = p[x] /\ (x \in fresh => x \in fresh')
  BY <1>1, <1>2, ReleaseFrees, ReleaseShows DEF IInv
<1>6. plane \in Mems \cup {None} /\ scanned \in Mems \cup {None}
  BY DEF IInv, TypeOK
<1>7. ASSUME NEW x \in Mems, x \in {plane', scanned'}, Justified(x) \/ x = m
      PROVE  \/ x \in fresh' \/ x = last' \/ pool'[x] \in {"tmp", "leaked"}
  BY <1>3, <1>4, <1>5, <1>7, NotMemories DEF Justified
<1>8. Justified(plane) => Justified(plane)'
  BY <1>2, <1>5, <1>6, <1>7 DEF Justified
<1>9. Justified(scanned) => Justified(scanned)'
  BY <1>5, <1>6, <1>7 DEF Justified
<1> QED
  BY <1>4, <1>8, <1>9 DEF ScreenInv, EventInv, renderVars, eventVars

LEMMA ScreenProducer ==
    ASSUME IInv, ScreenInv, ~zero, pc # "failed",
           \/ \E m \in Mems : ProducerAcquires(m)
           \/ \E b \in Mems \cup {Foreign} : ProducerQueues(b)
           \/ ProducerDrops
           \/ \E b \in Mems \cup {Foreign} : ShowFrame(b)
    PROVE  ScreenInv'
<1>1. ASSUME NEW m \in Mems, ProducerAcquires(m)
      PROVE  ScreenInv'
  <2>1. /\ Acquire(m, "proposed") /\ frame' = frame /\ pc' = pc
        /\ UNCHANGED <<sinkVars, heldVars, eventVars>>
    BY <1>1 DEF ProducerAcquires, renderVars
  <2> QED
    BY <2>1, ScreenAcquire
<1>2. ASSUME NEW b \in Mems \cup {Foreign}, ProducerQueues(b)
      PROVE  ScreenInv'
  <2>1. /\ UNCHANGED memVars /\ pc' = pc
        /\ UNCHANGED <<sinkVars, frame, heldVars, eventVars>>
    BY <1>2 DEF ProducerQueues, renderVars
  <2> QED
    BY <2>1, ScreenLetGo
<1>3. ASSUME ProducerDrops
      PROVE  ScreenInv'
  <2>1. /\ Release(pool, plane, {}) /\ pc' = pc
        /\ UNCHANGED <<sinkVars, frame, heldVars, eventVars>>
    BY <1>3 DEF ProducerDrops, renderVars
  <2> QED
    BY <2>1, ScreenLetGo
<1>4. ASSUME NEW b \in Mems \cup {Foreign}, ShowFrame(b)
      PROVE  ScreenInv'
  <2>1. /\ Release(pool, plane, {}) /\ pc = "idle" /\ pc' = "input"
        /\ UNCHANGED <<sinkVars, frame, heldVars, eventVars>>
    BY <1>4 DEF ShowFrame
  <2> QED
    BY <2>1, ScreenLetGo
<1> QED
  BY <1>1, <1>2, <1>3, <1>4

LEMMA ScreenGoesOn ==
    ASSUME IInv, ScreenInv, ~zero,
           \/ TakeInput
           \/ \E m \in Mems : AcquireCopy(m)
           \/ CopyDone
           \/ SetPlane
           \/ RequestEvent
    PROVE  ScreenInv'
<1>1. CASE TakeInput \/ CopyDone
  <2>1. /\ pc \in {"input", "copy"} /\ pc' = "plane"
        /\ UNCHANGED <<sinkVars, memVars, heldVars, eventVars>>
    BY <1>1 DEF TakeInput, CopyDone, GoesOn
  <2> QED
    BY <2>1 DEF ScreenInv, EventInv, Justified, sinkVars, memVars, heldVars,
       eventVars
<1>2. ASSUME NEW m \in Mems, AcquireCopy(m)
      PROVE  ScreenInv'
  <2>1. /\ Acquire(m, "internal") /\ pc = "input" /\ pc' = "copy"
        /\ UNCHANGED <<sinkVars, heldVars, eventVars>>
    BY <1>2 DEF AcquireCopy, GoesOn
  <2> QED
    BY <2>1, ScreenAcquire
<1>3. CASE SetPlane
  <2>1. /\ pc = "plane" /\ pc' = "sync"
        /\ plane' = IF modeset THEN plane ELSE frame
        /\ UNCHANGED <<sinkVars, heldVars, pool, fresh, scanned, frame, eventVars>>
    BY <1>3 DEF SetPlane, GoesOn
  <2>2. Justified(plane) /\ Justified(scanned) /\ EventInv
    BY <2>1 DEF ScreenInv
  <2>3. Justified(plane)' /\ Justified(scanned)'
    BY <2>1, <2>2 DEF Justified, heldVars
  <2>4. ~modeset => Current(plane)'
    BY <2>1 DEF Current
  <2> QED
    BY <2>1, <2>2, <2>3, <2>4 DEF ScreenInv, EventInv, sinkVars, eventVars
<1>4. CASE RequestEvent
  <2>1. /\ pc = "sync" /\ pc' = "wait" /\ event' = "pending" /\ stale' = stale
        /\ plane' = IF modeset THEN frame ELSE plane
        /\ UNCHANGED <<sinkVars, heldVars, pool, fresh, scanned, frame>>
    BY <1>4 DEF RequestEvent, GoesOn, FlipTo
  <2>2. Justified(plane) /\ Justified(scanned) /\ EventInv
    BY <2>1 DEF ScreenInv
  <2>3. Justified(plane)' /\ Justified(scanned)'
    BY <2>1, <2>2 DEF Justified, heldVars
  <2>4. Current(plane)'
    <3>1. ~modeset => Current(plane)
      BY <2>1 DEF ScreenInv
    <3> QED
      BY <2>1, <3>1 DEF Current
  <2> QED
    BY <2>1, <2>2, <2>3, <2>4 DEF ScreenInv, EventInv
<1> QED
  BY <1>1, <1>2, <1>3, <1>4

(* When show_frame is done, what is on the screen is its frame, now        *)
(* last_buffer, or new.                                                    *)
LEMMA ScreenShown ==
    ASSUME IInv, ScreenInv, ~zero, FrameShown \/ ZeroCopyShown
    PROVE  ScreenInv'
<1>1. FrameShown /\ frame # None
  BY DEF FrameShown, ZeroCopyShown, IInv, HeldInv
<1>2. /\ pc = "wait" /\ pc' = "idle" /\ last' = frame
      /\ event' = "none" /\ stale' = IF event = "pending" THEN "pending" ELSE "none"
      /\ event = "ready" \/ stale = "ready"
  BY <1>1 DEF FrameShown, ReplaceLast, ReadEvent, EventArrived
<1>3. /\ EventInv /\ event = "ready"
      /\ Current(plane) /\ Current(scanned)
  BY <1>2 DEF ScreenInv, EventInv
<1>4. plane \in Mems \cup {None} /\ scanned \in Mems \cup {None} /\ TypeOK
  BY DEF IInv, TypeOK
<1> DEFINE p == [m \in Mems |-> IF m = tmp THEN "none" ELSE pool[m]]
<1>5. p \in [Mems -> Pools] /\ Release(p, plane, {frame})
  BY <1>1, FrameShownReleases
<1> HIDE DEF p
<1>6. plane' \in {plane, None} /\ scanned' \in {scanned, None}
  BY <1>4, <1>5, ReleaseFrees
<1>7. \A m \in Mems : m \in {plane', scanned'}
          => (m \in fresh \ {frame} => m \in fresh')
  BY <1>4, <1>5, ReleaseShows
<1>8. ASSUME NEW x \in Mems, x \in {plane', scanned'}
      PROVE  x \in fresh' \/ x = last'
  <2>1. Current(x)
    BY <1>3, <1>6, <1>8, NotMemories
  <2> QED
    BY <1>2, <1>7, <1>8, <2>1 DEF Current
<1>9. Justified(plane)' /\ Justified(scanned)'
  BY <1>4, <1>6, <1>8 DEF Justified
<1> QED
  BY <1>2, <1>3, <1>9 DEF ScreenInv, EventInv

LEMMA ScreenVBlank ==
    ASSUME ScreenInv, VBlank
    PROVE  ScreenInv'
<1>1. /\ scanned' = plane
      /\ event' = Complete(event) /\ stale' = Complete(stale)
      /\ UNCHANGED <<sinkVars, pool, fresh, plane, renderVars, heldVars>>
  BY DEF VBlank
<1>2. Justified(plane) => Justified(plane)' /\ Justified(scanned)'
  BY <1>1 DEF Justified, renderVars, heldVars
<1>3. Current(plane) => Current(plane)' /\ Current(scanned)'
  BY <1>1 DEF Current, renderVars
<1>4. EventInv => EventInv'
  BY <1>1 DEF EventInv, Complete, renderVars
<1> QED
  BY <1>1, <1>2, <1>3, <1>4 DEF ScreenInv, sinkVars, renderVars

LEMMA ScreenStep ==
    ASSUME ErrorsEnd
    PROVE  IInv /\ ScreenInv /\ [Next]_vars => ScreenInv'
<1> SUFFICES ASSUME IInv, ScreenInv, [Next]_vars, ~zero
             PROVE  ScreenInv'
  <2>1. [Next]_vars => zero' = zero
    BY DEF Next, vars, sinkVars, StartAsClient, StartAsMaster, Stop, SetCaps,
       ModeSet, ModeSetFails, ProducerAcquires, ProducerQueues, ProducerDrops,
       ShowFrame, Render, TakeInput, AcquireCopy, NoCopy, CopyDone, CopyFails,
       SetPlane, SetPlaneFails, RequestEvent, RequestFails, FrameShown,
       ZeroCopyShown, ReadFails, VBlank, GoesOn, Fails
  <2> QED
    BY <2>1 DEF ScreenInv
<1>1. CASE Stop
  BY <1>1, ScreenStop
<1>2. ASSUME NoCopy \/ CopyFails \/ SetPlaneFails \/ RequestFails \/ ReadFails
      PROVE  ScreenInv'
  <2>1. pc' \in AfterError
    BY <1>2, FailureFails DEF Fails
  <2> QED
    BY <2>1 DEF ErrorsEnd, ScreenInv
<1>3. CASE Render
  <2>1. CASE \/ TakeInput \/ (\E m \in Mems : AcquireCopy(m)) \/ CopyDone
             \/ SetPlane \/ RequestEvent
    BY <2>1, ScreenGoesOn
  <2>2. CASE FrameShown \/ ZeroCopyShown
    BY <2>2, ScreenShown
  <2> QED
    BY <1>2, <1>3, <2>1, <2>2 DEF Render
<1>4. CASE StartAsClient \/ StartAsMaster
  <2>1. UNCHANGED <<zero, memVars, renderVars, heldVars, eventVars>>
    BY <1>4 DEF StartAsClient, StartAsMaster
  <2>2. pc \notin {"sync", "wait"} \/ modeset' = modeset
    BY <1>4 DEF IInv, HeldInv, StartAsClient, StartAsMaster
  <2> QED
    BY <2>1, <2>2 DEF ScreenInv, EventInv, Justified, Current, memVars,
       renderVars, heldVars, eventVars
<1>5. CASE SetCaps \/ ModeSetFails
  BY <1>5, ScreenCaps
<1>6. CASE \E m \in Mems, done \in BOOLEAN : ModeSet(m, done)
  BY <1>6, ScreenModeSet
<1>7. CASE \/ \E m \in Mems : ProducerAcquires(m)
           \/ \E b \in Mems \cup {Foreign} : ProducerQueues(b)
           \/ ProducerDrops
           \/ \E b \in Mems \cup {Foreign} : ShowFrame(b)
  <2>1. CASE pc # "failed"
    BY <1>7, <2>1, ScreenProducer
  <2>2. CASE pc = "failed"
    <3>1. pc' = "failed"
      BY <1>7, <2>2 DEF ProducerAcquires, ProducerQueues, ProducerDrops,
         ShowFrame, renderVars
    <3> QED
      BY <3>1 DEF ScreenInv
  <2> QED
    BY <2>1, <2>2
<1>8. CASE VBlank
  BY <1>8, ScreenVBlank
<1>9. CASE UNCHANGED vars
  BY <1>9 DEF vars, ScreenInv, EventInv, Justified, Current, sinkVars, memVars,
     renderVars, heldVars, eventVars
<1> QED
  BY <1>1, <1>2, <1>3, <1>4, <1>5, <1>6, <1>7, <1>8, <1>9 DEF Next

(* What is on the screen stays justified until the stream fails.           *)
THEOREM ScreenInvariant ==
    ASSUME ErrorsEnd
    PROVE  Spec => [](IInv /\ ScreenInv)
<1>1. Init => IInv /\ ScreenInv
  BY HeldInit, ScreenInit
<1>2. IInv /\ ScreenInv /\ [Next]_vars => IInv' /\ ScreenInv'
  BY HeldStep, ScreenStep
<1> QED
  BY <1>1, <1>2, PTL DEF Spec

(* In a stream that ends with the first flow error, neither the producer   *)
(* nor the sink writes a memory the display reads, but for a new one.      *)
THEOREM NobodyTears ==
    ASSUME ErrorsEnd
    PROVE  Spec => []NoTearing
<1>1. IInv /\ ScreenInv => NoTearing
  <2> SUFFICES ASSUME IInv, ScreenInv, ~zero, pc # "failed",
                      NEW m \in Mems, m \in Written, scanned = m
               PROVE  m \in fresh
    BY DEF NoTearing
  <2>1. Justified(m)
    BY DEF ScreenInv
  <2>2. CASE m = producer
    BY <2>1, <2>2, NotMemories DEF Justified, IInv, HeldInv, Kinds
  <2>3. CASE pc = "copy" /\ m = frame
    BY <2>1, <2>3, NotMemories DEF Justified, IInv, HeldInv, Kinds
  <2> QED
    BY <2>2, <2>3 DEF Written
<1> QED
  BY <1>1, ScreenInvariant, PTL

(* When show_frame is done, the display reads its frame or a new memory.   *)
THEOREM FrameGetsShown ==
    ASSUME ErrorsEnd
    PROVE  Spec => FrameOnScreen
<1>1. IInv /\ ScreenInv /\ [Next]_vars => [~zero /\ FrameShown => OnScreen(frame)]_vars
  <2> SUFFICES ASSUME ScreenInv, ~zero, FrameShown
               PROVE  scanned \in {frame} \cup fresh
    BY DEF OnScreen
  <2>1. pc = "wait" /\ (event = "ready" \/ stale = "ready")
    BY DEF FrameShown, EventArrived
  <2>2. Current(scanned)
    BY <2>1 DEF ScreenInv, EventInv
  <2> QED
    BY <2>2 DEF Current
<1> QED
  BY <1>1, ScreenInvariant, PTL DEF Spec, FrameOnScreen

(* What the display reads is in use by somebody who keeps it, or belongs   *)
(* to the mode setting.                                                    *)
LEMMA ScannedHasPool ==
    ASSUME IInv, ScreenInv, ~zero, pc # "failed", scanned \in Mems \ fresh
    PROVE  /\ pool[scanned] # "none"
           /\ pool[scanned] \in {"tmp", "leaked"} \/ scanned \in {last, frame}
<1>1. Justified(scanned)
  BY DEF ScreenInv
<1> QED
  BY <1>1, NotMemories DEF Justified, IInv, HeldInv, Kinds

(* The mode setting retires the pools, of which the screen's memory is     *)
(* held, and frees nothing of its own.                                     *)
LEMMA KeepsModeSet ==
    ASSUME IInv, NEW m \in Mems, NEW done \in BOOLEAN, ModeSet(m, done),
           NEW x \in Mems, pool[x] \in {"tmp", "leaked"} \/ x \in {last, frame}
    PROVE  pool'[x] # "none"
<1> DEFINE p == ModePools(m, done)
           on == IF master \/ done THEN m ELSE plane
<1>1. p \in [Mems -> Pools] /\ Release(p, on, {})
  BY ModeSetPools
<1>2. on \in Mems \cup {None} /\ TypeOK
  BY DEF IInv, TypeOK
<1>3. /\ pool[x] \in Kinds => p[x] = "retired"
      /\ pool[x] \in {"tmp", "leaked"} => p[x] \in {"tmp", "leaked"}
  BY ModeSetPools
<1> HIDE DEF p, on
<1>4. UNCHANGED <<renderVars, last>>
  BY ModeSetPools
<1>5. x \in {last, frame} => pool[x] \in Kinds
  BY DEF IInv, HeldInv
<1>6. p[x] # "none" /\ (x \in HeldNext \/ p[x] # "retired")
  BY <1>3, <1>4, <1>5 DEF HeldNext, renderVars
<1> QED
  BY <1>1, <1>2, <1>6, ReleaseFrees

(* Whoever holds a memory on the screen keeps it in every step but the     *)
(* ones that end the stream.                                               *)
LEMMA KeepsScanned ==
    ASSUME IInv, ScreenInv, ErrorsEnd, [Next]_vars, NEW m \in Mems \ fresh,
           ~zero, started', pc' # "failed", scanned = m
    PROVE  pool'[m] # "none"
<1>1. pc # "failed"
  BY DEF Next, vars, sinkVars, StartAsClient, StartAsMaster, Stop, SetCaps,
     ModeSet, ModeSetFails, ProducerAcquires, ProducerQueues, ProducerDrops,
     ShowFrame, Render, TakeInput, AcquireCopy, NoCopy, CopyDone, CopyFails,
     SetPlane, SetPlaneFails, RequestEvent, RequestFails, FrameShown,
     ZeroCopyShown, ReadFails, VBlank, GoesOn, Fails, renderVars
<1>2. /\ pool[m] # "none"
      /\ pool[m] \in {"tmp", "leaked"} \/ m \in {last, frame}
  BY <1>1, ScannedHasPool
<1>3. /\ TypeOK /\ pool \in [Mems -> Pools] /\ plane \in Mems \cup {None}
  BY DEF IInv, TypeOK
<1>4. m # None /\ pool[m] \in {"tmp", "leaked"} => m \notin {last, frame}
  BY NotMemories DEF IInv, HeldInv, Kinds
<1>5. CASE UNCHANGED pool
  BY <1>2, <1>5
<1>6. CASE Release(pool, plane, {}) /\ last' = last /\ frame' = frame
  <2>1. m \in HeldNext \/ pool[m] # "retired"
    BY <1>2, <1>6 DEF HeldNext
  <2> QED
    BY <1>2, <1>3, <1>6, <2>1, ReleaseFrees
<1>7. ASSUME SetCaps \/ ModeSetFails
      PROVE  pool'[m] # "none"
  <2>1. Release(Retired, plane, {}) /\ UNCHANGED <<renderVars, heldVars>>
    BY <1>7 DEF SetCaps, ModeSetFails
  <2>2. Retired[m] # "none" /\ (m \in HeldNext \/ Retired[m] # "retired")
    BY <1>2, <2>1, RetiredPools, <1>3 DEF HeldNext, renderVars, heldVars, Kinds
  <2> QED
    BY <1>3, <2>1, <2>2, RetiredPools, ReleaseFrees
<1>8. ASSUME NEW x \in Mems, NEW done \in BOOLEAN, ModeSet(x, done)
      PROVE  pool'[m] # "none"
  BY <1>2, <1>8, KeepsModeSet
<1>9. ASSUME NEW x \in Mems, NEW name \in {"internal", "proposed"},
             Acquire(x, name)
      PROVE  pool'[m] # "none"
  BY <1>2, <1>9, AcquireTakes DEF IInv
<1>10. ASSUME FrameShown \/ ZeroCopyShown
       PROVE  pool'[m] # "none"
  <2>1. FrameShown
    BY <1>10 DEF ZeroCopyShown, FrameShown, IInv, HeldInv
  <2>2. m = frame
    <3>1. pc = "wait" /\ (event = "ready" \/ stale = "ready")
      BY <2>1 DEF FrameShown, EventArrived
    <3> QED
      BY <3>1 DEF ScreenInv, EventInv, Current
  <2> DEFINE p == [x \in Mems |-> IF x = tmp THEN "none" ELSE pool[x]]
  <2>3. p \in [Mems -> Pools] /\ Release(p, plane, {frame})
    BY <2>1, FrameShownReleases
  <2>4. p[m] = pool[m]
    BY <2>2, NotMemories DEF IInv, HeldInv, Kinds
  <2> HIDE DEF p
  <2>5. m \in HeldNext
    BY <2>1, <2>2 DEF FrameShown, ReplaceLast, HeldNext
  <2> QED
    BY <1>2, <1>3, <2>3, <2>4, <2>5, ReleaseFrees
<1>11. ASSUME Render
       PROVE  pool'[m] # "none"
  <2>1. ~Fails
    BY DEF Fails, ErrorsEnd
  <2>2. CASE TakeInput \/ CopyDone \/ SetPlane \/ RequestEvent
    BY <1>5, <2>2 DEF TakeInput, CopyDone, SetPlane, RequestEvent, memVars
  <2>3. CASE \E x \in Mems : AcquireCopy(x)
    BY <1>9, <2>3 DEF AcquireCopy
  <2>4. CASE FrameShown \/ ZeroCopyShown
    BY <1>10, <2>4
  <2> QED
    BY <1>11, <2>1, <2>2, <2>3, <2>4
       DEF Render, NoCopy, CopyFails, SetPlaneFails, RequestFails
<1>12. ASSUME \/ StartAsClient
              \/ StartAsMaster
              \/ \E b \in Mems \cup {Foreign} : ProducerQueues(b)
              \/ VBlank
              \/ UNCHANGED vars
       PROVE  pool'[m] # "none"
  BY <1>5, <1>12 DEF StartAsClient, StartAsMaster, ProducerQueues, VBlank,
     vars, memVars
<1>13. ASSUME ProducerDrops \/ (\E b \in Mems \cup {Foreign} : ShowFrame(b))
       PROVE  pool'[m] # "none"
  BY <1>6, <1>13 DEF ProducerDrops, ShowFrame, renderVars, heldVars
<1>14. ASSUME NEW x \in Mems, ProducerAcquires(x)
       PROVE  pool'[m] # "none"
  BY <1>9, <1>14 DEF ProducerAcquires
<1>15. ~Stop /\ ~ReadFails
  BY DEF Stop, ReadFails, Fails, ErrorsEnd
<1> QED
  BY <1>7, <1>8, <1>11, <1>12, <1>13, <1>14, <1>15 DEF Next

(* No memory the display reads is freed while the stream plays.            *)
THEOREM ScannedLives ==
    ASSUME ErrorsEnd
    PROVE  Spec => ScannedIsAlive
<1>1. IInv /\ ScreenInv /\ [Next]_vars =>
        [\A m \in Mems \ fresh :
            ~zero /\ started' /\ pc' # "failed" /\ scanned = m
                => pool'[m] # "none"]_vars
  BY KeepsScanned
<1> QED
  BY <1>1, ScreenInvariant, PTL DEF Spec, ScannedIsAlive

-----------------------------------------------------------------------------
(* The memories of the display are handed over.  Only one who takes a      *)
(* memory has to look at the screen: that nobody holds it says that it is  *)
(* not shown either, as what is shown is justified.                        *)

HandStep == \/ HandedOver!Next
            \/ UNCHANGED <<Writing, Reading>>

(* m is shown by the display, or will be at the next vertical blank. *)
Shown(m) == m \in {plane, scanned} \ fresh /\ pool[m] \in Kinds

Kept(m) == m \in {queue, input, sample, last} \/ (m = frame /\ pc # "copy")

LEMMA ReadsKeptOrShown == \A m \in Mems : Reads(m) <=> Kept(m) \/ Shown(m)
BY DEF Reads, Kept, Shown, Kinds

LEMMA NextReadsKeptOrShown ==
    (\A m \in Mems : Reads(m) <=> Kept(m) \/ Shown(m))'
BY ReadsKeptOrShown, PTL

LEMMA LetsGo ==
    ASSUME Promised' => /\ Promised
                        /\ Written' \subseteq Written \cup {None}
                        /\ \A m \in Mems : Kept(m)' => Kept(m) \/ Shown(m)
                        /\ \A m \in Mems : Shown(m)' => Kept(m) \/ Shown(m)
    PROVE  HandStep
<1>1. Reading' \subseteq Reading
  BY ReadsKeptOrShown, NextReadsKeptOrShown DEF Reading
<1>2. Writing' \subseteq Writing
  BY DEF Writing
<1> QED
  BY <1>1, <1>2 DEF HandStep, HandedOver!Next, HandedOver!LetGo

(* Memories released where they are, or after their pools have gone, do    *)
(* not come to the screen by that, but for one shown the first time.       *)
LEMMA ReleaseShowsNoOther ==
    ASSUME TypeOK, NEW p \in [Mems -> Pools], NEW on \in Mems \cup {None},
           NEW seen, Release(p, on, seen),
           \A m \in Mems : p[m] \in Kinds => pool[m] \in Kinds,
           on \in Mems /\ on # plane => p[on] \notin Kinds
    PROVE  \A m \in Mems : Shown(m)' => Shown(m) \/ m \in seen
<1> SUFFICES ASSUME NEW m \in Mems, Shown(m)', m \notin seen
             PROVE  Shown(m)
  OBVIOUS
<1>1. m \in {plane', scanned'} /\ m \notin fresh' /\ pool'[m] \in Kinds
  BY DEF Shown
<1>2. pool'[m] = p[m] /\ m \notin fresh
  BY <1>1, ReleaseShows
<1>3. plane' \in {on, None} /\ scanned' \in {scanned, None}
  BY ReleaseFrees
<1>4. m \in {plane, scanned}
  BY <1>1, <1>2, <1>3, NotMemories
<1> QED
  BY <1>1, <1>2, <1>4 DEF Shown

LEMMA ReleasedInPlace ==
    ASSUME TypeOK, NEW seen, Release(pool, plane, seen)
    PROVE  \A m \in Mems : Shown(m)' => Shown(m) \/ m \in seen
<1>1. pool \in [Mems -> Pools] /\ plane \in Mems \cup {None}
  BY DEF TypeOK
<1> QED
  BY <1>1, ReleaseShowsNoOther

LEMMA StopHands ==
    ASSUME IInv, Stop
    PROVE  HandStep
<1>1. /\ Release(Retired, plane, {}) /\ tmp' = tmp /\ pc' = "idle"
      /\ {producer', queue', input', frame', sample', last'} = {None}
  BY DEF Stop
<1>2. Writing' = {}
  BY <1>1 DEF Writing, Written
<1>3. ASSUME NEW m \in Mems
      PROVE  ~Kept(m)' /\ ~Shown(m)'
  <2>1. ~Kept(m)'
    BY <1>1, NotMemories DEF Kept
  <2>2. CASE pool[m] \in Kinds
    <3>1. Retired[m] = "retired" /\ m # tmp
      <4>1. m # tmp
        BY <2>2, NotMemories DEF IInv, HeldInv, Kinds
      <4> QED
        BY <2>2, <4>1, RetiredPools DEF IInv
    <3>2. m \notin HeldNext
      BY <1>1, <3>1, NotMemories DEF HeldNext
    <3>3. pool'[m] = "none"
      BY <1>1, <3>1, <3>2 DEF Release
    <3> QED
      BY <2>1, <3>3 DEF Shown, Kinds
  <2>3. CASE pool[m] \notin Kinds
    <3>1. Retired[m] = pool[m] /\ Retired \in [Mems -> Pools]
      BY <2>3, RetiredPools DEF IInv
    <3>2. pool'[m] \in {Retired[m], "none"}
      BY <1>1, <3>1, ReleaseFrees DEF IInv, TypeOK
    <3> QED
      BY <2>1, <2>3, <3>1, <3>2 DEF Shown, Kinds
  <2> QED
    BY <2>2, <2>3
<1>4. Reading' = {}
  BY <1>3, NextReadsKeptOrShown DEF Reading
<1> QED
  BY <1>2, <1>4 DEF HandStep, HandedOver!Next, HandedOver!LetGo

(* New caps let go of memories only. *)
LEMMA CapsHand ==
    ASSUME IInv,
           \/ SetCaps \/ ModeSetFails
           \/ \E m \in Mems, done \in BOOLEAN : ModeSet(m, done)
    PROVE  HandStep
<1>1. UNCHANGED <<zero, streamVars, renderVars, last>>
  BY DEF SetCaps, ModeSetFails, ModeSet, heldVars
<1>2. \A m \in Mems : Shown(m)' => Shown(m)
  <2>1. TypeOK /\ plane \in Mems \cup {None}
    BY DEF IInv, TypeOK
  <2>2. CASE SetCaps \/ ModeSetFails
    <3>1. Release(Retired, plane, {})
      BY <2>2 DEF SetCaps, ModeSetFails
    <3>2. \A m \in Mems : Retired[m] \in Kinds => pool[m] \in Kinds
      BY <2>1, RetiredPools
    <3> QED
      BY <2>1, <3>1, <3>2, RetiredPools, ReleaseShowsNoOther
  <2>3. ASSUME NEW m \in Mems, NEW done \in BOOLEAN, ModeSet(m, done)
        PROVE  \A x \in Mems : Shown(x)' => Shown(x)
    <3> DEFINE lost == IF done THEN {tmp} ELSE {m}
               p == [x \in Mems |-> IF x \in lost THEN "leaked"
                                    ELSE IF x = m THEN "tmp" ELSE Retired[x]]
               on == IF master \/ done THEN m ELSE plane
    <3>1. Release(p, on, {})
      BY <2>3 DEF ModeSet
    <3>2. on \in Mems \cup {None} /\ p[m] \notin Kinds
          /\ (on \in Mems /\ on # plane => on = m)
      BY <2>1 DEF Kinds
    <3>3. p \in [Mems -> Pools]
      BY <2>1, RetiredPools DEF Pools
    <3>4. \A x \in Mems : p[x] \in Kinds => pool[x] \in Kinds
      <4>1. \A x \in Mems : p[x] \in Kinds => p[x] = Retired[x]
        BY DEF Kinds
      <4>2. \A x \in Mems : Retired[x] \in Kinds => pool[x] \in Kinds
        BY <2>1, RetiredPools
      <4> QED
        BY <4>1, <4>2
    <3>5. on \in Mems /\ on # plane => p[on] \notin Kinds
      BY <3>2
    <3> HIDE DEF p, on
    <3> QED
      BY <2>1, <3>1, <3>2, <3>3, <3>4, <3>5, ReleaseShowsNoOther
  <2> QED
    BY <2>2, <2>3
<1> QED
  BY <1>1, <1>2, LetsGo DEF Promised, Written, Kept, streamVars, renderVars

(* What is acquired, by the producer or for a copy, was neither kept nor   *)
(* shown.                                                                  *)
LEMMA TakenIsFree ==
    ASSUME IInv, ScreenInv, Promised, NEW m \in Mems,
           NEW name \in {"internal", "proposed"}, Acquire(m, name)
    PROVE  /\ m \notin Held /\ ~Kept(m) /\ ~Shown(m)
           /\ \A x \in Mems : Shown(x)' => Shown(x)
<1>1. m \notin Held
  BY AcquireTakes DEF IInv
<1>2. ~Kept(m)
  BY <1>1 DEF Held, Kept
<1>3. ~Shown(m)
  <2> SUFFICES ASSUME Shown(m)
               PROVE  FALSE
    OBVIOUS
  <2>1. m \in {plane, scanned} /\ m \notin fresh /\ pool[m] \in Kinds
    BY DEF Shown
  <2>2. Justified(m)
    BY <2>1 DEF ScreenInv, Promised
  <2> QED
    BY <1>1, <2>1, <2>2, NotMemories DEF Justified, Held, Kinds
<1>4. ASSUME NEW x \in Mems, Shown(x)'
      PROVE  Shown(x)
  <2>1. CASE UNCHANGED memVars
    BY <1>4, <2>1 DEF memVars, Shown
  <2>2. CASE Allocate(m, name)
    <3>1. x # m /\ x \notin fresh /\ x \in {plane, scanned}
      BY <1>4, <2>2 DEF Allocate, Shown
    <3>2. pool'[x] = pool[x]
      BY <2>2, <3>1 DEF Allocate, IInv, TypeOK
    <3> QED
      BY <1>4, <3>1, <3>2 DEF Shown
  <2> QED
    BY <2>1, <2>2 DEF Acquire
<1> QED
  BY <1>1, <1>2, <1>3, <1>4

LEMMA ProducerTakes ==
    ASSUME IInv, ScreenInv, NEW m \in Mems, ProducerAcquires(m)
    PROVE  HandStep
<1>1. /\ producer = None /\ producer' = m /\ Acquire(m, "proposed")
      /\ UNCHANGED <<zero, pc, queue, input, frame, sample, last>>
  BY DEF ProducerAcquires, sinkVars, renderVars, heldVars
<1>2. CASE ~Promised
  BY <1>1, <1>2, LetsGo DEF Promised
<1>3. CASE Promised
  <2>1. /\ m \notin Held /\ ~Kept(m) /\ ~Shown(m)
        /\ \A x \in Mems : Shown(x)' => Shown(x)
    BY <1>1, <1>3, TakenIsFree
  <2>2. \A x \in Mems : Kept(x)' => Kept(x)
    BY <1>1 DEF Kept
  <2>3. Reading' \subseteq Reading /\ m \notin Reading
    BY <1>1, <1>3, <2>1, <2>2, ReadsKeptOrShown, NextReadsKeptOrShown DEF Reading, Promised
  <2>4. Writing' = Writing \cup {m} /\ m \notin Writing
    BY <1>1, <1>3, <2>1, NotMemories DEF Writing, Written, Promised, Held
  <2> QED
    BY <2>3, <2>4 DEF HandStep, HandedOver!Next, HandedOver!Take
<1> QED
  BY <1>2, <1>3

LEMMA CopyTakes ==
    ASSUME IInv, ScreenInv, NEW m \in Mems, AcquireCopy(m)
    PROVE  HandStep
<1>1. /\ pc = "input" /\ pc' = "copy" /\ frame' = m /\ Acquire(m, "internal")
      /\ UNCHANGED <<zero, producer, queue, input, sample, last>>
  BY DEF AcquireCopy, GoesOn, sinkVars, streamVars, heldVars
<1>2. CASE ~Promised
  BY <1>1, <1>2, LetsGo DEF Promised
<1>3. CASE Promised
  <2>1. /\ m \notin Held /\ ~Kept(m) /\ ~Shown(m)
        /\ \A x \in Mems : Shown(x)' => Shown(x)
    BY <1>1, <1>3, TakenIsFree
  <2>2. \A x \in Mems : Kept(x)' => Kept(x)
    BY <1>1 DEF Kept
  <2>3. Reading' \subseteq Reading /\ m \notin Reading
    BY <1>1, <1>3, <2>1, <2>2, ReadsKeptOrShown, NextReadsKeptOrShown DEF Reading, Promised
  <2>4. Writing' = Writing \cup {m} /\ m \notin Writing
    BY <1>1, <1>3, <2>1, NotMemories DEF Writing, Written, Promised, Held
  <2> QED
    BY <2>3, <2>4 DEF HandStep, HandedOver!Next, HandedOver!Take
<1> QED
  BY <1>2, <1>3

(* A filled memory is queued; buffers that are no KMS memory do not count. *)
LEMMA ProducerGives ==
    ASSUME IInv, NEW b \in Mems \cup {Foreign}, ProducerQueues(b)
    PROVE  HandStep
<1>1. /\ queue = None /\ queue' = b /\ b \in {producer, Foreign} \ {None}
      /\ producer' = (IF b = producer THEN None ELSE producer)
      /\ UNCHANGED <<zero, pc, input, frame, sample, last, memVars>>
  BY DEF ProducerQueues, sinkVars, renderVars, heldVars
<1>2. \A m \in Mems : Shown(m)' <=> Shown(m)
  BY <1>1 DEF Shown, memVars
<1>3. CASE b = Foreign
  <2>1. producer' = producer
    BY <1>1, <1>3, NotMemories DEF IInv, TypeOK
  <2>2. Written' = Written /\ Promised' = Promised
    BY <1>1, <2>1 DEF Written, Promised
  <2>3. \A m \in Mems : Kept(m)' => Kept(m)
    BY <1>1, <1>3, NotMemories DEF Kept
  <2> QED
    BY <1>2, <2>2, <2>3, LetsGo
<1>4. CASE ~Promised
  BY <1>1, <1>4, LetsGo DEF Promised
<1>5. CASE b # Foreign /\ Promised
  <2>1. b \in Mems /\ b = producer /\ producer' = None
    BY <1>1, <1>5
  <2>2. b # frame
    BY <2>1 DEF IInv, HeldInv
  <2>3. Writing' = Writing \ {b} /\ b \in Writing
    BY <1>1, <1>5, <2>1, <2>2, NotMemories DEF Writing, Written, Promised
  <2>4. \A m \in Mems : Kept(m)' <=> Kept(m) \/ m = b
    BY <1>1, NotMemories DEF Kept
  <2>5. Reading' = Reading \cup {b}
    BY <1>1, <1>2, <1>5, <2>1, <2>4, ReadsKeptOrShown, NextReadsKeptOrShown
       DEF Reading, Promised
  <2> QED
    BY <2>1, <2>3, <2>5 DEF HandStep, HandedOver!Next, HandedOver!Give
<1> QED
  BY <1>3, <1>4, <1>5

LEMMA CopyGives ==
    ASSUME IInv, CopyDone
    PROVE  HandStep
<1>1. /\ pc = "copy" /\ pc' = "plane"
      /\ UNCHANGED <<zero, producer, queue, input, frame, sample, last, memVars>>
  BY DEF CopyDone, GoesOn, sinkVars, streamVars, heldVars
<1>2. \A m \in Mems : Shown(m)' <=> Shown(m)
  BY <1>1 DEF Shown, memVars
<1>3. frame \in Mems /\ frame # producer
  BY <1>1 DEF IInv, HeldInv, TypeOK
<1>4. CASE ~Promised
  BY <1>1, <1>4, LetsGo DEF Promised
<1>5. CASE Promised
  <2>1. Writing' = Writing \ {frame} /\ frame \in Writing
    BY <1>1, <1>3, <1>5, NotMemories DEF Writing, Written, Promised
  <2>2. \A m \in Mems : Kept(m)' <=> Kept(m) \/ m = frame
    BY <1>1 DEF Kept
  <2>3. Reading' = Reading \cup {frame}
    BY <1>1, <1>2, <1>3, <1>5, <2>2, ReadsKeptOrShown, NextReadsKeptOrShown
       DEF Reading, Promised
  <2> QED
    BY <1>3, <2>1, <2>3 DEF HandStep, HandedOver!Next, HandedOver!Give
<1> QED
  BY <1>4, <1>5

(* The plane is programmed with the frame, which is kept, and the display  *)
(* goes on to what the plane is programmed with.                           *)
LEMMA ScreenHands ==
    ASSUME IInv, TakeInput \/ SetPlane \/ RequestEvent \/ VBlank
    PROVE  HandStep
<1>1. /\ UNCHANGED <<zero, producer, queue, input, sample, last, pool, fresh>>
      /\ \/ pc # "copy" /\ pc' # "copy"
         \/ pc' = pc /\ frame' = frame
  BY DEF TakeInput, SetPlane, RequestEvent, VBlank, GoesOn, sinkVars,
     streamVars, heldVars, memVars, renderVars
<1>2. frame' \in {frame, input}
      /\ plane' \in {plane, frame} /\ scanned' \in {scanned, plane}
      /\ (plane' = plane \/ pc # "copy")
      /\ (pc = "failed" => pc' = "failed")
  BY DEF TakeInput, SetPlane, RequestEvent, VBlank, FlipTo, memVars,
     renderVars, GoesOn
<1>3. Promised' => Promised
  BY <1>1, <1>2 DEF Promised
<1>4. Written' \subseteq Written
  BY <1>1 DEF Written
<1>5. \A m \in Mems : Kept(m)' => Kept(m)
  BY <1>1, <1>2 DEF Kept
<1>6. \A m \in Mems : Shown(m)' => Kept(m) \/ Shown(m)
  BY <1>1, <1>2 DEF Shown, Kept
<1> QED
  BY <1>3, <1>4, <1>5, <1>6, LetsGo

(* show_frame begins with a buffer that is queued or kept.                 *)
LEMMA ShowHands ==
    ASSUME IInv,
           ProducerDrops \/ \E b \in Mems \cup {Foreign} : ShowFrame(b)
    PROVE  HandStep
<1>1. /\ Release(pool, plane, {})
      /\ UNCHANGED <<zero, frame, last>>
      /\ {queue', input', sample'} \subseteq {queue, input, sample, None}
      /\ producer' \in {producer, None}
      /\ pc' = pc \/ (pc = "idle" /\ pc' \in {"sync", "input"})
  BY DEF ProducerDrops, ShowFrame, sinkVars, renderVars, heldVars
<1>2. \A m \in Mems : Shown(m)' => Shown(m)
  BY <1>1, ReleasedInPlace DEF IInv
<1>3. Promised' => Promised
  BY <1>1 DEF Promised
<1>4. Written' \subseteq Written \cup {None}
  BY <1>1 DEF Written
<1>5. \A m \in Mems : Kept(m)' => Kept(m)
  BY <1>1, NotMemories DEF Kept
<1> QED
  BY <1>2, <1>3, <1>4, <1>5, LetsGo

(* When show_frame is done the frame takes the place of the last buffer.   *)
LEMMA ShownHands ==
    ASSUME IInv, FrameShown \/ ZeroCopyShown
    PROVE  HandStep
<1>1. /\ pc = "wait" /\ pc' = "idle"
      /\ UNCHANGED <<zero, producer, queue, sample>>
      /\ last' \in {frame, last} /\ input' = None
      /\ frame' = None \/ frame' = frame
  BY DEF FrameShown, ZeroCopyShown, ReplaceLast, sinkVars, streamVars, heldVars
<1>2. \A m \in Mems : Shown(m)' => Shown(m) \/ m \in {frame, input}
  <2>1. CASE FrameShown
    <3> DEFINE p == [m \in Mems |-> IF m = tmp THEN "none" ELSE pool[m]]
    <3>1. Release(p, plane, {frame})
      BY <2>1 DEF FrameShown
    <3>2. p \in [Mems -> Pools] /\ plane \in Mems \cup {None}
      BY DEF IInv, TypeOK, Pools
    <3>3. \A m \in Mems : p[m] \in Kinds => pool[m] \in Kinds
      BY DEF Kinds
    <3> HIDE DEF p
    <3> QED
      BY <3>1, <3>2, <3>3, ReleaseShowsNoOther DEF IInv
  <2>2. CASE ZeroCopyShown
    <3>1. Release(pool, plane, {input})
      BY <2>2 DEF ZeroCopyShown
    <3> QED
      BY <3>1, ReleasedInPlace DEF IInv
  <2> QED
    BY <2>1, <2>2
<1>3. Promised' => Promised
  BY <1>1 DEF Promised
<1>4. Written' \subseteq Written
  BY <1>1 DEF Written
<1>5. \A m \in Mems : Kept(m)' => Kept(m)
  BY <1>1, NotMemories DEF Kept
<1>6. \A m \in Mems : m \in {frame, input} => Kept(m)
  BY <1>1 DEF Kept
<1> QED
  BY <1>2, <1>3, <1>4, <1>5, <1>6, LetsGo

LEMMA HandoverStep ==
    ASSUME ErrorsEnd
    PROVE  IInv /\ ScreenInv /\ [Next]_vars => HandStep
<1> SUFFICES ASSUME IInv, ScreenInv, [Next]_vars
             PROVE  HandStep
  OBVIOUS
<1>1. CASE Stop
  BY <1>1, StopHands
<1>2. ASSUME NoCopy \/ CopyFails \/ SetPlaneFails \/ RequestFails \/ ReadFails
      PROVE  HandStep
  <2>1. pc' = "failed"
    BY <1>2, FailureFails DEF Fails, ErrorsEnd
  <2> QED
    BY <2>1, LetsGo DEF Promised
<1>3. CASE \/ SetCaps \/ ModeSetFails
           \/ \E m \in Mems, done \in BOOLEAN : ModeSet(m, done)
  BY <1>3, CapsHand
<1>4. CASE StartAsClient \/ StartAsMaster
  <2>1. UNCHANGED <<zero, memVars, streamVars, renderVars, last>>
    BY <1>4 DEF StartAsClient, StartAsMaster, heldVars
  <2> QED
    BY <2>1, LetsGo DEF Promised, Written, Kept, Shown, memVars, streamVars,
       renderVars
<1>5. CASE \/ \E m \in Mems : ProducerAcquires(m) \/ AcquireCopy(m)
           \/ \E b \in Mems \cup {Foreign} : ProducerQueues(b)
           \/ CopyDone
  BY <1>5, ProducerTakes, CopyTakes, ProducerGives, CopyGives
<1>6. CASE TakeInput \/ SetPlane \/ RequestEvent \/ VBlank
  BY <1>6, ScreenHands
<1>7. CASE ProducerDrops \/ \E b \in Mems \cup {Foreign} : ShowFrame(b)
  BY <1>7, ShowHands
<1>8. CASE FrameShown \/ ZeroCopyShown
  BY <1>8, ShownHands
<1>9. CASE UNCHANGED vars
  BY <1>9, LetsGo DEF vars, Promised, Written, Kept, Shown, sinkVars, memVars,
     streamVars, renderVars, heldVars
<1> QED
  BY <1>1, <1>2, <1>3, <1>4, <1>5, <1>6, <1>7, <1>8, <1>9 DEF Next, Render

(* In a stream that ends with the first flow error, the sink, the producer *)
(* and the display hand their memories over to one another: what anybody   *)
(* keeps or shows is not taken to be written, and nothing is shown or      *)
(* queued that was not written.                                            *)
THEOREM MemoriesHandedOver ==
    ASSUME ErrorsEnd
    PROVE  Spec => HandoverSpec
<1>1. Init => HandedOver!Init
  BY NotMemories DEF Init, HandedOver!Init, Writing, Reading, Written, Reads
<1>2. IInv /\ ScreenInv /\ [Next]_vars => [HandedOver!Next]_<<Writing, Reading>>
  BY HandoverStep DEF HandStep
<1> QED
  BY <1>1, <1>2, ScreenInvariant, PTL
     DEF Spec, HandoverSpec, HandedOver!Spec
=============================================================================
