-------------------------- MODULE G1Decoder_proofs --------------------------
(***************************************************************************)
(* Theorems about G1Decoder, for any set of output buffers, any number of  *)
(* pictures and any amount of data.                                        *)
(*                                                                         *)
(* The invariants the runs check are not inductive one by one: what the PP *)
(* is programmed with when the codec is called depends on ppconfig having  *)
(* followed every header, and what is pushed on what was decoded.  IInv    *)
(* adds those facts.                                                       *)
(***************************************************************************)
EXTENDS G1Decoder, TLAPS

(* Instances exist while the element is open. *)
Alive == pc # "null" => ppLive > 0 /\ codecLive > 0

(* ppconfig follows the headers of this codec instance, unless the last    *)
(* one could not be read; it has no geometry before a header was read, and *)
(* without one nothing is taken or programmed.                             *)
ConfigFollows ==
    /\ pc # "null" => /\ unread \/ ppIn = announced
                      /\ ppIn # None => announced # None
                      /\ ppIn = None => out = None /\ target = NoTarget
    /\ pc = "null" => announced = None /\ target = NoTarget

(* Before the end of the loop no failure that ends it is pending, and when *)
(* ret is an error some failure was met.                                   *)
NoFaultPending ==
    /\ pc # "finish" => fault \notin EndsLoop
    /\ ret = "error" => fault # "none"

(* DWL memory replaces the pool's only where that has no address. *)
DWLWhereNeeded == \A b \in dwl : poolMem[b] # "framebuffer"

(* While pictures are popped, the output buffer holds the one just decoded. *)
PictureHeld ==
    pc = "pop" /\ ~stale => /\ out # None
                            /\ picture = MemoryOf(out)
                            /\ unread \/ hwIn = announced

IInv == /\ TypeOK
        /\ Alive
        /\ FrameBalance
        /\ ConfigFollows
        /\ HeadersFirst
        /\ ErrorsReported
        /\ NoFaultPending

(* Giving buffers back to the pool keeps the types of what it changes. *)
LEMMA RecycleType ==
    ASSUME TypeOK, NEW B \in SUBSET Buffers
    PROVE  /\ dwl \ B \subseteq Buffers
           /\ AfterRecycling(B) \in Target
           /\ target = NoTarget => AfterRecycling(B) = NoTarget
BY DEF TypeOK, AfterRecycling, Target, Freed, NoTarget

LEMMA PreviousOutputType == PreviousOutput \subseteq Buffers
BY DEF PreviousOutput

(* The decoder starts with nothing open, nothing taken and nothing owed.   *)
THEOREM InitIInv == Init => IInv
<1> SUFFICES ASSUME Init PROVE IInv
  OBVIOUS
<1>1. TypeOK
  <2>1. negotiated \in BOOLEAN /\ listed \in BOOLEAN /\ headerless \in BOOLEAN
        /\ stale \in BOOLEAN /\ again \in BOOLEAN
    BY DEF Init
  <2>2. left \in 0 .. MaxData
    BY BoundsAssumption DEF Init
  <2>3. down \in [Buffers -> Nat]
    BY DEF Init
  <2>4. target \in Target /\ picture \in Target
    BY DEF Init, Target, NoTarget
  <2>5. poolMem \in [Buffers -> PoolMems]
    BY DEF Init
  <2> QED
    BY <2>1, <2>2, <2>3, <2>4, <2>5 DEF Init, TypeOK, Busy
<1>2. Alive /\ ConfigFollows /\ HeadersFirst
  BY DEF Init, Alive, ConfigFollows, HeadersFirst
<1>3. FrameBalance
  BY DEF Init, FrameBalance, Busy
<1>4. ErrorsReported /\ NoFaultPending
  BY DEF Init, ErrorsReported, NoFaultPending, EndsLoop
<1> QED
  BY <1>1, <1>2, <1>3, <1>4 DEF IInv

(* What parse_header leaves behind, whether it can read the header or not. *)
LEMMA HeaderParsed ==
    ASSUME TypeOK, NEW s \in Sizes, NEW read \in BOOLEAN, ParseHeader(s, read)
    PROVE  /\ announced' \in Sizes \cup {None} /\ announced' # None
           /\ ppIn' \in Sizes \cup {None}
           /\ unread' \in BOOLEAN
           /\ unread' \/ ppIn' = announced'
           /\ ppIn' = None => ppIn = None
<1>1. CASE read = TRUE
  <2>1. announced' = s /\ ppIn' = s /\ unread' = FALSE
    BY <1>1 DEF ParseHeader
  <2> QED
    BY <2>1, NoneAssumption
<1>2. CASE read = FALSE
  <2>1. announced' = s /\ ppIn' = ppIn /\ unread' = TRUE
    BY <1>2 DEF ParseHeader
  <2> QED
    BY <2>1, NoneAssumption DEF TypeOK
<1> QED
  BY <1>1, <1>2

(* The same of every step that may announce a header. *)
LEMMA HeadersTaken ==
    ASSUME TypeOK,
           \/ SetFormat
           \/ JpegImageInfo
           \/ \E c \in AllCodes, d \in 0 .. left : Decode(c, d)
    PROVE  /\ announced' \in Sizes \cup {None}
           /\ ppIn' \in Sizes \cup {None}
           /\ unread' \in BOOLEAN
           /\ \/ UNCHANGED <<announced, unread, ppIn>>
              \/ /\ announced' # None
                 /\ unread' \/ ppIn' = announced'
                 /\ ppIn' = None => ppIn = None
<1>1. CASE UNCHANGED <<announced, unread, ppIn>>
  BY <1>1 DEF TypeOK
<1>2. CASE \E s \in Sizes, read \in BOOLEAN : ParseHeader(s, read)
  BY <1>2, HeaderParsed
<1>3. \/ UNCHANGED <<announced, unread, ppIn>>
      \/ \E s \in Sizes, read \in BOOLEAN : ParseHeader(s, read)
  <2>1. CASE SetFormat
    BY <2>1 DEF SetFormat, StreamHeader, DecodeHeader
  <2>2. CASE JpegImageInfo
    BY <2>2 DEF JpegImageInfo
  <2>3. CASE \E c \in AllCodes, d \in 0 .. left : Decode(c, d)
    <3> PICK c \in AllCodes, d \in 0 .. left : Decode(c, d)
      BY <2>3
    <3>1. TakeHeaders(c)
      BY DEF Decode
    <3> QED
      BY <3>1 DEF TakeHeaders, TypeOK
  <2> QED
    BY <2>1, <2>2, <2>3
<1> QED
  BY <1>1, <1>2, <1>3

-----------------------------------------------------------------------------
(* The inductive step, one lemma for each part of the invariant.           *)

USE DEF vars, lifeVars, configVars, frameVars, loopVars, bufferVars

(* PPRelease and the codec's release have an instance to release, and the  *)
(* types of the element's state hold throughout.                           *)
LEMMA StepTypeOK == IInv /\ [Next]_vars => TypeOK'
<1> SUFFICES ASSUME IInv, [Next]_vars PROVE TypeOK'
  OBVIOUS
<1> USE DEF TypeOK, Busy, EndsLoop
<1>1. CASE \E f \in OpenFailures : Open(f)
  <2>1. unread' \in BOOLEAN
    BY <1>1 DEF Open
  <2>2. target' \in Target
    BY <1>1 DEF Open, Target, NoTarget
  <2> QED
    BY <1>1, <2>1, <2>2 DEF IInv, Open, InitCodec, SetupPP
<1>2. CASE Close
  <2>1. ppLive' \in Nat /\ codecLive' \in Nat
    BY <1>2 DEF IInv, Alive, Close, ReleaseCodec, ReleasePP
  <2>2. target' \in Target /\ unread' \in BOOLEAN /\ negotiated' \in BOOLEAN
    BY <1>2 DEF Close, ReleaseCodec, Target, NoTarget
  <2> QED
    BY <1>2, <2>1, <2>2 DEF IInv, Close, ReleaseCodec
<1>3. CASE SetFormat
  BY <1>3, HeadersTaken DEF IInv, SetFormat
<1>4. CASE \E n \in 1 .. MaxData : HandleFrame(n)
  BY <1>4, BoundsAssumption DEF IInv, HandleFrame, CopyFails
<1>5. CASE JpegImageInfo
  <2>1. /\ announced' \in Sizes \cup {None} /\ ppIn' \in Sizes \cup {None}
        /\ unread' \in BOOLEAN
    BY <1>5, HeadersTaken DEF IInv
  <2>2. /\ pc' \in {"alloc", "finish"}
        /\ ret' \in {"ok", "error"} /\ fault' \in {fault, "stream"}
    BY <1>5 DEF IInv, JpegImageInfo
  <2>3. UNCHANGED <<lifeVars, hwIn, target, picture, frameVars, left,
                    headerless, ready, stale, again, bufferVars>>
    BY <1>5 DEF JpegImageInfo
  <2> QED
    BY <2>1, <2>2, <2>3 DEF IInv
<1>6. CASE SkipOutput
  BY <1>6 DEF IInv, SkipOutput
<1>7. CASE AcquireFails
  BY <1>7, PreviousOutputType, RecycleType
     DEF IInv, AcquireFails, Recycle, Target, NoTarget
<1>8. CASE \E b \in Buffers : AcquireOutput(b)
  <2> PICK b \in Buffers : AcquireOutput(b)
    BY <1>8
  <2>1. PICK addr \in AddressRead(b) :
          \/ addr = "zero" /\ Recycle(PreviousOutput) /\ stale' = TRUE
             /\ hwIn' = hwIn
          \/ ProgramPP(OutputMemory(b, addr)) /\ dwl' = Replaced(b, addr)
             /\ stale' = FALSE
    BY DEF AcquireOutput
  <2>2. addr \in {"fb", "zero", "garbage"}
    BY PoolAssumption DEF AddressRead, IInv, MemKinds
  <2>3. OutputMemory(b, addr) \in Target
    BY <2>2 DEF OutputMemory, Target, Wild
  <2>4. /\ target' \in Target /\ dwl' \subseteq Buffers
        /\ hwIn' \in Sizes \cup {None} /\ stale' \in BOOLEAN
    BY <2>1, <2>3, PreviousOutputType, RecycleType
       DEF IInv, Recycle, ProgramPP, Replaced
  <2>5. /\ picture' \in Target /\ out' \in Buffers \cup {None}
        /\ pc' \in {"decode"} /\ ret' \in {"ok"}
    BY DEF AcquireOutput, Target, NoTarget
  <2> QED
    BY <2>4, <2>5 DEF IInv, AcquireOutput
<1>9. CASE \E b \in Buffers : ConfigRefused(b)
  BY <1>9, PreviousOutputType, RecycleType
     DEF IInv, ConfigRefused, Replaced, Target, NoTarget
<1>10. CASE \E c \in AllCodes, d \in 0 .. left : Decode(c, d)
  <2> PICK c \in AllCodes, d \in 0 .. left : Decode(c, d)
    BY <1>10
  <2>1. left' \in 0 .. MaxData
    BY BoundsAssumption DEF IInv, Decode, AdvanceInput
  <2>2. /\ announced' \in Sizes \cup {None} /\ ppIn' \in Sizes \cup {None}
        /\ unread' \in BOOLEAN
    BY <1>10, HeadersTaken DEF IInv
  <2>3. ready' \in Nat
    BY BoundsAssumption DEF Decode
  <2>4. headerless' \in BOOLEAN
    BY DEF Decode
  <2>5. again' \in BOOLEAN
    BY DEF Decode, LoopsAgain
  <2>6. /\ picture' \in Target /\ ret' \in {"ok", "error"}
        /\ pc' \in {"pop", "alloc", "finish"}
        /\ fault' \in {"none", "header"} \cup EndsLoop
    BY DEF IInv, Decode, EndsLoop
  <2> QED
    BY <2>1, <2>2, <2>3, <2>4, <2>5, <2>6 DEF IInv, Decode
<1>11. CASE PushPicture
  <2>1. pc \in Busy /\ refs = Released
    BY <1>11 DEF IInv, PushPicture, FrameBalance
  <2>2. refs' \in Nat
    BY <1>11, <2>1 DEF IInv, PushPicture, PushRefs, Released
  <2>3. listed' \in BOOLEAN
    BY <1>11 DEF IInv, PushPicture
  <2>4. ready' \in Nat
    BY <1>11 DEF IInv, PushPicture
  <2>5. down' \in [Buffers -> Nat] /\ last' \in Buffers \cup {None}
    BY <1>11 DEF IInv, PushPicture
  <2> QED
    BY <1>11, <2>2, <2>3, <2>4, <2>5 DEF IInv, PushPicture
<1>12. CASE PopEnds
  BY <1>12 DEF IInv, PopEnds
<1>13. CASE DropFrame
  <2>1. refs' \in Nat
    BY <1>13 DEF IInv, DropFrame, Released, FrameBalance
  <2>2. left' \in 0 .. MaxData
    BY <1>13, BoundsAssumption DEF DropFrame
  <2>3. /\ target' \in Target /\ dwl' \subseteq Buffers
        /\ picture' \in Target
    <3>1. /\ dwl \ PreviousOutput \subseteq Buffers
          /\ AfterRecycling(PreviousOutput) \in Target
      BY PreviousOutputType, RecycleType DEF IInv
    <3> QED
      BY <1>13, <3>1 DEF DropFrame, Recycle, Target, NoTarget
  <2>4. /\ listed' \in BOOLEAN /\ headerless' \in BOOLEAN
        /\ stale' \in BOOLEAN /\ again' \in BOOLEAN
    BY <1>13 DEF DropFrame
  <2> QED
    BY <1>13, <2>1, <2>2, <2>3, <2>4 DEF IInv, DropFrame
<1>14. CASE \E b \in Buffers : DownstreamReleases(b)
  BY <1>14, RecycleType DEF IInv, DownstreamReleases, Recycle
<1>15. CASE DownstreamStops
  BY <1>15 DEF IInv, DownstreamStops
<1>16. CASE UNCHANGED vars
  BY <1>16 DEF IInv
<1> QED
  BY <1>1, <1>2, <1>3, <1>4, <1>5, <1>6, <1>7, <1>8, <1>9, <1>10, <1>11,
     <1>12, <1>13, <1>14, <1>15, <1>16 DEF Next

(* What open creates stays until close. *)
LEMMA StepAlive == IInv /\ [Next]_vars => Alive'
<1> SUFFICES ASSUME IInv, [Next]_vars PROVE Alive'
  OBVIOUS
<1> USE DEF Alive
<1>1. CASE \E f \in OpenFailures : Open(f)
  BY <1>1 DEF IInv, Open, InitCodec, TypeOK
<1>2. CASE Close
  BY <1>2 DEF IInv, Close, ReleaseCodec, ReleasePP
<1>3. CASE SetFormat
  BY <1>3 DEF IInv, SetFormat
<1>4. CASE \E n \in 1 .. MaxData : HandleFrame(n)
  BY <1>4 DEF IInv, HandleFrame, CopyFails
<1>5. CASE JpegImageInfo
  BY <1>5 DEF IInv, JpegImageInfo
<1>6. CASE SkipOutput
  BY <1>6 DEF IInv, SkipOutput
<1>7. CASE AcquireFails
  BY <1>7 DEF IInv, AcquireFails
<1>8. CASE \E b \in Buffers : AcquireOutput(b)
  BY <1>8 DEF IInv, AcquireOutput
<1>9. CASE \E b \in Buffers : ConfigRefused(b)
  BY <1>9 DEF IInv, ConfigRefused
<1>10. CASE \E c \in AllCodes, d \in 0 .. left : Decode(c, d)
  BY <1>10 DEF IInv, Decode
<1>11. CASE PushPicture
  BY <1>11 DEF IInv, PushPicture
<1>12. CASE PopEnds
  BY <1>12 DEF IInv, PopEnds
<1>13. CASE DropFrame
  BY <1>13 DEF IInv, DropFrame
<1>14. CASE \E b \in Buffers : DownstreamReleases(b)
  BY <1>14 DEF IInv, DownstreamReleases
<1>15. CASE DownstreamStops
  BY <1>15 DEF IInv, DownstreamStops
<1>16. CASE UNCHANGED vars
  BY <1>16 DEF IInv
<1> QED
  BY <1>1, <1>2, <1>3, <1>4, <1>5, <1>6, <1>7, <1>8, <1>9, <1>10, <1>11,
     <1>12, <1>13, <1>14, <1>15, <1>16 DEF Next

(* The frame has its references exactly while it is handled. *)
LEMMA StepFrameBalance == IInv /\ [Next]_vars => FrameBalance'
<1> SUFFICES ASSUME IInv, [Next]_vars PROVE FrameBalance'
  OBVIOUS
<1> USE DEF FrameBalance, Busy, Released
<1>1. CASE \E f \in OpenFailures : Open(f)
  BY <1>1 DEF IInv, Open, InitCodec
<1>2. CASE Close
  BY <1>2 DEF IInv, Close, ReleaseCodec
<1>3. CASE SetFormat
  BY <1>3 DEF IInv, SetFormat
<1>4. CASE \E n \in 1 .. MaxData : HandleFrame(n)
  BY <1>4 DEF IInv, HandleFrame, CopyFails
<1>5. CASE JpegImageInfo
  BY <1>5 DEF IInv, JpegImageInfo
<1>6. CASE SkipOutput
  BY <1>6 DEF IInv, SkipOutput
<1>7. CASE AcquireFails
  BY <1>7 DEF IInv, AcquireFails
<1>8. CASE \E b \in Buffers : AcquireOutput(b)
  BY <1>8 DEF IInv, AcquireOutput
<1>9. CASE \E b \in Buffers : ConfigRefused(b)
  BY <1>9 DEF IInv, ConfigRefused
<1>10. CASE \E c \in AllCodes, d \in 0 .. left : Decode(c, d)
  BY <1>10 DEF IInv, Decode
<1>11. CASE PushPicture
  BY <1>11 DEF IInv, PushPicture, PushRefs
<1>12. CASE PopEnds
  BY <1>12 DEF IInv, PopEnds
<1>13. CASE DropFrame
  BY <1>13 DEF IInv, DropFrame
<1>14. CASE \E b \in Buffers : DownstreamReleases(b)
  BY <1>14 DEF IInv, DownstreamReleases
<1>15. CASE DownstreamStops
  BY <1>15 DEF IInv, DownstreamStops
<1>16. CASE UNCHANGED vars
  BY <1>16 DEF IInv
<1> QED
  BY <1>1, <1>2, <1>3, <1>4, <1>5, <1>6, <1>7, <1>8, <1>9, <1>10, <1>11,
     <1>12, <1>13, <1>14, <1>15, <1>16 DEF Next

(* Every way to announce a geometry copies it to ppconfig. *)
LEMMA StepConfigFollows == IInv /\ [Next]_vars => ConfigFollows'
<1> SUFFICES ASSUME IInv, [Next]_vars PROVE ConfigFollows'
  OBVIOUS
<1> USE DEF ConfigFollows
<1>1. CASE \E f \in OpenFailures : Open(f)
  BY <1>1 DEF IInv, Open, InitCodec, SetupPP, FrameBalance, Busy
<1>2. CASE Close
  BY <1>2 DEF IInv, Close, ReleaseCodec
<1>3. CASE SetFormat
  BY <1>3, HeadersTaken DEF IInv, SetFormat
<1>4. CASE \E n \in 1 .. MaxData : HandleFrame(n)
  BY <1>4 DEF IInv, HandleFrame, CopyFails
<1>5. CASE JpegImageInfo
  BY <1>5, HeadersTaken DEF IInv, JpegImageInfo
<1>6. CASE SkipOutput
  BY <1>6 DEF IInv, SkipOutput
<1>7. CASE AcquireFails
  BY <1>7 DEF IInv, AcquireFails
<1>8. CASE \E b \in Buffers : AcquireOutput(b)
  BY <1>8 DEF IInv, AcquireOutput
<1>9. CASE \E b \in Buffers : ConfigRefused(b)
  BY <1>9 DEF IInv, ConfigRefused
<1>10. CASE \E c \in AllCodes, d \in 0 .. left : Decode(c, d)
  BY <1>10, HeadersTaken DEF IInv, Decode
<1>11. CASE PushPicture
  BY <1>11 DEF IInv, PushPicture
<1>12. CASE PopEnds
  BY <1>12 DEF IInv, PopEnds
<1>13. CASE DropFrame
  <2>1. target = NoTarget => target' = NoTarget
    BY <1>13, PreviousOutputType, RecycleType DEF IInv, DropFrame, Recycle
  <2> QED
    BY <1>13, <2>1 DEF IInv, DropFrame
<1>14. CASE \E b \in Buffers : DownstreamReleases(b)
  BY <1>14, RecycleType DEF IInv, DownstreamReleases, Recycle
<1>15. CASE DownstreamStops
  BY <1>15 DEF IInv, DownstreamStops
<1>16. CASE UNCHANGED vars
  BY <1>16 DEF IInv
<1> QED
  BY <1>1, <1>2, <1>3, <1>4, <1>5, <1>6, <1>7, <1>8, <1>9, <1>10, <1>11,
     <1>12, <1>13, <1>14, <1>15, <1>16 DEF Next

(* Outputs are taken and the PP is programmed after a header only. *)
LEMMA StepHeadersFirst == IInv /\ [Next]_vars => HeadersFirst'
<1> SUFFICES ASSUME IInv, [Next]_vars PROVE HeadersFirst'
  OBVIOUS
<1> USE DEF HeadersFirst
<1>1. CASE \E f \in OpenFailures : Open(f)
  BY <1>1 DEF IInv, Open, InitCodec, FrameBalance, Busy
<1>2. CASE Close
  BY <1>2 DEF IInv, Close, ReleaseCodec, FrameBalance, Busy
<1>3. CASE SetFormat
  BY <1>3, HeadersTaken DEF IInv, SetFormat
<1>4. CASE \E n \in 1 .. MaxData : HandleFrame(n)
  BY <1>4 DEF IInv, HandleFrame, CopyFails
<1>5. CASE JpegImageInfo
  BY <1>5, HeadersTaken DEF IInv, JpegImageInfo
<1>6. CASE SkipOutput
  BY <1>6 DEF IInv, SkipOutput
<1>7. CASE AcquireFails
  BY <1>7, PreviousOutputType, RecycleType DEF IInv, AcquireFails, Recycle,
     ConfigFollows
<1>8. CASE \E b \in Buffers : AcquireOutput(b)
  BY <1>8 DEF IInv, AcquireOutput, ConfigFollows
<1>9. CASE \E b \in Buffers : ConfigRefused(b)
  BY <1>9 DEF IInv, ConfigRefused, ConfigFollows
<1>10. CASE \E c \in AllCodes, d \in 0 .. left : Decode(c, d)
  BY <1>10, HeadersTaken DEF IInv, Decode
<1>11. CASE PushPicture
  BY <1>11 DEF IInv, PushPicture
<1>12. CASE PopEnds
  BY <1>12 DEF IInv, PopEnds
<1>13. CASE DropFrame
  BY <1>13, PreviousOutputType, RecycleType DEF IInv, DropFrame, Recycle
<1>14. CASE \E b \in Buffers : DownstreamReleases(b)
  BY <1>14, RecycleType DEF IInv, DownstreamReleases, Recycle
<1>15. CASE DownstreamStops
  BY <1>15 DEF IInv, DownstreamStops
<1>16. CASE UNCHANGED vars
  BY <1>16 DEF IInv
<1> QED
  BY <1>1, <1>2, <1>3, <1>4, <1>5, <1>6, <1>7, <1>8, <1>9, <1>10, <1>11,
     <1>12, <1>13, <1>14, <1>15, <1>16 DEF Next

(* A failure ends the loop, and the flow return says so. *)
LEMMA StepErrorsReported == IInv /\ [Next]_vars => (ErrorsReported /\
   NoFaultPending)'
<1> SUFFICES ASSUME IInv, [Next]_vars PROVE (ErrorsReported /\ NoFaultPending)'
  OBVIOUS
<1> USE DEF ErrorsReported, NoFaultPending, EndsLoop
<1>1. CASE \E f \in OpenFailures : Open(f)
  BY <1>1 DEF IInv, Open, InitCodec
<1>2. CASE Close
  BY <1>2 DEF IInv, Close, ReleaseCodec
<1>3. CASE SetFormat
  BY <1>3 DEF IInv, SetFormat
<1>4. CASE \E n \in 1 .. MaxData : HandleFrame(n)
  BY <1>4 DEF IInv, HandleFrame, CopyFails
<1>5. CASE JpegImageInfo
  BY <1>5 DEF IInv, JpegImageInfo
<1>6. CASE SkipOutput
  BY <1>6 DEF IInv, SkipOutput
<1>7. CASE AcquireFails
  BY <1>7 DEF IInv, AcquireFails
<1>8. CASE \E b \in Buffers : AcquireOutput(b)
  BY <1>8 DEF IInv, AcquireOutput
<1>9. CASE \E b \in Buffers : ConfigRefused(b)
  BY <1>9 DEF IInv, ConfigRefused
<1>10. CASE \E c \in AllCodes, d \in 0 .. left : Decode(c, d)
  BY <1>10 DEF IInv, Decode, FailsFlow, LoopsAgain, BreaksLoop, PictureCodes,
     Pops
<1>11. CASE PushPicture
  BY <1>11 DEF IInv, PushPicture
<1>12. CASE PopEnds
  BY <1>12 DEF IInv, PopEnds
<1>13. CASE DropFrame
  BY <1>13 DEF IInv, DropFrame
<1>14. CASE \E b \in Buffers : DownstreamReleases(b)
  BY <1>14 DEF IInv, DownstreamReleases
<1>15. CASE DownstreamStops
  BY <1>15 DEF IInv, DownstreamStops
<1>16. CASE UNCHANGED vars
  BY <1>16 DEF IInv
<1> QED
  BY <1>1, <1>2, <1>3, <1>4, <1>5, <1>6, <1>7, <1>8, <1>9, <1>10, <1>11,
     <1>12, <1>13, <1>14, <1>15, <1>16 DEF Next

(* The inductive invariant holds in every reachable state. *)
THEOREM Invariant == Spec => []IInv
<1>1. IInv /\ [Next]_vars => IInv'
  BY StepTypeOK, StepAlive, StepFrameBalance, StepConfigFollows,
     StepHeadersFirst, StepErrorsReported DEF IInv
<1> QED
  BY InitIInv, <1>1, PTL DEF Spec

(* No step of the element leaves the types of its state; in particular no  *)
(* PPRelease or codec release goes below zero instances.                   *)
THEOREM TypeCorrect == Spec => []TypeOK
<1>1. IInv => TypeOK
  BY DEF IInv
<1> QED
  BY Invariant, <1>1, PTL

(* The frame's reference count: push_data and handle_frame release what    *)
(* they take, however many pictures an input gives.                        *)
THEOREM FrameBalanced == Spec => []FrameBalance
<1>1. IInv => FrameBalance
  BY DEF IInv
<1> QED
  BY Invariant, <1>1, PTL

(* setup_pp and the codecs' parse_header keep outputs away until this      *)
(* codec instance has announced a header.                                  *)
THEOREM HeadersComeFirst == Spec => []HeadersFirst
<1>1. IInv => HeadersFirst
  BY DEF IInv
<1> QED
  BY Invariant, <1>1, PTL

(* handle_frame reports every failure that ends the handling of a frame,   *)
(* whatever the turns before it did, and reports no failure where none     *)
(* was; an unread header, which does not end the loop, may go unreported.  *)
THEOREM FailuresReported == Spec => []ErrorsReported
<1>1. IInv => ErrorsReported
  BY DEF IInv
<1> QED
  BY Invariant, <1>1, PTL

(* gst_g1_base_dec_close undoes a successful gst_g1_base_dec_open: only a  *)
(* failed one can lose instances.                                          *)
THEOREM LeaksOnlyOnFailedOpen == Spec => OnlyFailedOpenLeaks
<1>1. IInv /\ [Next]_vars
        => [Leaked' > Leaked => pc = "null" /\ pc' = "null"]_vars
  <2> SUFFICES ASSUME IInv, Next, Leaked' > Leaked
               PROVE  pc = "null" /\ pc' = "null"
    OBVIOUS
  <2> USE DEF Leaked, IInv, TypeOK, Busy
  <2>1. CASE \E f \in OpenFailures : Open(f)
    BY <2>1 DEF Open, InitCodec
  <2>2. CASE Close
    BY <2>2 DEF Close, ReleaseCodec, ReleasePP
  <2>3. CASE ~Close /\ ~(\E f \in OpenFailures : Open(f))
    <3>1. ppLive' = ppLive /\ codecLive' = codecLive
          /\ (pc' = "null" <=> pc = "null")
      BY <2>3 DEF Next, SetFormat, HandleFrame, CopyFails, JpegImageInfo,
         SkipOutput,
         AcquireFails, AcquireOutput, ConfigRefused, Decode, PushPicture,
         PopEnds, DropFrame, DownstreamReleases, DownstreamStops
    <3> QED
      BY <3>1
  <2> QED
    BY <2>1, <2>2, <2>3
<1> QED
  BY Invariant, <1>1, PTL DEF Spec, OnlyFailedOpenLeaks

(* Physical memory of the DWL is with buffers in use only, for any number  *)
(* of buffers and pictures.                                                *)
THEOREM DWLMemoryInUse == Spec => []DWLInUse
<1> USE DEF DWLInUse, Idle
<1>1. Init => DWLInUse
  BY DEF Init
<1>2. IInv /\ DWLInUse /\ [Next]_vars => DWLInUse'
  <2> SUFFICES ASSUME IInv, DWLInUse, [Next]_vars
               PROVE  DWLInUse'
    OBVIOUS
  <2>1. CASE AcquireFails \/ DropFrame
    BY <2>1 DEF AcquireFails, DropFrame, Recycle, PreviousOutput, IInv, TypeOK
  <2>2. CASE \E b \in Buffers : AcquireOutput(b) \/ ConfigRefused(b)
    <3> PICK b \in Buffers : AcquireOutput(b) \/ ConfigRefused(b)
      BY <2>2
    <3>1. out' = b /\ down' = down /\ dwl' \subseteq (dwl \ PreviousOutput) \cup {b}
      BY DEF AcquireOutput, ConfigRefused, Recycle, Replaced
    <3> QED
      BY <3>1 DEF PreviousOutput, IInv, TypeOK
  <2>3. CASE \E b \in Buffers : DownstreamReleases(b)
    <3> PICK b \in Buffers : DownstreamReleases(b)
      BY <2>3
    <3>1. /\ out' = out /\ down' = [down EXCEPT ![b] = @ - 1]
          /\ dwl' = dwl \ {a \in {b} : a # out /\ down[a] = 1}
          /\ down \in [Buffers -> Nat]
      BY DEF DownstreamReleases, Recycle, IInv, TypeOK
    <3>2. ASSUME NEW a \in dwl', a # out
          PROVE  down'[a] # 0
      <4>1. a \in Buffers /\ a \in dwl /\ down[a] # 0 /\ down[a] \in Nat
        BY <3>1, <3>2 DEF IInv, TypeOK
      <4>2. CASE a = b
        BY <3>1, <3>2, <4>1, <4>2
      <4>3. CASE a # b
        BY <3>1, <4>1, <4>3
      <4> QED
        BY <4>2, <4>3
    <3> QED
      BY <3>1, <3>2
  <2>4. CASE PushPicture
    <3>1. /\ out' = out /\ dwl' = dwl /\ down \in [Buffers -> Nat]
          /\ down' = down \/ (out \in Buffers /\ down' = [down EXCEPT ![out] = @ + 1])
      BY <2>4 DEF PushPicture, IInv, TypeOK
    <3>2. ASSUME NEW a \in Buffers, down[a] # 0
          PROVE  down'[a] # 0
      BY <3>1, <3>2
    <3> QED
      BY <3>1, <3>2 DEF IInv, TypeOK
  <2>5. CASE UNCHANGED <<out, down, dwl>>
    BY <2>5
  <2> QED
    BY <2>1, <2>2, <2>3, <2>4, <2>5 DEF Next, Open, InitCodec, Close,
       ReleaseCodec, SetFormat, HandleFrame, CopyFails, JpegImageInfo,
       SkipOutput, Decode, PopEnds, DownstreamStops
<1> QED
  BY Invariant, <1>1, <1>2, PTL DEF Spec

-----------------------------------------------------------------------------
(* Why the handling of a frame ends.                                       *)

(* A turn of the decode loop that is followed by another one has used data *)
(* up, or announced the first header of the input.                         *)
LEMMA TurnUsesData ==
    ASSUME TypeOK, NEW c \in AllCodes, NEW d \in 0 .. left, Decode(c, d),
           LoopsAgain(c, left')
    PROVE  \/ left' < left
           \/ left' = left /\ headerless /\ ~headerless'
<1>1. left' = d /\ d \in Nat /\ left \in Nat /\ c \in CodesOf(kind)
      /\ kind \in CodecKinds
  BY CodecsAssumption, BoundsAssumption DEF Decode, AdvanceInput, TypeOK
<1>2. CASE d < left
  BY <1>1, <1>2
<1>3. CASE d = left /\ c = "HDRS" /\ headerless
  BY <1>1, <1>3 DEF Decode
<1>4. c \notin {"PROCESSED", "STRMERR", "SYSERR", "NOTINIT", "OTHER"}
         \/ (kind = "H264" /\ c = "STRMERR")
  BY <1>1 DEF LoopsAgain, BreaksLoop, CodecKinds, CodesOf
<1>5. ~(c = "PIC" /\ kind \in {"VP8", "JPEG"})
  BY DEF LoopsAgain
<1> QED
  BY <1>1, <1>2, <1>3, <1>4, <1>5 DEF Decode, CodecMayReturn

(* Without it there is nothing more to do after the pictures.              *)
LEMMA TurnHasLess ==
    ASSUME TypeOK, NEW c \in AllCodes, NEW d \in 0 .. left, Decode(c, d)
    PROVE  Work' < Work
<1>1. left \in Nat /\ left' \in Nat /\ headerless' \in BOOLEAN
  BY BoundsAssumption DEF TypeOK, Decode, AdvanceInput
<1>2. Work = 2 * left + (IF headerless THEN 1 ELSE 0) + 1
  BY DEF Decode, Work
<1>3. CASE LoopsAgain(c, left')
  <2>1. Work' = 2 * left' + (IF headerless' THEN 1 ELSE 0) + 1
    <3>1. pc' \in {"pop", "alloc"} /\ again' = TRUE
      BY <1>3 DEF Decode
    <3> QED
      BY <3>1 DEF Work
  <2>2. \/ left' < left
        \/ left' = left /\ headerless /\ ~headerless'
    BY <1>3, TurnUsesData
  <2>3. CASE left' < left
    <3>1. Work' = 2 * left' + 1 \/ Work' = 2 * left' + 2
      BY <1>1, <2>1
    <3>2. Work = 2 * left + 1 \/ Work = 2 * left + 2
      BY <1>1, <1>2
    <3>3. ASSUME NEW m \in Nat, NEW n \in Nat, m < n
          PROVE  2 * m + 1 < 2 * n + 1 /\ 2 * m + 2 < 2 * n + 1
                 /\ 2 * m + 1 < 2 * n + 2 /\ 2 * m + 2 < 2 * n + 2
      BY <3>3
    <3> QED
      BY <1>1, <2>3, <3>1, <3>2, <3>3, Zenon
  <2>4. CASE left' = left /\ headerless /\ ~headerless'
    <3>1. Work' = 2 * left' + 1 /\ Work = 2 * left + 2
      BY <1>1, <1>2, <2>1, <2>4
    <3> QED
      BY <1>1, <2>4, <3>1
  <2> QED
    BY <2>2, <2>3, <2>4
<1>4. CASE ~LoopsAgain(c, left')
  <2>1. pc' = "finish" \/ (pc' = "pop" /\ ~again')
    BY <1>4 DEF Decode
  <2>2. Work' = 0
    BY <2>1 DEF Work
  <2> QED
    BY <1>1, <1>2, <2>2
<1> QED
  BY <1>3, <1>4

(* Each step of handle_frame takes something away that is not given back,  *)
(* for any amount of data and any number of pictures: the decode loops     *)
(* and the loop that pops pictures make no step in vain.                   *)
THEOREM FrameProgresses == Spec => FrameProgress
<1>1. IInv /\ [Next]_vars =>
        [{pc, pc'} \subseteq Busy =>
            LessToDo \/ (UNCHANGED <<pc, loopVars>>)]_vars
  <2> SUFFICES ASSUME TypeOK, Next, pc \in Busy, pc' \in Busy
               PROVE  LessToDo \/ (UNCHANGED <<pc, loopVars>>)
    BY DEF IInv
  <2>0. left \in Nat /\ Work \in Nat
    <3>1. left \in Nat
      BY BoundsAssumption DEF TypeOK
    <3> QED
      BY <3>1 DEF Work
  <2>1. CASE \/ \E f \in OpenFailures : Open(f)
             \/ Close
             \/ SetFormat
             \/ \E n \in 1 .. MaxData : HandleFrame(n)
             \/ DropFrame
             \/ DownstreamStops
    BY <2>1 DEF Open, InitCodec, Close, ReleaseCodec, SetFormat, HandleFrame,
       CopyFails, DropFrame, DownstreamStops, Busy
  <2>2. CASE JpegImageInfo \/ SkipOutput \/ \E b \in Buffers : AcquireOutput(b)
    <3>1. CASE pc' = "finish"
      <4>1. Work' = 0 /\ Work > 0
        BY <2>0, <2>2, <3>1 DEF JpegImageInfo, SkipOutput, AcquireOutput, Work
      <4> QED
        BY <4>1 DEF LessToDo
    <3>2. CASE pc' # "finish"
      <4>1. Work' = Work /\ Phase' < Phase
        BY <2>2, <3>2
           DEF JpegImageInfo, ParseHeader, SkipOutput, AcquireOutput, Work,
               Phase
      <4> QED
        BY <4>1 DEF LessToDo
    <3> QED
      BY <3>1, <3>2
  <2>3. CASE AcquireFails \/ \E b \in Buffers : ConfigRefused(b)
    <3>1. Work' = 0 /\ Work > 0
      BY <2>0, <2>3 DEF AcquireFails, ConfigRefused, Work
    <3> QED
      BY <3>1 DEF LessToDo
  <2>4. CASE \E c \in AllCodes, d \in 0 .. left : Decode(c, d)
    BY <2>4, TurnHasLess DEF LessToDo
  <2>5. CASE PushPicture
    <3>1. Work' = Work /\ Phase' = Phase /\ ready' < ready
      BY <2>5 DEF PushPicture, Work, Phase, TypeOK
    <3> QED
      BY <3>1 DEF LessToDo
  <2>6. CASE PopEnds
    <3>1. Work' = Work /\ Phase' < Phase
      BY <2>6 DEF PopEnds, Work, Phase
    <3> QED
      BY <3>1 DEF LessToDo
  <2>7. CASE \E b \in Buffers : DownstreamReleases(b)
    BY <2>7 DEF DownstreamReleases
  <2> QED
    BY <2>1, <2>2, <2>3, <2>4, <2>5, <2>6, <2>7 DEF Next
<1> QED
  BY Invariant, <1>1, PTL DEF Spec, FrameProgress

-----------------------------------------------------------------------------
(* What is delivered.  These results need a pool whose memory is KMS       *)
(* memory: the address read from any other may be anything.                *)

NoneForeign == \A b \in Buffers : poolMem[b] # "foreign"

DeliverInv == PPOwnsTarget /\ DWLWhereNeeded /\ PictureHeld

LEMMA InitDeliver == Init => DeliverInv
BY DEF Init, DeliverInv, PPOwnsTarget, DWLWhereNeeded, PictureHeld

(* The memory of a buffer the frame holds is not taken away from it when   *)
(* other buffers go back to the pool.                                      *)
LEMMA OthersRecycled ==
    ASSUME NEW B \in SUBSET Buffers, out \notin B, Recycle(B), out' = out
    PROVE  /\ MemoryOf(out)' = MemoryOf(out)
           /\ target = MemoryOf(out) => target' = target
BY DEF Recycle, AfterRecycling, MemoryOf

LEMMA StepDeliver ==
    ASSUME NoneForeign, IInv, DeliverInv, [Next]_vars
    PROVE  DeliverInv'
<1> USE DEF DeliverInv, PPOwnsTarget, DWLWhereNeeded, PictureHeld, MemoryOf,
            Idle
<1>1. CASE \E f \in OpenFailures : Open(f)
  BY <1>1 DEF Open, InitCodec, IInv, TypeOK, Busy
<1>2. CASE Close
  BY <1>2 DEF Close, ReleaseCodec
<1>3. CASE SetFormat
  BY <1>3 DEF SetFormat
<1>4. CASE \E n \in 1 .. MaxData : HandleFrame(n)
  BY <1>4 DEF HandleFrame, CopyFails
<1>5. CASE JpegImageInfo
  BY <1>5 DEF JpegImageInfo
<1>6. CASE SkipOutput
  BY <1>6 DEF SkipOutput
<1>7. CASE AcquireFails
  BY <1>7 DEF AcquireFails, Recycle
<1>8. CASE \E b \in Buffers : AcquireOutput(b)
  <2> PICK b \in Buffers : AcquireOutput(b)
    BY <1>8
  <2>1. PICK addr \in AddressRead(b) :
          \/ addr = "zero" /\ Recycle(PreviousOutput) /\ stale' = TRUE
          \/ ProgramPP(OutputMemory(b, addr)) /\ dwl' = Replaced(b, addr)
             /\ stale' = FALSE
    BY DEF AcquireOutput
  <2>2. \/ poolMem[b] = "framebuffer" /\ addr = "fb"
        \/ poolMem[b] = "nophys" /\ addr = "zero"
    BY PoolAssumption DEF NoneForeign, AddressRead, IInv, TypeOK, MemKinds
  <2>3. DWLWhereNeeded'
    BY <2>1, <2>2 DEF AcquireOutput, Recycle, Replaced
  <2>4. pc' = "decode" /\ out' = b /\ b # None /\ Idle(out)'
    BY NoneAssumption DEF AcquireOutput
  <2>5. ~stale' => target' = MemoryOf(out)' /\ (unread' \/ hwIn' = announced')
    BY <2>1, <2>2, <2>4
       DEF AcquireOutput, ProgramPP, OutputMemory, Replaced, IInv,
           ConfigFollows
  <2> QED
    BY <2>3, <2>4, <2>5
<1>9. CASE \E b \in Buffers : ConfigRefused(b)
  <2> PICK b \in Buffers : ConfigRefused(b)
    BY <1>9
  <2>1. PICK addr \in AddressRead(b) : dwl' = Replaced(b, addr)
    BY DEF ConfigRefused
  <2>2. addr = "zero" => poolMem[b] # "framebuffer"
    BY DEF AddressRead
  <2>3. DWLWhereNeeded'
    BY <2>1, <2>2 DEF ConfigRefused, Replaced
  <2> QED
    BY <2>3 DEF ConfigRefused
<1>10. CASE \E c \in AllCodes, d \in 0 .. left : Decode(c, d)
  <2> PICK c \in AllCodes, d \in 0 .. left : Decode(c, d)
    BY <1>10
  <2>1. CASE pc' = "pop"
    <3>1. c \in PictureCodes /\ UNCHANGED <<announced, unread, ppIn>>
      BY <2>1 DEF Decode, Pops, PictureCodes, TakeHeaders
    <3> QED
      BY <2>1, <3>1 DEF Decode
  <2>2. CASE pc' # "pop"
    BY <2>2 DEF Decode
  <2> QED
    BY <2>1, <2>2
<1>11. CASE PushPicture
  BY <1>11 DEF PushPicture
<1>12. CASE PopEnds
  BY <1>12 DEF PopEnds
<1>13. CASE DropFrame
  BY <1>13 DEF DropFrame, Recycle
<1>14. CASE \E b \in Buffers : DownstreamReleases(b)
  <2> PICK b \in Buffers : DownstreamReleases(b)
    BY <1>14
  <2> DEFINE B == {a \in {b} : a # out /\ down[a] = 1}
  <2>1. /\ Recycle(B) /\ B \subseteq Buffers /\ out \notin B
        /\ out' = out /\ dwl' \subseteq dwl
    BY DEF DownstreamReleases, Recycle
  <2>2. /\ MemoryOf(out)' = MemoryOf(out)
        /\ target = MemoryOf(out) => target' = target
    BY <2>1, OthersRecycled
  <2>3. pc = "decode" /\ ~stale => b # out /\ Idle(out)'
    BY DEF DownstreamReleases, IInv, TypeOK
  <2>4. UNCHANGED <<pc, stale, hwIn, announced, unread, picture, poolMem, out>>
    BY DEF DownstreamReleases
  <2>5. PPOwnsTarget' /\ PictureHeld'
    BY <2>2, <2>3, <2>4
  <2>6. DWLWhereNeeded'
    BY <2>1, <2>4
  <2> QED
    BY <2>5, <2>6
<1>15. CASE DownstreamStops
  BY <1>15 DEF DownstreamStops
<1>16. CASE UNCHANGED vars
  BY <1>16
<1> QED
  BY <1>1, <1>2, <1>3, <1>4, <1>5, <1>6, <1>7, <1>8, <1>9, <1>10, <1>11,
     <1>12, <1>13, <1>14, <1>15, <1>16 DEF Next

LEMMA GivesKMSMemory ==
    ASSUME "foreign" \notin PoolMems, IInv
    PROVE  NoneForeign
BY DEF NoneForeign, IInv, TypeOK

(* With KMS memory in the pool, the PP is set to write the memory of the   *)
(* frame's own idle output buffer, with the stream's geometry, whenever    *)
(* allocate_output programmed it.                                          *)
THEOREM PPWritesOwnBuffer ==
    ASSUME "foreign" \notin PoolMems
    PROVE  Spec => []PPOwnsTarget
<1>1. Init => IInv /\ DeliverInv
  BY InitIInv, InitDeliver
<1>2. IInv /\ DeliverInv /\ IInv' /\ [Next]_vars => DeliverInv'
  BY GivesKMSMemory, StepDeliver
<1>3. DeliverInv => PPOwnsTarget
  BY DEF DeliverInv
<1> QED
  BY Invariant, <1>1, <1>2, <1>3, PTL DEF Spec

(* With KMS memory in the pool, what push_data sends downstream is the     *)
(* picture just decoded, unless the DWL was out of memory.                 *)
THEOREM PictureDelivered ==
    ASSUME "foreign" \notin PoolMems
    PROVE  Spec => DeliveredHoldsPicture
<1>1. IInv /\ DeliverInv /\ [Next]_vars =>
        [\A b \in Buffers : down'[b] > down[b] =>
            stale \/ (/\ picture = MemoryOf(b)
                      /\ unread \/ hwIn = announced)]_vars
  <2> SUFFICES ASSUME IInv, DeliverInv, Next,
                      NEW b \in Buffers, down'[b] > down[b], ~stale
               PROVE  picture = MemoryOf(b) /\ (unread \/ hwIn = announced)
    OBVIOUS
  <2> USE DEF IInv, TypeOK
  <2>1. CASE PushPicture
    <3>1. b = out
      BY <2>1 DEF PushPicture
    <3>2. pc = "pop"
      BY <2>1 DEF PushPicture
    <3> QED
      BY <3>1, <3>2 DEF DeliverInv, PictureHeld
  <2>2. CASE \E a \in Buffers : DownstreamReleases(a)
    BY <2>2 DEF DownstreamReleases
  <2>3. CASE ~PushPicture /\ ~(\E a \in Buffers : DownstreamReleases(a))
    <3>1. down' = down
      BY <2>3 DEF Next, Open, InitCodec, Close, ReleaseCodec, SetFormat,
         HandleFrame, CopyFails, JpegImageInfo,
         SkipOutput, AcquireFails, AcquireOutput, ConfigRefused, Decode,
         PopEnds, DropFrame, DownstreamStops
    <3> QED
      BY <3>1
  <2> QED
    BY <2>1, <2>2, <2>3
<1>2. Init => IInv /\ DeliverInv
  BY InitIInv, InitDeliver
<1>3. IInv /\ DeliverInv /\ IInv' /\ [Next]_vars => DeliverInv'
  BY GivesKMSMemory, StepDeliver
<1> QED
  BY Invariant, <1>1, <1>2, <1>3, PTL DEF Spec, DeliveredHoldsPicture

-----------------------------------------------------------------------------
(* Zero-copy.  With frame buffers only, no memory is replaced and the      *)
(* decoder runs without a programmed post processor only before the first  *)
(* header it could read: then there is nothing to program, and no output   *)
(* that a picture could be pushed in.                                      *)

ProgrammedFirst ==
    /\ pc = "decode" /\ stale => ppIn = None
    /\ pc = "pop" => ~stale \/ out = None

LEMMA NothingReplaced ==
    ASSUME ZeroCopy, TypeOK, DWLWhereNeeded
    PROVE  dwl = {}
BY DEF ZeroCopy, TypeOK, DWLWhereNeeded

LEMMA StepProgrammed ==
    ASSUME ZeroCopy, IInv, DeliverInv, ProgrammedFirst, [Next]_vars
    PROVE  ProgrammedFirst'
<1> USE DEF ProgrammedFirst
<1>1. CASE SkipOutput
  BY <1>1 DEF SkipOutput, IInv, ConfigFollows
<1>2. CASE \E b \in Buffers : AcquireOutput(b)
  <2> PICK b \in Buffers : AcquireOutput(b)
    BY <1>2
  <2>1. PICK addr \in AddressRead(b) :
          addr = "zero" \/ stale' = FALSE
    BY DEF AcquireOutput
  <2>2. addr = "fb"
    BY DEF AddressRead, ZeroCopy
  <2> QED
    BY <2>1, <2>2 DEF AcquireOutput
<1>3. CASE \E c \in AllCodes, d \in 0 .. left : Decode(c, d)
  BY <1>3 DEF Decode, IInv, ConfigFollows
<1>4. CASE \/ SetFormat \/ AcquireFails \/ DropFrame
           \/ \E b \in Buffers : ConfigRefused(b)
  BY <1>4 DEF SetFormat, AcquireFails, DropFrame, ConfigRefused
<1>5. CASE PushPicture \/ PopEnds
  BY <1>5 DEF PushPicture, PopEnds
<1>6. CASE \/ \E f \in OpenFailures : Open(f)
           \/ Close
           \/ \E n \in 1 .. MaxData : HandleFrame(n)
           \/ JpegImageInfo
  BY <1>6 DEF Open, InitCodec, Close, ReleaseCodec, HandleFrame, CopyFails,
     JpegImageInfo
<1>7. CASE \/ \E b \in Buffers : DownstreamReleases(b)
           \/ DownstreamStops
  <2>1. UNCHANGED <<pc, stale, out, ppIn>>
    <3>1. CASE DownstreamStops
      BY <3>1 DEF DownstreamStops
    <3>2. ASSUME NEW b \in Buffers, DownstreamReleases(b)
          PROVE  UNCHANGED <<pc, stale, out, ppIn>>
      BY <3>2 DEF DownstreamReleases
    <3> QED
      BY <1>7, <3>1, <3>2
  <2> QED
    BY <2>1
<1>8. CASE UNCHANGED vars
  BY <1>8
<1> QED
  BY <1>1, <1>2, <1>3, <1>4, <1>5, <1>6, <1>7, <1>8 DEF Next

(* While the codec runs, what the hardware writes is the frame's buffer,   *)
(* or nothing yet.                                                         *)
WritesNothing   == out = None /\ Writing = {}
WritesOwnOutput == ~stale /\ out \in Buffers /\ Writing = {out} /\ Idle(out)

LEMMA WritesOutput ==
    ZeroCopy /\ IInv /\ DeliverInv /\ ProgrammedFirst /\ pc = "decode"
        => WritesNothing \/ WritesOwnOutput
<1> SUFFICES ASSUME ZeroCopy, IInv, DeliverInv, ProgrammedFirst, pc = "decode"
             PROVE  WritesNothing \/ WritesOwnOutput
  OBVIOUS
<1>1. CASE stale
  <2>1. out = None /\ target = NoTarget
    BY <1>1 DEF ProgrammedFirst, IInv, ConfigFollows
  <2> QED
    BY <2>1 DEF WritesNothing, Writing, NoTarget
<1>2. CASE ~stale
  <2>1. out \in Buffers /\ target = MemoryOf(out) /\ Idle(out)
    BY <1>2 DEF DeliverInv, PPOwnsTarget, IInv, TypeOK
  <2> QED
    BY <1>2, <2>1, NoneAssumption DEF WritesOwnOutput, Writing, MemoryOf
<1> QED
  BY <1>1, <1>2 DEF IInv, TypeOK

(* Every step of the element or of those downstream takes a memory, hands  *)
(* one over, lets go of some, or does not concern them.                    *)
HandStep == \/ HandedOver!Next
            \/ UNCHANGED <<Writing, Reading>>

OtherSteps ==
    \/ \E f \in OpenFailures : Open(f)
    \/ Close
    \/ SetFormat
    \/ \E n \in 1 .. MaxData : HandleFrame(n)
    \/ JpegImageInfo
    \/ AcquireFails
    \/ \E b \in Buffers : ConfigRefused(b)
    \/ PopEnds
    \/ DropFrame

LEMMA HandOthers ==
    ASSUME ZeroCopy, ZeroCopy', OtherSteps \/ DownstreamStops
    PROVE  HandStep
<1>1. CASE OtherSteps
  <2>1. pc # "decode" /\ pc' \notin {"decode", "pop"} /\ down' = down
    BY <1>1 DEF OtherSteps, Open, InitCodec, Close, ReleaseCodec, SetFormat,
       HandleFrame, CopyFails, JpegImageInfo, AcquireFails, ConfigRefused,
       PopEnds, DropFrame
  <2>2. Writing' = Writing /\ Reading' \subseteq Reading
    BY <2>1 DEF Writing, Reading
  <2> QED
    BY <2>2 DEF HandStep, HandedOver!Next, HandedOver!LetGo
<1>2. CASE DownstreamStops
  <2>1. UNCHANGED <<pc, target, out, down>>
    BY <1>2 DEF DownstreamStops
  <2> QED
    BY <2>1 DEF HandStep, Writing, Reading
<1> QED
  BY <1>1, <1>2

(* What allocate_output takes is idle; what the codec has written becomes  *)
(* the frame's picture.                                                    *)
LEMMA HandTaken ==
    ASSUME ZeroCopy, ZeroCopy', IInv', DeliverInv', ProgrammedFirst',
           SkipOutput \/ \E b \in Buffers : AcquireOutput(b)
    PROVE  HandStep
<1>1. pc = "alloc" /\ pc' = "decode" /\ down' = down
  BY DEF SkipOutput, AcquireOutput
<1>2. Writing = {} /\ Reading' = Reading
  BY <1>1 DEF Writing, Reading
<1>3. WritesNothing' \/ WritesOwnOutput'
  <2>1. (ZeroCopy /\ IInv /\ DeliverInv /\ ProgrammedFirst /\ pc = "decode"
            => WritesNothing \/ WritesOwnOutput)'
    BY WritesOutput, PTL
  <2> QED
    BY <1>1, <2>1
<1>4. CASE WritesNothing'
  BY <1>2, <1>4 DEF WritesNothing, HandStep
<1>5. CASE WritesOwnOutput'
  <2>1. out' \in Buffers /\ Writing' = {out'} /\ down[out'] = 0
    BY <1>1, <1>5 DEF WritesOwnOutput, Idle
  <2>2. out' \notin Reading
    BY <1>1, <2>1 DEF Reading
  <2>3. HandedOver!Take(out')
    BY <1>2, <2>1, <2>2 DEF HandedOver!Take
  <2> QED
    BY <2>1, <2>3 DEF HandStep, HandedOver!Next
<1> QED
  BY <1>3, <1>4, <1>5

LEMMA HandDecoded ==
    ASSUME ZeroCopy, ZeroCopy', IInv, DeliverInv, ProgrammedFirst,
           NEW c \in AllCodes, NEW d \in 0 .. left, Decode(c, d)
    PROVE  HandStep
<1>1. pc = "decode" /\ pc' # "decode" /\ UNCHANGED <<out, down>>
  BY DEF Decode
<1>2. Writing' = {}
  BY <1>1 DEF Writing
<1>3. CASE pc' = "pop" /\ out # None
  <2>2. out \in Buffers /\ Writing = {out}
    BY <1>1, <1>3, WritesOutput DEF WritesNothing, WritesOwnOutput
  <2>3. Reading' = Reading \cup {out}
    BY <1>1, <1>3, <2>2, NoneAssumption DEF Reading
  <2>4. HandedOver!Give(out)
    BY <1>2, <2>2, <2>3 DEF HandedOver!Give
  <2> QED
    BY <2>2, <2>4 DEF HandStep, HandedOver!Next
<1>4. CASE pc' # "pop" \/ out = None
  <2>1. Reading' = Reading
    BY <1>1, <1>4, NoneAssumption DEF Reading
  <2> QED
    BY <1>2, <2>1 DEF HandStep, HandedOver!Next, HandedOver!LetGo
<1> QED
  BY <1>3, <1>4

(* A picture may be pushed once more; the sink gives back what it held,    *)
(* which is not what the hardware writes meanwhile.                        *)
LEMMA HandPushed ==
    ASSUME ZeroCopy, ZeroCopy', IInv, PushPicture
    PROVE  HandStep
<1>1. pc = "pop" /\ pc' = pc /\ out' = out /\ down \in [Buffers -> Nat]
  BY DEF PushPicture, IInv, TypeOK
<1>2. \/ down' = down
      \/ out \in Buffers /\ down' = [down EXCEPT ![out] = @ + 1]
  BY DEF PushPicture, IInv, TypeOK
<1>3. Reading' = Reading /\ Writing' = Writing
  BY <1>1, <1>2, NoneAssumption DEF Reading, Writing
<1> QED
  BY <1>3 DEF HandStep

LEMMA HandReleased ==
    ASSUME ZeroCopy, ZeroCopy', IInv, DeliverInv,
           NEW b \in Buffers, DownstreamReleases(b)
    PROVE  HandStep
<1>1. dwl = {}
  BY NothingReplaced DEF IInv, DeliverInv
<1>2. pc' = pc /\ out' = out
  BY DEF DownstreamReleases
<1>3. down' = [down EXCEPT ![b] = @ - 1] /\ down[b] > 0
      /\ down \in [Buffers -> Nat]
  BY DEF DownstreamReleases, IInv, TypeOK
<1>4. Reading' \subseteq Reading
  BY <1>2, <1>3 DEF Reading
<1>5. Writing' \subseteq Writing
  <2>1. target' \in {target, Freed}
    BY DEF DownstreamReleases, Recycle, AfterRecycling
  <2> QED
    BY <1>2, <2>1 DEF Writing, Freed
<1> QED
  BY <1>4, <1>5 DEF HandStep, HandedOver!Next, HandedOver!LetGo

(* A pool has the same kind of memory all along.                           *)
LEMMA PoolKept == [Next]_vars => poolMem' = poolMem
<1>1. ASSUME Next PROVE poolMem' = poolMem
  BY <1>1 DEF Next, Open, InitCodec, Close, ReleaseCodec, SetFormat,
     HandleFrame, CopyFails, JpegImageInfo, SkipOutput, AcquireFails,
     AcquireOutput, ConfigRefused, Decode, PushPicture, PopEnds, DropFrame,
     DownstreamReleases, DownstreamStops
<1> QED
  BY <1>1

HandInv == ZeroCopy => DeliverInv /\ ProgrammedFirst

(* With the memory of a zero-copy sink, no element reads a frame buffer    *)
(* before the hardware has written it, and the hardware writes none that   *)
(* anybody reads: for any number of buffers, pictures and turns.           *)
THEOREM ZeroCopyHandsOver == Spec => HandoverSpec
<1>1. Init => IInv /\ HandInv /\ HandedOver!Init
  <2>1. Init => HandedOver!Init
    BY DEF Init, HandedOver!Init, Writing, Reading
  <2>2. Init => ProgrammedFirst
    BY DEF Init, ProgrammedFirst
  <2> QED
    BY <2>1, <2>2, InitIInv, InitDeliver DEF HandInv
<1>2. [Next]_vars => (ZeroCopy' <=> ZeroCopy)
  BY PoolKept DEF ZeroCopy
<1>3. IInv /\ HandInv /\ IInv' /\ [Next]_vars => HandInv'
  <2> SUFFICES ASSUME IInv, HandInv, IInv', [Next]_vars, ZeroCopy
               PROVE  DeliverInv' /\ ProgrammedFirst'
    BY <1>2 DEF HandInv
  <2>1. NoneForeign
    BY DEF ZeroCopy, NoneForeign
  <2>2. DeliverInv /\ ProgrammedFirst
    BY DEF HandInv
  <2> QED
    BY <2>1, <2>2, StepDeliver, StepProgrammed
<1>4. IInv /\ HandInv /\ IInv' /\ HandInv' /\ [Next]_vars
            => [HandedOver!Next]_<<Writing, Reading>>
  <2> SUFFICES ASSUME IInv, HandInv, IInv', HandInv', [Next]_vars
               PROVE  HandStep
    BY DEF HandStep
  <2>1. CASE ~ZeroCopy
    BY <1>2, <2>1 DEF HandStep, Writing, Reading
  <2>2. CASE ZeroCopy
    <3>1. /\ ZeroCopy /\ DeliverInv /\ ProgrammedFirst
          /\ ZeroCopy' /\ DeliverInv' /\ ProgrammedFirst'
      BY <1>2, <2>2 DEF HandInv
    <3>2. CASE OtherSteps \/ DownstreamStops
      BY <3>1, <3>2, HandOthers
    <3>3. CASE SkipOutput \/ \E b \in Buffers : AcquireOutput(b)
      BY <3>1, <3>3, HandTaken
    <3>4. CASE \E c \in AllCodes, d \in 0 .. left : Decode(c, d)
      BY <3>1, <3>4, HandDecoded
    <3>5. CASE PushPicture
      BY <3>1, <3>5, HandPushed
    <3>6. CASE \E b \in Buffers : DownstreamReleases(b)
      BY <3>1, <3>6, HandReleased
    <3>7. CASE UNCHANGED vars
      BY <1>2, <3>7 DEF HandStep, Writing, Reading, vars, frameVars,
         configVars, bufferVars
    <3> QED
      BY <3>2, <3>3, <3>4, <3>5, <3>6, <3>7 DEF Next, OtherSteps
  <2> QED
    BY <2>1, <2>2
<1> QED
  BY Invariant, <1>1, <1>3, <1>4, PTL DEF Spec, HandoverSpec, HandedOver!Spec
=============================================================================
