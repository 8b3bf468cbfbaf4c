------------------------------ MODULE G1Decoder ------------------------------
(***************************************************************************)
(* GstG1BaseDec and its four codecs (ext/g1/): the life of the decoder     *)
(* element and of one frame inside it.                                     *)
(*                                                                         *)
(* The streaming thread opens the codec and the post processor (PP), and   *)
(* then handles one input buffer at a time: it takes an output buffer from *)
(* the negotiated pool, programs the PP with the physical address of that  *)
(* buffer, lets the codec decode (the PP writes the picture in the same    *)
(* hardware pass), and pushes the buffer downstream.  The thread that      *)
(* renders runs concurrently and gives buffers back to the pool.           *)
(*                                                                         *)
(* Picture data is abstracted to where it is: a target is a memory the PP  *)
(* may be told to write to.  Stream data is abstracted to the amount of it *)
(* that is left, a picture geometry to a member of Sizes, and the return   *)
(* codes of the codec libraries to the classes their callers tell apart.   *)
(***************************************************************************)
EXTENDS Naturals, FiniteSets

CONSTANTS
    Codecs,      \* the decoder elements explored, some of CodecKinds
    Buffers,     \* the output buffers of the negotiated pool
    Sizes,       \* the picture geometries a stream header can announce
    PoolMems,    \* the kinds of memory the pool's allocator may give
    MaxData,     \* pieces of stream in one input buffer
    MaxPics,     \* pictures the codec has ready after one decode, at most
    MaxLive,     \* PP instances alive at once, at most
    None

CodecKinds == {"H264", "MP4", "VP8", "JPEG"}

(* Memory of the KMS allocator with a physical address (zero-copy), KMS    *)
(* memory without one, and memory of any other allocator.                  *)
MemKinds == {"framebuffer", "nophys", "foreign"}

ASSUME CodecsAssumption  == Codecs \subseteq CodecKinds
ASSUME PoolAssumption    == PoolMems \subseteq MemKinds
ASSUME NoneAssumption    == None \notin Buffers /\ None \notin Sizes
ASSUME BoundsAssumption  == /\ MaxData \in Nat \ {0}
                            /\ MaxPics \in Nat
                            /\ MaxLive \in Nat \ {0}

VARIABLES
    kind,        \* which of the codec elements this is (the subclass)
    pc,          \* where the streaming thread is
    negotiated,  \* the base class accepted the stream's caps
    ppLive,      \* PP instances created and not released
    codecLive,   \* codec instances created and not released
    announced,   \* the geometry the codec decodes, None before any header
    unread,      \* the header announced last could not be read (a history)
    ppIn,        \* ppconfig.ppInImg
    hwIn,        \* the input geometry of the last PPSetConfig
    target,      \* the output memory of the last PPSetConfig
    picture,     \* the memory the last picture was written to
    refs,        \* reference count of the frame
    listed,      \* the frame is in the base class's list of pending frames
    out,         \* frame->output_buffer
    left,        \* stream data left to decode for this frame
    headerless,  \* no header was announced for this frame yet
    ready,       \* pictures XDecNextPicture has still to return
    ret,         \* the GstFlowReturn of decode, OK or not
    fault,       \* the last failure met while handling this frame (a history)
    stale,       \* the last allocate_output let decode go on unprogrammed
    again,       \* the decode loop takes another turn after the pictures
    poolMem,     \* the kind of memory the pool gave each buffer
    dwl,         \* the buffers whose memory was replaced by DWL memory
    down,        \* references to each buffer held downstream
    last         \* the buffer on display, held until the next one is shown

lifeVars   == <<kind, negotiated, ppLive, codecLive>>
configVars == <<announced, unread, ppIn, hwIn, target>>
frameVars  == <<refs, listed, out>>
loopVars   == <<left, headerless, ready, ret, fault, stale, again>>
bufferVars == <<poolMem, dwl, down, last>>
vars == <<pc, lifeVars, configVars, picture, frameVars, loopVars, bufferVars>>

-----------------------------------------------------------------------------
(* Targets: memories the PP can be told to write to.                       *)

Target   == (Buffers \cup {None}) \X {"none", "pool", "dwl", "freed", "wild"}
NoTarget == <<None, "none">>
Freed    == <<None, "freed">>   \* physical memory given back to the DWL
Wild     == <<None, "wild">>    \* an address that is no memory of ours

(* The memory buffer b has now. *)
MemoryOf(b) == <<b, IF b \in dwl THEN "dwl" ELSE "pool">>

(* The last reference to the buffers of B goes away.  The pool keeps a     *)
(* buffer with the memory it gave it and discards one whose memory was     *)
(* replaced, which gives the DWL memory back.                              *)
AfterRecycling(B) == IF \E b \in B : target = <<b, "dwl">> THEN Freed
                                                         ELSE target
Recycle_Keep(B) == UNCHANGED <<dwl, target>>
Recycle(B)      == dwl' = dwl \ B /\ target' = AfterRecycling(B)

Idle(b) == down[b] = 0

Init ==
    /\ kind \in Codecs
    /\ poolMem \in [Buffers -> PoolMems]
    /\ \A a, b \in Buffers : poolMem[a] = "foreign" => poolMem[b] = "foreign"
    /\ pc = "null" /\ negotiated = FALSE
    /\ ppLive = 0 /\ codecLive = 0
    /\ announced = None /\ unread = FALSE /\ ppIn = None /\ hwIn = None
    /\ target = NoTarget /\ picture = NoTarget
    /\ refs = 0 /\ listed = FALSE /\ out = None
    /\ left = 0 /\ headerless = TRUE /\ ready = 0
    /\ ret = "ok" /\ fault = "none" /\ stale = FALSE /\ again = FALSE
    /\ dwl = {} /\ last = None
    /\ down = [b \in Buffers |-> 0]

-----------------------------------------------------------------------------
(* Opening, closing and negotiating.                                       *)

(* gst_g1_base_dec_setup_pp: a fresh PP configuration whose input geometry *)
(* is cleared, so that no output is produced before a header is parsed.    *)
SetupPP_NoReset == ppIn' = ppIn
SetupPP         == ppIn' = None

(* The codec's own open and close: XDecInit and XDecRelease. *)
InitCodec(failure) ==
    codecLive' = IF failure \in {"pp", "codec"} THEN codecLive ELSE codecLive + 1
ReleaseCodec == codecLive' = codecLive - 1

(* gst_g1_base_dec_open: each stage can fail, and nothing undoes the       *)
(* stages before it (the base class does not close what failed to open).   *)
Open(failure) ==
    /\ pc = "null"
    /\ failure # "none" => ppLive + 1 < MaxLive  \* bounds the leak
    /\ ppLive' = IF failure = "pp" THEN ppLive ELSE ppLive + 1
    /\ InitCodec(failure)
    /\ IF failure = "none" THEN SetupPP /\ pc' = "ready"
                           ELSE UNCHANGED <<ppIn, pc>>
    /\ announced' = None /\ unread' = FALSE
    /\ hwIn' = None /\ target' = NoTarget
    /\ UNCHANGED <<kind, negotiated, picture, frameVars, loopVars, bufferVars>>

ReleasePP_Keep == UNCHANGED ppLive
ReleasePP      == ppLive' = ppLive - 1

(* gst_g1_base_dec_close: PPRelease, then the codec's release. *)
Close ==
    /\ pc = "ready"
    /\ pc' = "null" /\ negotiated' = FALSE
    /\ ReleasePP /\ ReleaseCodec
    /\ announced' = None /\ unread' = FALSE
    /\ hwIn' = None /\ target' = NoTarget
    /\ UNCHANGED <<kind, ppIn, picture, frameVars, loopVars, bufferVars>>

(* The codec announces geometry s and parse_header takes it over, unless   *)
(* XDecGetInfo fails: then ppconfig keeps the geometry it had.             *)
ParseHeader(s, read) ==
    /\ announced' = s
    /\ unread' = ~read
    /\ ppIn' = IF read THEN s ELSE ppIn

(* The codec decodes a stream header, which it announces, or refuses. *)
DecodeHeader ==
    \/ UNCHANGED <<announced, unread, ppIn>>
    \/ \E s \in Sizes, read \in BOOLEAN : ParseHeader(s, read)

(* gst_g1_base_dec_stream_header: only MPEG-4 and VP8 caps carry a header, *)
(* which has to be copied to contiguous memory first.                      *)
StreamHeader ==
    IF kind \in {"MP4", "VP8"} THEN DecodeHeader
                              ELSE UNCHANGED <<announced, unread, ppIn>>

(* gst_g1_base_dec_set_format.  What the stream header returns is ignored. *)
(* The function returns an unset variable when all goes well, so the base  *)
(* class may refuse the caps in either case.                               *)
SetFormat ==
    /\ pc = "ready"
    /\ negotiated' \in BOOLEAN
    /\ StreamHeader
    /\ UNCHANGED <<pc, kind, ppLive, codecLive, hwIn, target, picture,
                   frameVars, loopVars, bufferVars>>

-----------------------------------------------------------------------------
(* A frame enters: handle_frame up to the decode loop.                     *)

(* gst_g1_base_dec_copy_memory cannot allocate or map. *)
CopyFails == pc' = "finish" /\ ret' = "error" /\ fault' = "copy"

(* The base class lists the frame and hands it over: two references.  The  *)
(* input is copied to contiguous memory unless it is there already; if     *)
(* that fails the frame is given up.                                       *)
HandleFrame(size) ==
    /\ pc = "ready" /\ negotiated
    /\ refs' = 2 /\ listed' = TRUE
    /\ left' = size
    /\ \/ /\ pc' = IF kind = "JPEG" THEN "info" ELSE "alloc"
          /\ UNCHANGED <<ret, fault>>
       \/ CopyFails
    /\ UNCHANGED <<lifeVars, configVars, picture, out, headerless, ready,
                   stale, again, bufferVars>>

(* gst_g1_jpeg_dec_decode up to its loop: every JPEG image has a header.   *)
JpegImageInfo ==
    /\ pc = "info"
    /\ \/ /\ \E s \in Sizes : ParseHeader(s, TRUE)
          /\ pc' = "alloc"
          /\ UNCHANGED <<ret, fault>>
       \/ /\ pc' = "finish" /\ ret' = "error" /\ fault' = "stream"
          /\ UNCHANGED <<announced, unread, ppIn>>
    /\ UNCHANGED <<lifeVars, hwIn, target, picture, frameVars, left,
                   headerless, ready, stale, again, bufferVars>>

-----------------------------------------------------------------------------
(* gst_g1_base_dec_allocate_output                                         *)

(* No header was parsed: the codec decodes with the PP unprogrammed. *)
SkipOutput ==
    /\ pc = "alloc" /\ ppIn = None
    /\ pc' = "decode" /\ ret' = "ok" /\ stale' = TRUE
    /\ UNCHANGED <<lifeVars, configVars, picture, frameVars, left, headerless,
                   ready, fault, again, bufferVars>>

(* The buffer of the previous turn of the loop, if the frame was its only  *)
(* owner: dropping it gives it back to the pool.                           *)
PreviousOutput == {b \in Buffers : b = out /\ Idle(b)}

(* The pool is flushing or cannot grow. *)
AcquireFails ==
    /\ pc = "alloc" /\ ppIn # None
    /\ out' = None
    /\ Recycle(PreviousOutput)
    /\ pc' = "finish" /\ ret' = "error" /\ fault' = "alloc"
    /\ picture' = NoTarget
    /\ UNCHANGED <<lifeVars, announced, unread, ppIn, hwIn, refs, listed, left,
                   headerless, ready, stale, again, poolMem, down, last>>

(* What the fb_phys_addr field of buffer b's memory reads as.  The code    *)
(* casts whatever memory it finds to GstKMSMemory: the field lies beyond   *)
(* the end of any other memory, where anything may be.                     *)
AddressRead(b) == CASE poolMem[b] = "framebuffer" -> {"fb"}
                    [] poolMem[b] = "nophys"      -> {"zero"}
                    [] poolMem[b] = "foreign"     -> {"zero", "garbage"}

(* The memory that address stands for: the frame buffer of b, DWL memory   *)
(* that replaces the pool's when there is no address, or no memory at all. *)
OutputMemory(b, addr) == CASE addr = "fb"      -> <<b, "pool">>
                           [] addr = "zero"    -> <<b, "dwl">>
                           [] addr = "garbage" -> Wild

(* The buffers with DWL memory once b is acquired and the previous output  *)
(* is gone.                                                                *)
Replaced(b, addr) == (dwl \ PreviousOutput) \cup
                     (IF addr = "zero" THEN {b} ELSE {})

(* PPSetConfig with ppconfig: the PP takes the input geometry and memory m *)
ProgramPP_SizeOnly(m)  == hwIn' = ppIn /\ UNCHANGED target
ProgramPP_StaleSize(m) == target' = m /\ UNCHANGED hwIn
ProgramPP(m)           == target' = m /\ hwIn' = ppIn

(* A buffer is acquired and the PP is programmed to write to it.  When the *)
(* DWL is out of memory the error is logged but GST_FLOW_OK returned, and  *)
(* the PP keeps the memory it was last given.                              *)
AcquireOutput(b) ==
    /\ pc = "alloc" /\ ppIn # None /\ Idle(b)
    /\ out' = b
    /\ picture' = NoTarget
    /\ pc' = "decode" /\ ret' = "ok"
    /\ \E addr \in AddressRead(b) :
          \/ /\ addr = "zero"
             /\ Recycle(PreviousOutput)
             /\ stale' = TRUE
             /\ UNCHANGED hwIn
          \/ /\ ProgramPP(OutputMemory(b, addr))
             /\ dwl' = Replaced(b, addr)
             /\ stale' = FALSE
    /\ UNCHANGED <<lifeVars, announced, unread, ppIn, refs, listed, left,
                   headerless, ready, fault, again, poolMem, down, last>>

(* PPSetConfig refuses the configuration: decoding stops. *)
ConfigRefused(b) ==
    /\ pc = "alloc" /\ ppIn # None /\ Idle(b)
    /\ out' = b
    /\ picture' = NoTarget
    /\ target' = AfterRecycling(PreviousOutput)
    /\ \E addr \in AddressRead(b) : dwl' = Replaced(b, addr)
    /\ pc' = "finish" /\ ret' = "error" /\ fault' = "pp" /\ stale' = TRUE
    /\ UNCHANGED <<lifeVars, announced, unread, ppIn, hwIn, refs, listed, left,
                   headerless, ready, again, poolMem, down, last>>

-----------------------------------------------------------------------------
(* The codec libraries (external) and the decode loops around them.        *)

(* The classes of return codes each codec's loop tells apart.  HDRS: new   *)
(* headers; PIC: a picture is decoded (FRAME_READY for JPEG); SLICE: part  *)
(* of one; PROCESSED: the input is used up; NOP: nothing to do; STRMERR:   *)
(* bad stream; NOTINIT; SYSERR: hardware or DWL; OTHER: the default case.  *)
CodesOf(k) ==
    CASE k = "H264" -> {"HDRS", "PIC", "PROCESSED", "NOP", "STRMERR",
                        "SYSERR", "OTHER"}
      [] k = "MP4"  -> {"HDRS", "PIC", "PROCESSED", "NOTINIT", "STRMERR",
                        "SYSERR", "OTHER"}
      [] k = "VP8"  -> {"HDRS", "PIC", "SLICE", "NOTINIT", "STRMERR",
                        "SYSERR", "OTHER"}
      [] k = "JPEG" -> {"PIC", "NOP", "STRMERR", "SYSERR", "OTHER"}

PictureCodes == {"PIC", "SLICE"}

(* What the libraries promise of a call that leaves d pieces of data: no   *)
(* picture before a header, and progress: only the first header of an      *)
(* input can be announced without consuming anything, and what does not    *)
(* end the VP8 and JPEG loops needs data to work on.                       *)
CodecMayReturn(c, d) ==
    /\ c \in PictureCodes => announced # None
    /\ \/ d < left
       \/ d = left /\ c = "HDRS" /\ headerless
       \/ d = left /\ c \in {"PROCESSED", "STRMERR", "SYSERR", "NOTINIT",
                             "OTHER"}
             /\ ~(kind = "H264" /\ c = "STRMERR")
       \/ d = left /\ c = "PIC" /\ kind \in {"VP8", "JPEG"}

(* The codes after which the error flag leaves the loop. *)
BreaksLoop_NotSystem(c) ==
    \/ c = "NOTINIT"
    \/ c = "STRMERR" /\ kind # "H264"
BreaksLoop(c) ==
    \/ c \in {"SYSERR", "NOTINIT"}
    \/ c = "STRMERR" /\ kind # "H264"

(* The codes that turn the flow return into an error.  A stream error is   *)
(* counted with weight 0 by the base class and stays GST_FLOW_OK, except   *)
(* in the JPEG decoder.                                                    *)
FailsFlow(c) == c = "SYSERR" \/ (c = "STRMERR" /\ kind = "JPEG")

(* The condition of each do-while; OTHER returns from inside the switch. *)
LoopsAgain(c, d) ==
    /\ ~BreaksLoop(c) /\ c # "OTHER"
    /\ CASE kind \in {"H264", "MP4"} -> c # "PROCESSED" /\ d > 0
         [] kind \in {"VP8", "JPEG"} -> c # "PIC"

(* H264 and MPEG-4 move their input pointers on to what the codec left;    *)
(* the VP8 and JPEG libraries keep their own place in the input.           *)
AdvanceInput_Forget(d) == IF kind \in {"H264", "MP4"} THEN left ELSE d
AdvanceInput(d)        == d

(* The codes whose case pops pictures and pushes them. *)
Pops(c) == c \in PictureCodes

(* What a turn that ends with c does to the headers: parse_header reads    *)
(* new ones, if it can.  MPEG-4 reads the header once more when the input  *)
(* is used up, and does not care whether it could.                         *)
TakeHeaders(c) ==
    \/ c = "HDRS" /\ \E s \in Sizes, read \in BOOLEAN : ParseHeader(s, read)
    \/ c # "HDRS" /\ UNCHANGED <<announced, unread, ppIn>>
    \/ /\ kind = "MP4" /\ c = "PROCESSED" /\ announced # None
       /\ ParseHeader(announced, TRUE)

(* One turn of the loop after allocate_output: XDecDecode returns c and    *)
(* leaves d; the switch on c; the pointer update and the loop condition.   *)
(* The PP writes a decoded picture to the memory it is programmed with.    *)
(* A header that cannot be read makes ret an error but not the error flag: *)
(* the loop goes on, and allocate_output sets ret anew.                    *)
Decode(c, d) ==
    /\ pc = "decode"
    /\ c \in CodesOf(kind) /\ CodecMayReturn(c, d)
    /\ TakeHeaders(c)
    /\ headerless' = (headerless /\ c # "HDRS")
    /\ picture' = IF c \in PictureCodes THEN target ELSE picture
    /\ left' = AdvanceInput(d)
    /\ ret' = IF FailsFlow(c) \/ (c = "HDRS" /\ unread') THEN "error" ELSE "ok"
    /\ fault' = CASE c = "SYSERR"                     -> "system"
                  [] c = "STRMERR" /\ kind = "JPEG"   -> "stream"
                  [] c = "HDRS" /\ unread'            -> "header"
                  [] OTHER                            -> fault
    /\ ready' \in IF ~Pops(c) THEN {0}
                  ELSE IF kind = "JPEG" THEN {1} ELSE 0 .. MaxPics
    /\ again' = LoopsAgain(c, left')
    /\ pc' = IF Pops(c) THEN "pop"
             ELSE IF LoopsAgain(c, left') THEN "alloc" ELSE "finish"
    /\ UNCHANGED <<lifeVars, hwIn, target, frameVars, stale, bufferVars>>

(* References the base class gives back when a frame is finished or        *)
(* dropped: the list's, if the frame is listed, and the caller's.          *)
Released == IF listed THEN 2 ELSE 1

(* gst_g1_base_dec_push_data takes a reference before finish_frame, which  *)
(* consumes one, because the frame is dropped once more at the end.        *)
PushRefs_NoRef == refs - Released
PushRefs       == refs + 1 - Released

(* A picture is popped and pushed.  Without an output buffer, or when      *)
(* PPGetResult fails, nothing is pushed and pop_picture goes on.  The      *)
(* element downstream takes the buffer, or refuses it.                     *)
PushPicture ==
    /\ pc = "pop" /\ ready > 0
    /\ ready' = ready - 1
    /\ \/ UNCHANGED <<refs, listed, down, last>>
       \/ /\ out # None
          /\ refs' = PushRefs /\ listed' = FALSE
          /\ \/ UNCHANGED <<down, last>>
             \/ /\ down' = [down EXCEPT ![out] = @ + 1]
                /\ last' = out
    /\ UNCHANGED <<pc, lifeVars, configVars, picture, out, left, headerless,
                   ret, fault, stale, again, poolMem, dwl>>

(* XDecNextPicture has no more: pop_picture returns GST_FLOW_OK. *)
PopEnds ==
    /\ pc = "pop" /\ ready = 0
    /\ pc' = IF again THEN "alloc" ELSE "finish"
    /\ UNCHANGED <<lifeVars, configVars, picture, frameVars, loopVars,
                   bufferVars>>

(* handle_frame ends, always with gst_video_decoder_drop_frame: the last   *)
(* reference goes, and with it the frame's reference to its buffer.        *)
DropFrame ==
    /\ pc = "finish"
    /\ pc' = "ready"
    /\ refs' = refs - Released /\ listed' = FALSE
    /\ out' = None /\ picture' = NoTarget
    /\ Recycle(PreviousOutput)
    /\ left' = 0 /\ headerless' = TRUE /\ ready' = 0
    /\ ret' = "ok" /\ fault' = "none" /\ stale' = FALSE /\ again' = FALSE
    /\ UNCHANGED <<lifeVars, announced, unread, ppIn, hwIn, poolMem, down, last>>

-----------------------------------------------------------------------------
(* Downstream (external): queues and a sink in their own threads.          *)

(* The sink keeps the buffer on display until the next one is shown. *)
DownstreamReleases(b) ==
    /\ down[b] > (IF b = last THEN 1 ELSE 0)
    /\ down' = [down EXCEPT ![b] = @ - 1]
    /\ Recycle({a \in {b} : a # out /\ down[a] = 1})
    /\ UNCHANGED <<pc, lifeVars, announced, unread, ppIn, hwIn, picture,
                   frameVars, loopVars, poolMem, last>>

(* The pipeline leaves PAUSED: the sink lets go of the last buffer too. *)
DownstreamStops ==
    /\ pc \in {"null", "ready"} /\ last # None
    /\ last' = None
    /\ UNCHANGED <<pc, lifeVars, configVars, picture, frameVars, loopVars,
                   poolMem, dwl, down>>

-----------------------------------------------------------------------------
OpenFailures == {"none", "pp", "codec", "combine", "config"}

AllCodes == UNION {CodesOf(k) : k \in CodecKinds}

Next ==
    \/ \E f \in OpenFailures : Open(f)
    \/ Close
    \/ SetFormat
    \/ \E n \in 1 .. MaxData : HandleFrame(n)
    \/ JpegImageInfo
    \/ SkipOutput
    \/ AcquireFails
    \/ \E b \in Buffers : AcquireOutput(b) \/ ConfigRefused(b)
    \/ \E c \in AllCodes, d \in 0 .. left : Decode(c, d)
    \/ PushPicture
    \/ PopEnds
    \/ DropFrame
    \/ \E b \in Buffers : DownstreamReleases(b)
    \/ DownstreamStops

Spec == Init /\ [][Next]_vars

(* The streaming thread runs on while it has a frame; failures, which are  *)
(* the environment's choice, are not forced.  Downstream threads render    *)
(* and let go of every buffer but the one on display.                      *)
FrameStep ==
    \/ JpegImageInfo
    \/ SkipOutput
    \/ \E b \in Buffers : AcquireOutput(b)
    \/ \E c \in AllCodes, d \in 0 .. left : Decode(c, d)
    \/ PushPicture
    \/ PopEnds
    \/ DropFrame

Fairness == /\ WF_vars(FrameStep)
            /\ \A b \in Buffers : WF_vars(DownstreamReleases(b))

FairSpec == Spec /\ Fairness

-----------------------------------------------------------------------------
(* Properties.                                                             *)

Busy == {"info", "alloc", "decode", "pop", "finish"}

(* The failures that end the handling of a frame. *)
EndsLoop == {"copy", "alloc", "pp", "system", "stream"}

TypeOK ==
    /\ kind \in Codecs
    /\ pc \in {"null", "ready"} \cup Busy
    /\ negotiated \in BOOLEAN
    /\ ppLive \in Nat /\ codecLive \in Nat
    /\ announced \in Sizes \cup {None} /\ unread \in BOOLEAN
    /\ ppIn \in Sizes \cup {None}
    /\ hwIn \in Sizes \cup {None}
    /\ target \in Target /\ picture \in Target
    /\ refs \in Nat /\ listed \in BOOLEAN
    /\ out \in Buffers \cup {None}
    /\ left \in 0 .. MaxData /\ headerless \in BOOLEAN
    /\ ready \in Nat
    /\ ret \in {"ok", "error"}
    /\ fault \in {"none", "header"} \cup EndsLoop
    /\ stale \in BOOLEAN /\ again \in BOOLEAN
    /\ poolMem \in [Buffers -> PoolMems]
    /\ dwl \subseteq Buffers
    /\ down \in [Buffers -> Nat]
    /\ last \in Buffers \cup {None}

(* However often the pictures of one input are pushed (gstg1basedec.c      *)
(* push_data refs the frame, finish_frame releases it, and handle_frame    *)
(* drops it at the end), the frame is alive as long as it is handled and   *)
(* not a moment longer.                                                    *)
FrameBalance ==
    /\ pc \in Busy    => refs = Released
    /\ pc \notin Busy => refs = 0 /\ ~listed /\ out = None

(* When the codec is called after allocate_output programmed the PP, the   *)
(* hardware is set to write the memory of this frame's own output buffer,  *)
(* which nobody downstream still reads, with the geometry of the stream    *)
(* being decoded, unless its header could not be read.                     *)
PPOwnsTarget ==
    pc = "decode" /\ ~stale => /\ out # None
                               /\ target = MemoryOf(out)
                               /\ Idle(out)
                               /\ unread \/ hwIn = announced

(* Whatever failed before, a buffer that goes downstream holds the picture *)
(* just decoded, unless the DWL was out of memory; and the picture has the *)
(* geometry the codec announced, unless parse_header could not read that.  *)
DeliveredHoldsPicture ==
    [][\A b \in Buffers : down'[b] > down[b] =>
          stale \/ (/\ picture = MemoryOf(b)
                    /\ unread \/ hwIn = announced)]_vars

(* "If it is g1kmssink and zero-copy is enabled, then post processing      *)
(* module copies the video frames directly to the frame buffer"            *)
(* (gstg1basedec.c, allocate_output): the PP is never sent to an address   *)
(* that is neither a frame buffer's nor the DWL's.                         *)
AddressIsMemory == target # Wild

(* After a reopen too, no output buffer is taken and the PP is not         *)
(* programmed before this codec instance has announced a header            *)
(* ("Force format parsing" in setup_pp).                                   *)
HeadersFirst == out # None \/ target # NoTarget => announced # None

(* handle_frame returns an error whenever the input could not be copied,   *)
(* no output could be had, the PP refused its configuration, the hardware  *)
(* failed or a JPEG image is broken, and for no other reason but these and *)
(* an unread header: no later turn of the decode loop, which starts by     *)
(* setting the flow return anew, runs after a failure that must be         *)
(* reported.  A header that could not be read is the one failure that a    *)
(* later turn may hide.                                                    *)
ErrorsReported ==
    pc = "finish" => /\ fault \in EndsLoop => ret = "error"
                     /\ ret = "error" => fault # "none"

(* PP and codec instances that no state of the element accounts for. *)
Leaked == ppLive + codecLive - (IF pc = "null" THEN 0 ELSE 2)

(* Only a failed open loses an instance: what a successful open creates,   *)
(* the next close releases.                                                *)
OnlyFailedOpenLeaks == [][Leaked' > Leaked => pc = "null" /\ pc' = "null"]_vars

(* Zero-copy ("copies the video frames directly to the frame buffer"): the *)
(* memories of the pool are handed over as Handover says, although the     *)
(* base class, the post processor and the sink each know only a part: what *)
(* allocate_output took is not read by anybody while the hardware writes   *)
(* it, and only what it wrote goes downstream, once or several times.      *)
(* With any other pool, the turn after a shortage of DWL memory goes on    *)
(* with the memory of an earlier picture, and nothing is promised.         *)
ZeroCopy == \A b \in Buffers : poolMem[b] = "framebuffer"

Writing == IF ZeroCopy /\ pc = "decode" THEN {target[1]} \ {None} ELSE {}
Reading == {b \in Buffers : ZeroCopy /\ (down[b] > 0 \/ (pc = "pop" /\ b = out))}

HandedOver ==
    INSTANCE Handover WITH
        Mems <- Buffers, writing <- Writing, reading <- Reading

HandoverSpec == HandedOver!Spec

(* Every input buffer is done with in the end: the decode loop terminates  *)
(* and an output buffer comes back from downstream when one is needed.     *)
FrameEventuallyDone == pc \in Busy ~> pc = "ready"

(* Why it does: each step of the call, but for those of other threads,     *)
(* takes something away that is not given back.  A turn of the loop must   *)
(* use up stream data, or announce the one header that may be announced    *)
(* without using any; between two turns there is a fixed order of phases;  *)
(* and popping ends with the pictures.                                     *)
Work == IF pc = "finish" \/ (pc = "pop" /\ ~again) THEN 0
        ELSE 2 * left + (IF headerless THEN 1 ELSE 0) + 1

Phase == CASE pc = "info"   -> 4
           [] pc = "pop"    -> 3
           [] pc = "alloc"  -> 2
           [] pc = "decode" -> 1
           [] pc = "finish" -> 0

LessToDo == \/ Work' < Work
            \/ Work' = Work /\ Phase' < Phase
            \/ Work' = Work /\ Phase' = Phase /\ ready' < ready

FrameProgress ==
    [][{pc, pc'} \subseteq Busy =>
          LessToDo \/ (UNCHANGED <<pc, loopVars>>)]_vars

(* DWL memory stands in for a pool's only as long as the frame or somebody *)
(* downstream has the buffer: no way out of allocate_output, no picture    *)
(* pushed twice and no order of releases leaves physical memory behind.    *)
DWLInUse == \A b \in dwl : b = out \/ ~Idle(b)

(* DWL memory given to an output buffer is given back once the buffer is   *)
(* neither the frame's nor on display.                                     *)
DWLMemoryReturns ==
    \A b \in Buffers : b \in dwl ~> (b \notin dwl \/ last = b)
=============================================================================
