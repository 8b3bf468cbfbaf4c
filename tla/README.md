# A verification project for gst1-hantro-g1

The repository is a GStreamer 1.x plug-in set for the Hantro G1 video decoder of
the SAMA5D4: decoder elements that drive the closed `dwl`, codec and
post-processor libraries, and video sinks for the display.  This directory holds
TLA+ modules for the parts of it that keep state across calls and threads, the
TLC configurations that check them, and TLAPS proofs.

## 1. The system

### Components

| component | source | state it keeps | operations |
|---|---|---|---|
| decoder base class `GstG1BaseDec` | `src/ext/g1/gstg1basedec.c` | the post processor and codec instances, `ppconfig`, the DWL allocator, the properties | open, close, set_format, decide/propose_allocation, handle_frame, allocate_output, push_data, set_property |
| codec elements | `gstg1h264dec.c`, `gstg1mp4dec.c`, `gstg1vp8dec.c`, `gstg1jpegdec.c` | the codec handle, a picture number | decode (a loop over the library), parse_header, pop_picture |
| DWL and bus allocators | `src/gst-libs/ext/g1` | the DWL instance; a fixed physical address | alloc, free |
| KMS allocator, memory and pool | `src/sys/kms/gstkmsallocator.c`, `gstkmsbufferpool.c` | a duplicated descriptor; per memory a buffer object, a frame buffer, a mapping and its count | bo_alloc, free, map, unmap, dmabuf_import |
| KMS sink | `src/sys/kms/gstg1kmssink.c` | descriptor, output (connector, CRTC, plane), pool, last buffer, the memory of the mode setting | start, stop, set_caps, propose_allocation, show_frame, sync |
| DRM sink | `src/sys/drmsink/gstdrmsink.c` | the device, the plane's flag, the flag of a pending flip, memories allocated when they are first mapped | open/close_hardware, alloc, map, free, pan_display, wait_for_vsync |
| framebuffer sink base class | `src/sys/drmsink/gstframebuffersink.c` | screens and the current index, the pool, the video info, the properties | start, set_caps, propose_allocation, show_frame, reset, stop |
| fbdev sink | `src/sys/fbdev/gstg1fbdevsink.c` | the mapped frame buffer, the position and size of the copy | start, stop, setcaps, show_frame, set_property |
| perf element | `src/gst/perf` | counters and averages | transform_ip |
| formats, result strings, enums, registration | `gstg1format.c`, `gst-libs/ext/g1`, `gstkmsutils.c` | none | tables |

`src/sys/Makefile.am` descends into `kms` only: the DRM and fbdev sinks are kept
in the repository but not built by default.

### How they interact

The upstream thread calls `handle_frame` of the decoder with one input buffer.
The codec's loop asks for an output buffer (`allocate_output`), which comes from
the pool that the allocation query settled on, often the one the KMS sink
proposed.  The decoder writes the buffer's *physical* address into the post
processor's configuration; the hardware writes the picture there while the codec
library decodes.  `push_data` finishes the frame, which sends the buffer to the
sink, in the same thread or through a queue.  The KMS sink programs a plane with
the buffer's frame buffer and waits for a vertical blank or page flip event
before it lets go of the previous one.  The DRM sink copies the frame to a
screen of its own, or has told the decoder to write there, and asks for a page
flip; it never waits for one, but skips frames until it has read the flip's
event.  The application's thread changes properties and states.

### What is hard, and what makes each part correct

* *Decoder*: one input can produce no, one or several pictures, each turn of the
  loop replaces the output buffer, and the hardware keeps whatever configuration
  it was last given.  Correct means: the frame's references balance; the
  hardware is only sent into memory that belongs to the frame and that nobody
  downstream reads; what goes downstream holds the picture; no error that ends
  the handling of a frame is hidden by a later turn; nothing is produced before
  a header; what is opened is closed.
* *Negotiation*: the answer of downstream is filtered while it is walked; a crop
  is checked against sizes that another thread changes, one side at a time.
  Correct means: no compatible allocator is lost; once the streaming thread has
  reconfigured undisturbed, the post processor crops to what the properties say
  and within the picture.
* *KMS memory*: several threads map one memory.  Correct means: one window,
  alive as long as anybody uses it.
* *KMS sink*: producer, sink and display touch the same memories at the same
  time, and the caps, the mode and the element's state change in between.
  Correct means: nobody writes the memory on the screen, no memory on the screen
  is freed, and when `show_frame` is done the frame is on the screen.
* *DRM sink, framebuffer sink*: page flips that time out, are skipped or fail,
  screens that are reused, state that survives a restart.  Correct means: one
  flip at a time; the sink's flag tells the truth about the display; the picture
  does not freeze; there is a screen to show.
* *fbdev sink*: geometry that the kernel reports against frames of any size.
  Correct means: a copy stays inside the frame buffer.

The hazards are listed one by one, with their lines, in `PROJECT.json`.

## 2. The modules

| module | models | uses |
|---|---|---|
| `Handover` | abstract: how elements of a pipeline hand over the memories they share | |
| `Handover_proofs` | what that promise is worth | `Handover`, `TLAPS` |
| `G1Decoder` | decoder base class with its codecs, output pool and downstream | instantiates `Handover` |
| `G1Decoder_proofs` | theorems about it | `G1Decoder`, `TLAPS` |
| `G1Allocation` | the loop of `decide_allocation` | |
| `PPConfig` | the crop of the post processor, and the two threads that set it | |
| `PPConfig_proofs` | theorems about it | `PPConfig`, `TLAPS` |
| `G1Negotiation` | `set_format`: the composition of the two | `PPConfig`, `G1Allocation` |
| `G1Negotiation_proofs` | theorems about the loop and the composition | `G1Negotiation`, `PPConfig_proofs` |
| `SharedMapping` | abstract: what a memory that can be mapped promises | |
| `KMSMemory` | one memory of the KMS allocator and the threads that map it | instantiates `SharedMapping` |
| `KMSMemory_proofs` | theorems about it | `KMSMemory`, `TLAPS` |
| `KMSSink` | the KMS sink, its pools, the producer and the display | instantiates `Handover` |
| `KMSSink_proofs` | theorems about it | `KMSSink`, `TLAPS` |
| `PageFlip` | abstract: the protocol of page flips | |
| `DrmSink` | the DRM device, its video memory, flips and events | |
| `FramebufferSink` | the base class over that device | `DrmSink`, instantiates `PageFlip` |
| `FramebufferSink_proofs` | theorems about both | `FramebufferSink`, `TLAPS` |
| `FbdevSink` | the fbdev sink and the bus allocator | |
| `FbdevSink_proofs` | theorems about it | `FbdevSink`, `TLAPS` |
| `MC...` | the model values and symmetry sets of the runs | |

Operators named `Something_Variant` are plausible mistakes in the code that
`Something` models; each is paired in `PROJECT.json` with a property that it
breaks.

### G1Decoder

`pc` is where the streaming thread is: `ready` between calls, `info` (the JPEG
header), `alloc` (before `allocate_output`), `decode` (before `XDecDecode`),
`pop` (in `pop_picture`), `finish` (before `drop_frame`).  One action is one
stretch of code between two points where another thread can matter; the return
code of a library is chosen freely among the classes its caller tells apart.

| state | code |
|---|---|
| `ppLive`, `codecLive` | instances made by `PPInit` and `XDecInit` and not released |
| `announced`, `ppIn`, `hwIn` | geometry in the codec, in `ppconfig.ppInImg`, in the last `PPSetConfig` |
| `target`, `picture` | where the hardware is told to write; where the last picture is |
| `refs`, `listed`, `out` | references to the frame, its place in the base class's list, `frame->output_buffer` |
| `poolMem`, `dwl` | kind of memory the pool gives; buffers whose memory was replaced by DWL memory |
| `down`, `last` | references downstream; the buffer on display |
| `unread` | history: the header announced last could not be read |
| `stale`, `fault` | the last `allocate_output` returned OK without programming; what failed in this call, if anything |

Picture data is reduced to where it is, a stream to a number of pieces, a
geometry to a value.  The four loops are one action `Decode(c, d)` parameterised
by the codec, because they differ in which codes they know (`CodesOf`), which
leave the loop (`BreaksLoop`), which fail (`FailsFlow`) and how they end
(`LoopsAgain`).  A header whose information the library cannot give (`GetInfo`
fails) is an error that does not end the loop of H.264, MPEG-4 and VP8: the next
turn's `allocate_output` sets the flow return anew.  `ErrorsReported` is about
the failures that end the handling of the frame, and says of this one that only
it may be hidden.  `InitCodec`, `ReleaseCodec`, `DecodeHeader` and `StreamHeader`
are the codecs' own callbacks, and `CopyFails` the copy of the input to memory
the hardware can read.

What the closed libraries are assumed to do is in `CodecMayReturn`: no picture
before a header, and progress.  The reference counting of
`GstVideoDecoder` is in `Released` and `PushRefs`: a frame enters with two
references, finishing or dropping gives back the caller's and, the first time,
the list's.

### Handover

`Handover` is what the two ends of the zero-copy path must agree on: a memory is
taken to be written only while nobody reads it, and is read only after its
writer has handed it over (`Take`, `Give`, `LetGo`).  No function of the code
owns this rule: the decoder knows its frame, the pool its buffers, the sink its
screen.  `G1Decoder` and `KMSSink` are each shown to keep to it, for the
memories they see:

| | being written | being read |
|---|---|---|
| `G1Decoder` | the target, while the codec decodes | what downstream holds, and the buffer of the frame while pictures are pushed |
| `KMSSink` | what the producer holds, and the frame `show_frame` copies to | what is queued, given to the sink or kept by it; what is on the screen or about to be, if it is a pool's memory and has been shown |

The sink promises it only while it copies (with its own zero-copy property the
screen shows a memory that is still being written, finding 3) and only until
its first flow error.  The decoder promises it when its pool consists of frame
buffers (`ZeroCopy`): with other memories it writes DWL memory in their place,
and after a shortage of that (`stale`) the turn goes on with the target of the
previous one, which downstream may be reading already.

### PPConfig, G1Allocation and G1Negotiation

`gst_g1_base_dec_config_crop` is called by the application with one argument
and by the streaming thread with the element's four.  Nothing is locked, so a
call is two steps: `Enter` (alignment and all checks) and `Leave` (the
assignments), and the other thread may take its own steps between them.

| state | code |
|---|---|
| `crop` | `crop_x`, `crop_y`, `crop_width`, `crop_height` of the element |
| `ppCrop`, `enable` | `ppconfig.ppInCrop` |
| `in`, `out` | `ppconfig.ppInImg`; the size in the output state, or none |
| `call` | the arguments each thread is in `config_crop` with |
| `mixed`, `settled` | two calls overlapped; the last change of a size was followed by an accepted, undisturbed reconfiguration |

`mixed` and `settled` are history: they say when the properties are promised.
Between a refused reconfiguration (`Refuse`) and the next accepted one the crop
of an earlier call stays enabled, so nothing is claimed then.  The comment at
lines 1127-1132 asks for `<` where the checks allow equality; the model has the
checks.  The setters for the mask pass `(gpointer) -1` where the others pass
`-1`, the getters of width and height return `x` and `y`, and the label
`PROP_ROTATION` (line 818) lacks its `case`, so that the rotation can never be
set; masks, rotation and colours are not modelled.

`G1Allocation`: a turn of the loop is a step.  Parsing or removing beyond the
end of the list does nothing.

`G1Negotiation` runs them as `set_format` does: the output state is made, the
allocators are examined while the application may set properties, and only then
is the crop applied to the new output.

### KMSMemory and SharedMapping

`CreateBo`, `AddFb`, `MapForNobody` and `Free` are the stages of a memory's
life.  A user's call of map or unmap is cut at every access to the shared fields
`ptr` and `refs`.  `Serialised` says whether something keeps calls apart: the
allocator itself has no lock, and `gst_memory_map` lets readers in together.
Users of a memory never map it a second time while they have it mapped.

`SharedMapping` is the promise: a set of users, one window.  The refinement maps
`mapped` to the users that hold a view and `window` to `ptr` while there are any.

### KMSSink

A buffer is its memory.  `pool` says where each memory belongs; holders are the
variables `producer`, `queue`, `input`, `frame`, `sample`, `last`, `tmp`.  A
memory of a pool that is gone (`retired`) is freed with its last holder, inside
the action that lets go of it.  `plane` is what the code has asked for, `scanned`
what the display reads; `VBlank` makes the second the first and completes the
events that were asked for.  `fresh` holds the memories that were put on the
screen by their own allocation and have not been shown since.

Simplifications: the plane and the CRTC of mode setting are one output (with
universal planes the first plane found is the primary one); the proposed pool is
replaced together with the internal one; upstream stops with the sink; queues
hold one buffer; properties are set before the start.  dmabuf import is not
modelled, nor are crop rectangles and scaling.

### DrmSink, FramebufferSink and PageFlip

`DrmSink` has the calls of `gstdrmsink.c` as operators, `FramebufferSink` the
element that makes them.  `pan_display` and `close_hardware` are cut into steps
(`plane`, `flush`, `flip`; `close`, `wait`) where the display can move.  As
GStreamer stops the streaming thread before it resets or stops a sink, one `pc`
serves both threads.

| state | code |
|---|---|
| `fd`, `planeSet`, `pending` | `fd`, `set_plane_initialized`, `page_flip_pending` |
| `mem`, `fbs`, `orphans` | per memory: none, made lazily, mapped; frame buffers; frame buffers nobody knows any more |
| `physical` | the address given to the decoder by `gst_g1_gem_set_physical` |
| `flip` | the page flip under way: what the CRTC is about to show |
| `vblank`, `events` | an event asked for; events to be read from the device |
| `slots`, `used`, `index` | the length of `screens`, `nu_screens_used`, `current_framebuffer_index` |
| `overrun` | history: since the last reset a single screen was copied to, or `set_caps` made fewer screens than before |
| `pool`, `buffers` | the pool kept for a proposal; the pool upstream has |
| `set` | the properties, which the application changes at any time |
| `info`, `usePool`, `vsync`, `maxFrames` | `video_info`, `use_buffer_pool`, the property as read at start, `max_framebuffers` |
| `output` | whether `find_mode_and_plane` found a CRTC |
| `refused` | history: a flip was refused since the device was opened |

What the translation found and keeps as the code has it:

* `gst_g1_gem_set_physical` is called but not defined in the repository; it is
  taken to store the address.
* The assignment `nu_screens_used = 2` stands in a condition
  (`gstframebuffersink.c:2231`): with one screen the index leaves the array, and
  reset frees a screen that does not exist.  New caps that make fewer screens than
  before, once `zero-memcpy` is set for instance, do the same to the index, which
  `set_caps` leaves alone.  `flip-buffers` set to 1, "Page
  flipping is disabled when set to 1" (lines 297-299), flips all the same.
* `set_caps` keeps `video_info` over a reset: the same caps after a restart get
  no screens.  `buffer-pool` together with the default `zero-memcpy` has none
  either.  The model stops there (`pc = "no screen"`).
* Frame buffers are never removed, as `drmModeRmFB` is given the handle of the
  buffer object, and so the device's memory is used up (`Capacity`), by
  `benchmark` too.
* `wait_for_vsync` asks for an event and does not wait.  The plane is set once,
  to the first memory; later flips go to the CRTC.
* A failed flip leaves `page_flip_pending` set.  The close gives up after five
  seconds.  An open that fails late leaves the descriptor open, and the result of
  `find_mode_and_plane` is ignored: without a mode or a plane the start crashes
  (`StartCrashes`), without a CRTC `pan_display` or the close does (`Pan`,
  `CloseCrashes`).  The model stops there (`pc = "no output"`).
* A pool that was made before there were screens can still be handed to
  upstream; its buffers are then copied to the screens (`FrameOfOldPool`).

The setters of the properties only assign, and the streaming thread reads some of
them with every frame, so `SetProperty` is possible in the middle of one.

Overlays are not modelled: the property `hardware-overlay` keeps the FALSE that
the DRM sink gives it.  The code is reachable when an application sets it: no
sink of the repository names an overlay format, so that `set_caps` switches
overlays off, but reset switches them on again, and with caps that are already
known the frames after a restart go to `show_frame_overlay`.  The caps the sink
offers (lines 1161-1452) depend on nothing the model keeps.

`PageFlip` is the protocol a user of page flips must keep: ask once, learn of the
switch, ask again.  `Rename` is a picture whose memory is given up while the
display keeps it.

### FbdevSink

A device is the geometry the kernel reports.  `at`, `scan` and `caps` are
`cx`/`cy`, the line length and lines of the copy, and the size of the frame;
`started` and `bus` are the device of the stream and that of the one bus
allocator, which is the first that was ever started.  `written` is where the last
copy ended.  `origin` is history: for each axis, the screen and frame that
`set_caps` computed the position from, as the code takes that position for the
application's own at the next stream (line 249).  `CopyInside` promises what this
allows: a copy stays inside along an axis whose position was computed, now or
earlier and on whatever device, for a screen no larger and a frame no smaller.
With a larger frame the code does write outside, although line 22 says that the
video is "cropped if needed to fit onscreen"; `PROJECT.json` lists this as a hazard
at line 249, and no run shows it.  For a position of the application's the code
promises nothing.

Only the destination of the copy is checked.  What the sink holds (descriptors,
mappings, references to the allocator) has no variable: a start that fails after
the open, a stop whose `munmap` fails (lines 361-362), a refused zero-copy frame
and the allocator's reference (line 341) each leave something behind.

## 3. What the runs show

| run | question | bounds |
|---|---|---|
| `decoder_safety` | the safety properties of the decoder, four codecs, all failures; DWL memory belongs to a buffer in use; each turn leaves less to do; frame buffers are handed over as `Handover` says | 2 buffers, 2 geometries, 2 pieces of stream, 2 pictures per call, 2 instances |
| `decoder_liveness` | frames end, DWL memory returns | as above with 1 geometry and 1 picture |
| `decoder_foreign` | *violated*: the address of a buffer that is not KMS memory | 2 buffers |
| `mapping_serialised` | map and unmap implement one shared window | 3 users, 2 addresses, 2 lost mappings |
| `mapping_race` | *violated*: overlapping calls | 2 users, 2 addresses |
| `sink_display` | who touches which memory when, and that they are handed over; `show_frame` returns | 3 memories |
| `sink_zerocopy` | *violated*: the frame shown by a zero-copy sink | 2 memories |
| `sink_resumed` | *violated*: an event that arrives in a later call | 3 memories |
| `negotiation_crop` | the crop after two threads have set it, the allocators kept meanwhile | 2 pictures, 2 outputs, 1 position, 2 extents, 4 offers |
| `allocation_pool` | *violated*: what is left after two incompatible offers | 3 offers |
| `framebuffer_screens` | page flips, screens and restarts of the DRM sink; the index stays inside the screens; each step of a call leaves less to do; nothing freezes | 2 memories, room for 3, 3 settings, 2 sizes |
| `fbdev_screen` | a frame that `set_caps` placed, in this stream or an earlier one, is copied inside the frame buffer | 3 devices up to 5 by 4, 4 sizes of frame, 2 offsets |

The largest, `negotiation_crop`, has two million states; `fbdev_screen` and
`decoder_safety` have about half a million, the others fewer.

*Bounds.*  Two output buffers let one be on display while the other is written,
and a shortage occur; two geometries let a change be missed; two pieces and two
pictures let a loop turn with something left, and push one buffer twice.
`MaxLive` bounds the instances that failed opens leave behind: two distinguish
"one is lost" from "none is".  For the KMS sink, three memories let one be
shown, one be written and one be allocated; the fourth party, the memory of the
mode setting, takes the place of one of them.  Three users of a mapping let one
enter while a second leaves and a third stays.  Four offers hold two separate
pairs of neighbours.  The crops of `negotiation_crop` are aligned to 24 pixels
at 0 or 16: a crop at 16 leaves one picture at its right and the other at its
bottom, and a height of 24 is too little for one of the outputs.  Two screens
let one be shown and one be written; room for three frames lets both be
allocated and the next stream run out.  The three settings are the default,
copying (with the benchmark) and pooling (see `MCFramebufferSink`); as
properties change at any time, a stream meets their combinations too: a pool
made under one setting and frames shown under another, or screens made for
upstream to write and then copied to.  The screens of `fbdev_screen` are
narrower, as wide and wider than the frames, with lines that are padded by
nothing, by less than a pixel and by a whole one.

*Deadlock* is checked in every run but one: the DRM sink ends where it would
follow a null pointer or start without an output.

*Fairness.*  `G1Decoder!FairSpec`: the streaming thread runs while it has a frame
(`FrameStep`, without the failures), and downstream renders and releases what it
holds, except the buffer on display.  `KMSSink!FairSpec`: the streaming thread
runs, and the display keeps blanking, as the kernel's event is the only thing
that ends the loop of `sync`.  `FramebufferSink!FairSpec`: the thread inside a
call runs (`Work`), and the display completes a flip it has accepted (`Switch`).
Neither a successful flip nor the arrival of frames is assumed.  No fairness is
assumed of the application, the producer or the failures of a read.

### Findings

1. `AddressIsMemory` (`gstg1basedec.c:726`): the memory of any pool buffer is
   cast to `GstKMSMemory`.
2. `ViewsMapped` (`gstkmsallocator.c:321`): check-then-act on the mapping.
3. `ZeroCopyOnScreen` (`gstg1kmssink.c:1268`): with zero-copy, the display shows
   the memory allocated last, not the frame.
4. `FrameOnScreen` (`gstg1kmssink.c:1031`): an event that could not be read
   points to a dead stack frame and is taken for a later one.
5. `PoolGetsCompatible` (`gstg1basedec.c:416`): entries are removed from the list
   the loop counts through.

Passing properties also fix the extent of what is wrong: `IndexInside` says that
the index of the DRM sink leaves its screens only after a copy to a single screen
or caps that make fewer of them, and `NotFrozen` and `PendingIsReal` that a
refused flip is the only way its picture freezes.

## 4. What is proved

TLAPS proves, for every value of the constants that satisfies the assumptions in
the modules:

* `G1Decoder_proofs`: `TypeCorrect`, `FrameBalanced`, `HeadersComeFirst`,
  `FailuresReported`, `LeaksOnlyOnFailedOpen`, `DWLMemoryInUse` and
  `FrameProgresses`; assuming that the pool gives KMS memory
  (`"foreign" \notin PoolMems`, without which finding 1 shows them false),
  `PPWritesOwnBuffer` and `PictureDelivered`; and for every
  pool the refinement `ZeroCopyHandsOver`.
* `Handover_proofs`: `NeverBoth`, that whoever keeps to `Handover` never has a
  memory written while it is read.
* `KMSMemory_proofs`, assuming `Serialised` (without which finding 2 shows them
  false): `Typed`, `ViewsStayMapped`, `RefsAreViews` and the refinement
  `ImplementsSharedMapping`.
* `KMSSink_proofs`: `Typed`, and, for a stream that ends with its first flow
  error (`AfterError \subseteq {"failed"}`, without which finding 4 shows them
  false), `NobodyTears`, `FrameGetsShown`, `ScannedLives` and the refinement
  `MemoriesHandedOver`.
* `PPConfig_proofs`: `PPTyped`, `PPAgreement`, `CropSuits`, `CropKept`, for
  any sizes.
* `G1Negotiation_proofs`: `NegotiationTyped`, `LoopFilters` and `NoneLost`, for an
  answer of any length; `PoolServed`, that the pool gets a compatible allocator
  when no two incompatible offers are neighbours (finding 5 is about those that
  are); and `NegotiatedCrop`: the composition keeps the crop's promise,
  because each of its steps is a step of `PPConfig` or leaves it alone.
* `FramebufferSink_proofs`: `Typed`, `FlipsCovered`, `PendingFlips`,
  `IndexesInside`, `ZeroCopies`, `CallsProgress`, and the refinement
  `KeepsToPageFlip`, for any number of screens and any settings.
* `FbdevSink_proofs`: `Typed`, `CopiesInside`, for any geometry.

The arguments are inductive invariants; none of the properties above is one
alone.

* *Decoder*: the frame's references are what `Released` gives back in every state
  of the loop and zero outside it; after `allocate_output` the target is the
  memory of the frame's own buffer, and that buffer is held by nobody downstream
  until it is pushed; a picture stands where the target was when it was decoded;
  and a failure always takes the thread to `finish`.
* *Progress*: `FrameProgress` and `CallProgress` say that a step inside a call
  lowers a variant, in lexicographic order.  For the decoder it is the work left
  (twice the stream not yet consumed, one for the header that may be announced
  without using any, one for the turn itself), the place in the turn and the
  pictures ready; for the DRM sink the stage of the call and the flip, blank and
  events outstanding.  This is the part of termination that depends on the data,
  proved for any amount of stream and any number of screens; that the steps *are*
  taken needs fairness and stays with the liveness runs.
* *Handover*: both refinements have one step per action.  Only an action that
  takes a memory needs an argument.  In the decoder the memory taken is the
  frame's own (`ProgrammedFirst`: nothing is decoded before it is programmed),
  and its reference downstream is zero.  In the sink a free memory is held by
  nobody, so nothing but its being new can justify it on the screen (`ScreenInv`),
  and a new memory has not been shown.
* *KMS memory*: where the one call under way may be, and for each such place what
  `refs` is relative to the number of views and whether the window is open.
  Between calls they agree, and inside a call they differ by the step that is
  still to come; `RefsCountViews` says nothing of the inside of a call.
* *KMS sink*: `HeldInv` says whose each memory in use is: what anybody holds has
  not been freed, and nobody else holds what is being written.  `ScreenInv` says
  why each memory on the screen, or about to be, may be there: it is new, belongs
  to the mode setting, was shown last, or is the frame that `sync` waits for.  The
  writers hold none of these.  That the frame *is* the one on the screen when the
  event comes needs in addition that no event of an earlier call is outstanding
  (`EventInv`), which is where the assumption on errors enters.
* *Crop*: `SettledFits` says that a settled crop as a whole passes the checks.
  What makes it inductive is `Undisturbed`: a call that overlapped no other was
  checked against sizes that still hold, although it writes later.  `PPAgrees`
  and `CropFits` hold in the states between calls only.
* *Allocators*: everything before the index is compatible and everything after it
  is still apart, although the list shrinks under the index.  That none is lost
  is a count: the compatible offers are those at a set of positions, and taking
  out an incompatible one only shifts that set (`CompatibleKept`; a filter of the
  sequence would need induction).
* *Page flips*: `FlipInv` adds to `FlipCovered` that a flip and its event are not
  there together, and that nothing is under way once the device is closed, which
  is what lets the next open clear the flag.
* *Screens*: `ScreenInv` says when there are screens at all: only while the element
  is paused and uses no pool.  A pool's frame then finds no array to index, and
  the index waits at 0 for the next one.
* *fbdev*: `LayoutInv` says that a position with an origin is the centre computed
  from it, whatever has been started since, and that the copy is laid out for the
  device and frame at hand.  The proof rests on lemmas about the centre and the
  line length: a centre that fits fits a larger screen and a smaller frame too,
  and integer division rounds down twice, in favour of the screen.

Only model-checked: the liveness properties (`FrameEventuallyDone`,
`DWLMemoryReturns`, `ShowFrameReturns`, `CallsReturn`, `NotFrozen`), as the prover
has no rule for fairness and `ENABLED`.

## 5. What is not modelled

* *References to codec states and input memory* (`gstg1basedec.c:560`, `:766`):
  both are counted by GObjects outside the frame; the leaks are listed as hazards
  and nothing else depends on them.
* *The bytes the post processor writes*: the output is rounded to multiples of 16
  (`gstg1basedec.c:713`), what the closed library then writes is not in the
  repository.
* *Rotation, masks and colours* of the post processor: values that are copied to
  `ppconfig` and that no other state depends on.
* *dmabuf import* of the KMS sink (`gstkmsallocator.c:453` follows a null pointer
  there), its crop rectangles and scaling, and changes of its properties while it
  runs.
* *Overlays and offered caps* of the framebuffer sink, as described above; the
  position, scale and contents of the DRM plane, and an interrupted `select`.
* *What the fbdev sink holds*, as described above, and frames of its own
  zero-copy memory, which are not copied.
* *perf*: running averages of a single thread, which leave it as the text of an
  info message.
* *Tables of formats and result strings, KMS utilities, registration*: no state.
* *The DWL instance* and the inside of the closed libraries.

What would add most next: one pool shared by the decoder and the KMS sink (each
keeps to `Handover` for what it sees of a memory; that the sink's producer *is*
the decoder is not stated); dmabuf import as a second kind of memory in `KMSSink`;
the references to codec states and input memory; and the variant of `show_frame`
in the KMS sink, whose loop ends only with an event of the kernel.
