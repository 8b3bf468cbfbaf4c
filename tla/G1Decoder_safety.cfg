\* All four decoders, every failure, two output buffers.
CONSTANTS
    Codecs = {"H264", "MP4", "VP8", "JPEG"}
    Buffers = {b1, b2}
    Sizes = {s1, s2}
    PoolMems = {"framebuffer", "nophys"}
    MaxData = 2
    MaxPics = 2
    MaxLive = 2
    None = None
SPECIFICATION Spec
SYMMETRY Symmetry
INVARIANTS
    TypeOK
    FrameBalance
    PPOwnsTarget
    HeadersFirst
    ErrorsReported
    DWLInUse
PROPERTIES
    DeliveredHoldsPicture
    OnlyFailedOpenLeaks
    FrameProgress
    HandoverSpec
