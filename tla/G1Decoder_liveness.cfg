\* Termination and the return of memory; no symmetry, as liveness needs.
CONSTANTS
    Codecs = {"H264", "MP4", "VP8", "JPEG"}
    Buffers = {b1, b2}
    Sizes = {s1}
    PoolMems = {"framebuffer", "nophys"}
    MaxData = 2
    MaxPics = 1
    MaxLive = 2
    None = None
SPECIFICATION FairSpec
PROPERTIES
    FrameEventuallyDone
    DWLMemoryReturns
