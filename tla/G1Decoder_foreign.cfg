\* A pool whose allocator is not the KMS one: the decoder's own fallback.
CONSTANTS
    Codecs = {"H264"}
    Buffers = {b1, b2}
    Sizes = {s1}
    PoolMems = {"foreign"}
    MaxData = 2
    MaxPics = 1
    MaxLive = 2
    None = None
SPECIFICATION Spec
SYMMETRY Symmetry
INVARIANT
    AddressIsMemory
