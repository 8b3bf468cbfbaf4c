\* Copying and zero-copy sinks over three memories; no symmetry, as liveness needs.
SPECIFICATION FairSpec
CONSTANTS
    Mems = {m1, m2, m3}
    m1 = m1
    m2 = m2
    m3 = m3
    Foreign = Foreign
    None = None
    AfterError = {"failed"}
INVARIANTS TypeOK NoTearing
PROPERTIES HandoverSpec FrameOnScreen ScannedIsAlive ShowFrameReturns
