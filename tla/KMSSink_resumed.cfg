\* A stream that goes on after an event could not be read.
SPECIFICATION FairSpec
CONSTANTS
    Mems = {m1, m2, m3}
    m1 = m1
    m2 = m2
    m3 = m3
    Foreign = Foreign
    None = None
    AfterError = {"idle"}
PROPERTY FrameOnScreen
