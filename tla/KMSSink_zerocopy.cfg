\* What a zero-copy sink shows.
SPECIFICATION FairSpec
CONSTANTS
    Mems = {m1, m2}
    m1 = m1
    m2 = m2
    m3 = m3
    Foreign = Foreign
    None = None
    AfterError = {"failed"}
PROPERTY ZeroCopyOnScreen
