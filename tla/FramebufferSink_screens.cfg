\* Three settings, two screens, memory for three frames.
CONSTANTS
    MaxFrames = 2
    Capacity = 3
    Old = Old
    None = None
    Settings <- MCSettings
    Sizes = {"full", "part"}
SPECIFICATION FairSpec
CHECK_DEADLOCK FALSE
INVARIANTS
    TypeOK
    FlipCovered
    PendingIsReal
    IndexInside
    ZeroCopyTarget
PROPERTIES
    FlipSpec
    CallProgress
    CallsReturn
    NotFrozen
