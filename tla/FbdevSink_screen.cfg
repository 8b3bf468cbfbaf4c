\* Screens of up to 5 by 4 pixels, frames that are smaller and larger.
CONSTANTS
    Devices <- MCDevices
    Offsets = {0, 3}
    Frames <- MCFrames
    None = None
SPECIFICATION Spec
INVARIANTS
    TypeOK
    CopyInside
