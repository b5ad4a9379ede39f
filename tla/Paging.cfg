SPECIFICATION Spec
CONSTANTS
    Levels = 3
    Frames = {1, 2, 3, 4, 5, 6, 7}
    Device = Device
    Absent = Absent
    UserTop = {0}
    KernelTop = {1}
    Fractal = 2
    Low = {0, 1}
    Ranges <- MCRanges
    Attributes <- MCAttributes
    MaxTables = 2
INVARIANTS KernelHalfShared FrameOwnedOnce  TLBCoherent
           AllOrNothing
CHECK_DEADLOCK FALSE
