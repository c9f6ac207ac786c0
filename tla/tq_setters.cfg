CONSTANTS
    Setters = {s1, s2}
    Delays = {0, 2, 3}
    Rates = {2}
    InitDelay = 1
    InitRate = 1
    MaxFrames = 4
    DELAY_SLOP = 1
    MAX_DELAY_S = 2
    MIN_REFRESH_HZ = 1
    MAX_REFRESH_HZ = 2
    SizeT = 1024
    NULL = NULL
    NONE = NONE
SPECIFICATION Spec
INVARIANTS IndicesOrdered ConfigConsistent DeliveredOnce NoStaleFrame
PROPERTY RebuildKeepsFrames
SYMMETRY SetterSymmetry
