CONSTANTS
    Setters = {s1, s2}
    Delays = {2, 3}
    Rates = {}
    InitDelay = 2
    InitRate = 1
    MaxFrames = 8
    DELAY_SLOP = 1
    MAX_DELAY_S = 2
    MIN_REFRESH_HZ = 1
    MAX_REFRESH_HZ = 2
    SizeT = 1024
    NULL = NULL
    NONE = NONE
SPECIFICATION FairSpec
INVARIANT RingComplete
PROPERTIES DelayLineSpec FilledIsRead SetTerminates
