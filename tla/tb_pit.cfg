CONSTANTS
    LapLength = 2
    ResetDist = 2
    CHECKPOINT_DIST = 1
    MAX_TIMESTAMP_DIFF_ALLOWED = 15
    MIN_IN_PIT_CNT = 2
    STALE_TELEM_THRESH = 2
    MaxRank = 99
    SizeT = 64
    NONE = NONE
    Cars = {A, B}
    A = A
    B = B
    Dists = {0, 1}
    Times = {1}
    Pits = {TRUE, FALSE}
    Ranks = {1, 2}
    MaxLaps = 1
    MaxTelems = 1
    NDEBUG = FALSE
    ResultsFirst = FALSE
    MaxFrames = 4
SPECIFICATION BoardSpec
INVARIANTS InPitShown
CHECK_DEADLOCK FALSE
