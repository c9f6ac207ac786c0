CONSTANTS
    LapLength = 3
    ResetDist = 2
    CHECKPOINT_DIST = 1
    MAX_TIMESTAMP_DIFF_ALLOWED = 15
    MIN_IN_PIT_CNT = 2
    STALE_TELEM_THRESH = 1
    MaxRank = 99
    SizeT = 64
    NONE = NONE
    Cars = {A, B}
    A = A
    B = B
    Dists = {1, 2, 3}
    Times = {0, 1}
    Pits = {TRUE}
    Ranks = {1}
    MaxLaps = 0
    MaxTelems = 2
    NDEBUG = FALSE
    ResultsFirst = TRUE
    MaxFrames = 3
SPECIFICATION BoardSpec
INVARIANTS MapMatches AbortsHaveCause
PROPERTIES ScoreboardSpec CheckpointCurrent
CHECK_DEADLOCK FALSE
SYMMETRY CarSymmetry
