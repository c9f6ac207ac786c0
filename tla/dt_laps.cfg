CONSTANTS
    LapLength = 6
    ResetDist = 4
    CHECKPOINT_DIST = 2
    MAX_TIMESTAMP_DIFF_ALLOWED = 15
    MIN_IN_PIT_CNT = 2
    STALE_TELEM_THRESH = 2
    MaxRank = 99
    SizeT = 64
    NONE = NONE
    Jump = 50
    Lasting = FALSE
    MaxTime = 15
SPECIFICATION Spec
INVARIANTS RunawaySkippedInLap DistanceTrue TimesOrdered InPitSettled AgePerLap
CHECK_DEADLOCK FALSE
