CONSTANTS
    Callers = {"input", "socket"}
    NONE = NONE
    Keys = {"plus", "minus", "quit", "other"}
    ServerCloses = TRUE
    MAX_DELAY_S = 3
    MaxDelay = 5
SPECIFICATION ClientFairSpec
INVARIANTS ReasonGiven QuietAtExit DelayCounted
PROPERTY ShutdownExitsOrOvercounts
