CONSTANTS
    c1 = c1
    c2 = c2
    NONE = NONE
    Clients <- TwoClients
    Recordings <- ThreeRecordings
    MaxTime = 2
SPECIFICATION Spec
INVARIANT SentAsRecorded
INVARIANT AbortsOnlyWhenDropped
PROPERTY Paced
PROPERTY StopReturns
CHECK_DEADLOCK FALSE
