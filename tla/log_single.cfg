CONSTANTS
    Producers = {p1}
    Blocking = FALSE
    Size = 3
    SizeT = 16
    MaxItems = 5
    NULL = NULL
SPECIFICATION LoggerFairSpec
INVARIANT LinesWritten
PROPERTIES LineSpec EnqueuedIsTaken DestructorReturns
