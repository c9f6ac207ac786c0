CONSTANTS
    Sources = {"SERVED_REMOTE", "SERVED_DEBUG"}
    MaxKeepAlives = 3
    MaxData = 4
    MaxClosed = 2
    MaxInbox = 3
    NONE = NONE
SPECIFICATION FairSpec
INVARIANTS StartCountedOnce NothingSkipped QuietAfterEnd
PROPERTIES EndReturns Starts
