CONSTANTS
    Words <- UserWords
    MaxWords = 4
    Files <- UserFiles
    Ports <- UserPorts
    NULLOPT = NULLOPT
SPECIFICATION Spec
INVARIANTS ParsedAsRead StartsAsAsked
CHECK_DEADLOCK FALSE
