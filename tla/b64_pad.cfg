CONSTANTS
    Bytes = {0, 1, 63, 65, 127, 128, 255}
    MaxLen = 4
SPECIFICATION Spec
INVARIANT DecodedAsSent
CHECK_DEADLOCK FALSE
