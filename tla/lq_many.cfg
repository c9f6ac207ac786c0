CONSTANTS
    Producers = {p1, p2}
    Blocking = TRUE
    Size = 3
    SizeT = 16
    MaxItems = 3
    NULL = NULL
SPECIFICATION Spec
INVARIANTS TypeOK PermitsConserved EmptyIsEmpty
SYMMETRY ProducerSymmetry
CHECK_DEADLOCK FALSE
