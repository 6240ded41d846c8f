SPECIFICATION FairSpec
CONSTANTS
    a = a  b = b  c = c
    Obj = {a, b, c}
    Models = {a, b, c}
    Args <- Arrays
    Cyclic = TRUE
INVARIANTS
    TypeOK
    DeleteExact
    KeyedDeleteThrows
    CreateStoresGraph
PROPERTIES
    TerminatesUnlessCyclic
CHECK_DEADLOCK FALSE
