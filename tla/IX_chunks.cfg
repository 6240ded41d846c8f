SPECIFICATION Spec
CONSTANTS
    MaxSize = 2
    Bound = 8
    ArgBound = 4
    Allowed = {}
INVARIANTS
    Normal
    ImplementsSets
