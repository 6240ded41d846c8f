SPECIFICATION Spec
CONSTANTS
    MaxRows = 3
    MaxSteps = 4
    Kinds = {"list"}
    Allowed = {"deletedAfterChange"}
INVARIANTS
    ListFaithful
CHECK_DEADLOCK FALSE
