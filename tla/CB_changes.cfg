SPECIFICATION Spec
CONSTANTS
    MaxRows = 3
    MaxSteps = 4
    Kinds = {"list", "table", "sorted", "untracked", "lists"}
    Allowed = {}
INVARIANTS
    ListFaithful
    TableFaithful
    ResultsFaithful
    ListsFollow
CHECK_DEADLOCK FALSE
