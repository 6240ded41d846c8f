SPECIFICATION Spec
CONSTANTS
    c1 = c1  c2 = c2  o1 = o1  o2 = o2
    v1 = v1
    Caller = {c1, c2}
    Obj = {o1, o2}
    Val = {v1}
    MaxDepth = 2
    IOErrors = TRUE
    Crashes = TRUE
    NoCaller = NoCaller
    None = None
    Blank = Blank
SYMMETRY Symmetry
INVARIANTS
    TypeOK
    AckedSurvives
PROPERTIES
    FailedTransactionLeavesNoTrace
    DeleteAllClears
