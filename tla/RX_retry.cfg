SPECIFICATION FairRxSpec
CONSTANTS
    c1 = c1  c2 = c2  k1 = k1  v1 = v1
    Client = {c1, c2}
    Key = {k1}
    Val = {v1}
    None = None
    Nothing = Nothing
    Requests <- Singles
    Attempts = 3
CHECK_DEADLOCK FALSE
INVARIANTS
    RxTypeOK
    ToldTruth
    OneLateCall
PROPERTIES
    EveryoneTold
