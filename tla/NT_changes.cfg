SPECIFICATION FairSpec
CONSTANTS
    MaxVersion = 4
    MaxToken = 2
    Allowed = {}
INVARIANTS
    TypeOK
    NothingLost
    NothingTwice
    InStep
    SparedNotTold
PROPERTIES
    EventuallyTold
    WaitsEnd
