SPECIFICATION FairSpec
CONSTANTS
    t1 = t1  t2 = t2  k1 = k1  k2 = k2
    v1 = v1
    Thread = {t1, t2}
    Key = {k1, k2}
    Val = {v1}
    IOErrors = TRUE
    None = None
    Nobody = Nobody
INVARIANTS
    TypeOK
PROPERTIES
    ImplementsRepository
    DeletesWhatIsStored
    LockReleased
