SPECIFICATION Spec
CONSTANTS
    t1 = t1  t2 = t2  i1 = i1  i2 = i2  v1 = v1  v2 = v2  v3 = v3  n1 = n1  n2 = n2
    Thread = {t1, t2}
    Id = {i1, i2}
    Val = {v1, v2, v3}
    Unencodable = {v3}
    Name = {n1, n2}
    Hashes <- Seeds
    Batch <- Arrays
    Failing = {t1}
    Crashes = TRUE
    Legacy = {n1}
    NoFile = NoFile
    Garbage = Garbage
INVARIANTS
    TypeOK
    NoLoss
    LookupById
    GetAllComplete
    DeleteTakesEffect
    DeleteAllTakesEffect
