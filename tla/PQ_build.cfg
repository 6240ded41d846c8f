SPECIFICATION Spec
CONSTANTS
    Val = {1, 2}
    Nil = Nil
    Pattern <- Patterns
    MaxSize = 3
INVARIANTS
    TypeOK
    EvaluatesAsWritten
    StoresAgree
    QueriesAgree
