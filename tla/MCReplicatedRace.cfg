SPECIFICATION Spec
CONSTANTS
    N = 2
    C = 1
    Workers = 2
    PerClient = 1
    Keys = {1, 2}
    Vals = {1, 2}
    NoVal = NoVal
    Elements <- SomeElements
    SIZE = 2
    Populated <- OnePopulated
    MaxOps = 3
INVARIANTS
    ReplicasSame
