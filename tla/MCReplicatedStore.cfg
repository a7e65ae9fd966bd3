SPECIFICATION FairSpec
CONSTANTS
    N = 2
    C = 1
    Workers = 2
    PerClient = 1
    Keys = {1, 2}
    Vals = {1, 2}
    NoVal = NoVal
    Elements <- SomeElements
    SIZE = 2
    Populated <- NonePopulated
    MaxOps = 3
INVARIANTS
    LockWordsOwned
    ReplicasAgree
    CountersMatch
    StartsComplete
PROPERTIES
    Settles
