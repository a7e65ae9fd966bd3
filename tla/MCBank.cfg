SPECIFICATION FairSpec
CONSTANTS
    t1 = t1
    t2 = t2
    Threads <- TwoThreads
    Main = main
    NoOne = NoOne
    KeyMax = 3
    Buckets = 2
    Initial = 2
    Amount = 1
    Iters = 4
INVARIANTS
    TypeOK
    MoneyConserved
    AuditsAreExact
PROPERTIES
    FrozenDuringAudit
    EverybodyFinishes
