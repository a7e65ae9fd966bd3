SPECIFICATION HFairSpec
CONSTANTS
    t1 = t1
    t2 = t2
    n1 = n1
    n2 = n2
    n3 = n3
    Threads <- TwoThreads
    NoThread = NoThread
    Head = Head
    Tail = Tail
    Nodes <- FiveNodes
    Null = Null
    MinKey = 0
    MaxKey = 3
    Keys = {1, 2}
    NoKey = 99
ACTION_CONSTRAINT FirstFree
INVARIANTS
    TypeOK
    ListIntact
    Hindsight
PROPERTIES
    RemovedIsFrozen
    WritesUnderLock
    Linearizable
    EveryCallReturns
