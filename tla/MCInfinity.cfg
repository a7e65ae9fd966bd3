SPECIFICATION FairSpec
CONSTANTS
    w1 = w1
    N = 2
    Workers <- OneWorker
    PerClient = 1
    MaxPosts = 2
    RegionSize = 2
    Width = 3
INVARIANTS
    SuccessMeansDone
    BuffersConserved
    SenderIsKnown
PROPERTIES
    WaitsEnd
