SPECIFICATION Spec
CONSTANTS
    t1 = t1
    t2 = t2
    v1 = v1
    v2 = v2
    Threads <- TwoThreads
    NoThread = NoThread
    Keys = {1, 4, 11}
    Vals <- TwoValues
    Buckets = 3
    WIDTH = 1
    Secondary <- MapSecondary
    RemoteSecondary <- ClientSecondary
    Nothing = Nothing
    Raced = Raced
    MaxDepth = 2
SYMMETRY Symmetry
INVARIANTS
    SizeIsExact
    HoldsWhatWasPut
    NoCircularWait
PROPERTIES
    NoFalseNegative
