SPECIFICATION TMSpec
CONSTANTS
    t1 = t1
    t2 = t2
    Threads <- TwoThreads
    Values = {1, 3, 5}
    WIDTH = 1
    Initial = 2
    MaxBuckets = 4
    MaxDepth = 2
SYMMETRY Symmetry
PROPERTIES
    MisplacedOnlyWhenStale
    LostOnlyByClash
