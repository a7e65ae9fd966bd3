SPECIFICATION SSpec
CONSTANTS
    Points <- FourPoints
    Dim = 2
    Value <- HalfValue
    Unit = 2
    Width = 6
    K = 2
    MaxIter = 3
    Nobody = Nobody
    NoCluster = NoCluster
INVARIANTS
    Partition
    PerfectClusters
PROPERTIES
    Terminates
