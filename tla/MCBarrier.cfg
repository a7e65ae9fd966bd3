SPECIFICATION FairBarrierSpec
CONSTANTS
    t1 = t1
    t2 = t2
    t3 = t3
    t4 = t4
    Crossers <- FourThreads
    Free = Free
    Rounds = 3
INVARIANTS
    NobodyLeavesEarly
PROPERTIES
    EverybodyCrosses
