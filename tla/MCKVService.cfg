SPECIFICATION FairSpec
CONSTANTS
    c1 = c1
    c2 = c2
    Clients <- TwoClients
    Procs <- TwoClients
    ProcOf <- Own
    Nodes = 2
    Keys = {1}
    MaxTx = 2
INVARIANTS
    StartTogether
    NoStaleAnswer
    InsertedOnce
PROPERTIES
    EverybodyEnds
