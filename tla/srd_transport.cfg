SPECIFICATION FairSpec
CONSTANTS
    Nodes = {n1, n2}
    n1 = n1
    n2 = n2
    PerPacket = 2
    Lengths = {1, 3}
    MaxSends = 2
    MaxDups = 2
    MaxLost = 1
    MayStop = {n2}
INVARIANTS TypeOK WholeMessages PacketsConserved
PROPERTIES ImplementsChannel MessagesArrive
CHECK_DEADLOCK FALSE
