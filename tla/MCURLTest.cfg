CONSTANTS
    Order <- Nodes2
    Strikes = {0, 2}
    Delays = {10, 80}
    Tolerance = 50
    MaxDelay = 65536
    Conns = {"c"}
    External = {}
    UDPConns = {"c"}
SPECIFICATION FairSpec
INVARIANTS
    SelectionSound
    OldConnsInterrupted
PROPERTIES
    
    FindsWorkingNode
