CONSTANTS
    Relays = {"r1", "r2"}
    STUNServers = 2
    STUNAttempts = 2
SPECIFICATION FairSpec
INVARIANTS
    SocketsAccounted
    AnsweredFamilyKept
    TraceTrue
PROPERTIES
    DialEnds
CHECK_DEADLOCK FALSE
