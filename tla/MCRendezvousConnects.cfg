CONSTANTS
    u1 = u1
    u2 = u2
    Users = {u2}
    Realms = {r1}
    Sessions = {s1}
    Attempts = {a1, a2}
    AddrLists = {x1}
    RelayLists = {}
    Nil = Nil
    Ack = Ack
    MaxRealms <- MCMaxRealms
    MaxPending = 1
    EventCap = 1
    MaxRequests = 4
SPECIFICATION FairSpec
INVARIANTS
    PendingExact
PROPERTIES
    NoSendOnClosed
    ConnectTerminates
CHECK_DEADLOCK FALSE
