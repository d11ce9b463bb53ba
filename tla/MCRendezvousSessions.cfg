CONSTANTS
    u1 = u1
    u2 = u2
    Users = {u1, u2}
    Realms = {r1, r2}
    Sessions = {s1, s2}
    Attempts = {a1}
    AddrLists = {x1}
    RelayLists = {}
    Nil = Nil
    Ack = Ack
    MaxRealms <- MCMaxRealms
    MaxPending = 1
    EventCap = 1
    MaxRequests = 1
SYMMETRY Symmetry
SPECIFICATION Spec
INVARIANTS
    RegistryConsistent
    QuotaExact
    TimerCoverage
PROPERTIES
    ImplementsDirectory
CHECK_DEADLOCK FALSE
