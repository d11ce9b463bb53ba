CONSTANTS
    Conns = {c1, c2}
    Callers = {k1}
    Nil = Nil
SPECIFICATION FairSpec
INVARIANTS
    NoStaleConn
PROPERTIES
    WorkingRelayKept
    
    CallersAnswered
    Maintained
CHECK_DEADLOCK FALSE
