CONSTANTS
    x = x
    y = y
    z = z
    p = p
    q = q
    Domains <- MCDomains
    Callers <- MCCallers
    Configs <- MCConfigs
    MaxRuns = 2
SPECIFICATION Spec
SYMMETRY Symmetry
INVARIANTS
    TablesAgree
    GivenUsable
PROPERTIES
    OldestFirst
    
CHECK_DEADLOCK FALSE
