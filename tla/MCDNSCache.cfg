CONSTANTS
    Queries = {"p", "q"}
    Checking = {"q"}
    Rejected = {2}
    Flushers = {"f", "g"}
    MaxAnswer = 2
    MaxClears = 1
SPECIFICATION FairCacheSpec

    
    
PROPERTIES
    QueriesEnd
CHECK_DEADLOCK FALSE
