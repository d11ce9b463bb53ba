CONSTANTS
    EventBuffer = 2
    MaxInFlight = 3
SPECIFICATION FairPunchSpec
INVARIANTS
    RoundTrip
PROPERTIES
    BothWin
    PunchEnds
CHECK_DEADLOCK FALSE
