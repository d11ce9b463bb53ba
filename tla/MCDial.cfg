CONSTANTS
    Dials = {"offer", "probe"}
    Probes = {"probe"}
    Families = {"v4", "v6"}
    Threshold = 2
    MaxBackoff = 3
    MaxFailures = 4
SPECIFICATION FairSpec
INVARIANTS
    SocketsAccounted
    NoPunchWasted
    PreferenceJustified
PROPERTIES
    DialEnds
