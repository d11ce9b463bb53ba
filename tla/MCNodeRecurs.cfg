CONSTANTS
    Sessions = {s1, s2, s3}
    MaxAddress = 2
    Recurs = TRUE
    StunFails = FALSE
    Nil = Nil
SPECIFICATION FairSpec
PROPERTY Published
CHECK_DEADLOCK FALSE
