CONSTANTS
    Sessions = {s1, s2}
    MaxAddress = 3
    Recurs = FALSE
    StunFails = TRUE
    Nil = Nil
SPECIFICATION FairSpec
INVARIANTS
    PublishesUntilServed
PROPERTIES
    Served
    Released
CHECK_DEADLOCK FALSE
