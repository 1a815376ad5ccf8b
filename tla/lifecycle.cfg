SPECIFICATION FairSpec
CONSTANTS
    Passes = {p1}
    Rewind = 1
    Flight = 1
    Lag = 0
    MaxDay = 3
    MaxConsents = 2
    MaxFaults = 1
INVARIANTS
    TypeOK
    NoGap
PROPERTY
    CaughtUp
CHECK_DEADLOCK FALSE
