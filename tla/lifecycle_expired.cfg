SPECIFICATION Spec
CONSTANTS
    Passes = {p1}
    Rewind = 1
    Flight = 1
    Lag = 0
    MaxDay = 2
    MaxConsents = 2
    MaxFaults = 1
INVARIANT
    ExpiredMeansLapsed
CHECK_DEADLOCK FALSE
