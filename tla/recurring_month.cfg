SPECIFICATION Spec
CONSTANTS
    Period = 4
    Before = 1
    After = 1
    Claim = 1
    Start = 1
    End = 7
    Charges = {"c1", "c2"}
    DueOf <- DueMonth
    DateOf <- DateMonth
    Sessions = {s1, s2}
    MaxDay = 6
    MaxBegun = 4
    MaxEdits = 1
INVARIANTS
    OnceUnlessOverlapped
    NoOccurrenceLost
    OwnOccurrence
SYMMETRY SessionSymmetry
CHECK_DEADLOCK FALSE
