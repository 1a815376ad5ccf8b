SPECIFICATION Spec
CONSTANTS
    Period = 7
    Before = 2
    After = 2
    Claim = 5
    Start = 1
    End = 15
    Charges = {"c2"}
    DueOf <- DueWeek
    DateOf <- DateWeek
    Sessions = {s1}
    MaxDay = 8
    MaxBegun = 3
    MaxEdits = 0
INVARIANT
    OwnOccurrence
CHECK_DEADLOCK FALSE
