SPECIFICATION Spec
CONSTANTS
    Accounts = {"a"}
    Known = {"a"}
    Exts = {"t1", "t2"}
    AcctOf <- AcctTwin
    OpOf <- OpTwin
    DayOf <- DayTwin
    SideOf <- SideTwin
    Phantoms = {}
    ImportPending = TRUE
    Gaps <- AnyBalance
    Passes = {p1, p2}
    MaxPasses = 3
    MaxUser = 1
    MaxManual = 1
INVARIANTS
    TypeOK
    DuplicatesOnlyByOverlap
SYMMETRY PassSymmetry
CHECK_DEADLOCK FALSE
