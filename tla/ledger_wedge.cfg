SPECIFICATION Spec
CONSTANTS
    Accounts = {"a"}
    Known = {"a"}
    Exts = {"t1", "t2"}
    AcctOf <- AcctTwin
    OpOf <- OpTwin
    DayOf <- DayTwin
    SideOf <- SideTwin
    Phantoms = {}
    ImportPending = TRUE
    Gaps <- AnyBalance
    Passes = {p1, p2}
    MaxPasses = 2
    MaxUser = 0
    MaxManual = 0
INVARIANT
    SyncSurvivesOverlap
CHECK_DEADLOCK FALSE
