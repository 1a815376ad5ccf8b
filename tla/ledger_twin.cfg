SPECIFICATION Spec
CONSTANTS
    Accounts = {"a"}
    Known = {"a"}
    Exts = {"t1", "t2"}
    AcctOf <- AcctTwin
    OpOf <- OpTwin
    DayOf <- DayTwin
    SideOf <- SideTwin
    Phantoms = {}
    ImportPending = TRUE
    Gaps <- OnlyBalanced
    Passes = {p1}
    MaxPasses = 2
    MaxUser = 0
    MaxManual = 1
INVARIANT
    OneRowPerOperation
CHECK_DEADLOCK FALSE
