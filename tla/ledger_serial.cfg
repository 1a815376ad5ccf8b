SPECIFICATION Spec
CONSTANTS
    Accounts = {"a", "b"}
    Known = {"a", "b"}
    Exts = {"d1", "d2", "d3", "c1"}
    AcctOf <- AcctTransfer
    OpOf <- OpTransfer
    DayOf <- DayTransfer
    SideOf <- SideTransfer
    Phantoms = {"d2"}
    ImportPending = TRUE
    Gaps <- OnlyBalanced
    Passes = {p1}
    MaxPasses = 3
    MaxUser = 2
    MaxManual = 0
INVARIANTS
    OneRowPerOperation
    PairsAreMutual
PROPERTY
    PostedAreKept
CHECK_DEADLOCK FALSE
