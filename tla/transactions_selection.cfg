CONSTANT MaxWrites = 2
SPECIFICATION Spec
INVARIANT SelectionIsOnThePage
CHECK_DEADLOCK FALSE
