CONSTANT MaxWrites = 2
SPECIFICATION Spec
INVARIANT CountsDescribeTheImport
CHECK_DEADLOCK FALSE
