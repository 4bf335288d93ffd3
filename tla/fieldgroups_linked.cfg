\* The same fields, newcomers that link three groups included.
CONSTANT NField = 5
SPECIFICATION Spec
INVARIANTS Grouped
CHECK_DEADLOCK FALSE
