\* Every way five fields can overlap.
CONSTANT NField = 5
SPECIFICATION Spec
INVARIANTS TypeOK Partition PairsLinked
CHECK_DEADLOCK FALSE
