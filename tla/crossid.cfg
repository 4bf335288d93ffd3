\* Every sky of five detections at four positions, at the default radius.
CONSTANTS
    NULL = NULL
    IdBytes = 8
    LongBytes = 8
    BaseSize = 2
    Skies <- MCSkies
    Radius = 20
SPECIFICATION Spec
INVARIANTS StoreSound LinksMutual Stable RefsLead RecursionBounded
PROPERTIES OrdinaryKept Terminates
CHECK_DEADLOCK FALSE
