\* The same skies: pairs within the default radius, whatever pixels they are in.
CONSTANTS
    NULL = NULL
    IdBytes = 8
    LongBytes = 8
    BaseSize = 2
    Skies <- MCSkies
    Radius = 20
SPECIFICATION Spec
INVARIANTS NoMatchLost
CHECK_DEADLOCK FALSE
