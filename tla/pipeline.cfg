\* Two workers; two groups with four fields and five sets; four settings.
CONSTANTS
    Workers = {w1, w2}
    Master = Master
    Reference = Reference
    NoThread = NoThread
    Shape <- MCShape
    Label <- MCLabel
    LatAxis <- MCLatAxis
    Settings <- MCSettings
    ChainChoices <- MCChains
    NCoeff = 2
    NCoeff2 = 2
    NMatMutex = 2
    NMatMutex2 = 2
SPECIFICATION Spec
INVARIANTS TypeOK WcsInOrder MatchedInOrder SortKeyHeld FilledOnce NothingLost OwnColumns
PROPERTIES Ends
CHECK_DEADLOCK FALSE
