\* An exposure without matched detections.
CONSTANTS
    Workers = {w1, w2}
    Master = Master
    Reference = Reference
    NoThread = NoThread
    Shape <- MCShape
    Label <- MCLabel
    LatAxis <- MCLatAxis
    Settings <- SparseSettings
    ChainChoices <- SparseChains
    NCoeff = 2
    NCoeff2 = 2
    NMatMutex = 2
    NMatMutex2 = 2
SPECIFICATION Spec
INVARIANTS OwnColumns
CHECK_DEADLOCK FALSE
