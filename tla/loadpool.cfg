\* Two workers, three files, three astrometric instruments for a table of two,
\* two photometric instruments.
CONSTANTS
    Workers = {w1, w2}
    Master = Master
    NField = 3
    AstroKeys = {a1, a2, a3}
    PhotoKeys = {p1, p2}
    MaxInstru = 2
    NoThread = NoThread
SPECIFICATION Spec
INVARIANTS EndflagRaceFree LabelsFollowInput LabelsLoaded LoadedOnce CompleteAtStop
PROPERTIES Ends
CHECK_DEADLOCK FALSE
