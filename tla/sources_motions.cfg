\* The same group: what the proper motions are computed from.
CONSTANTS
    Layout <- MCLayout
    Skies <- MCSkies
    Mags <- MCMags
    Clips <- MCClips
    Times <- MCTimes
    Labels <- MCLabels
    Photoms <- MCPhotoms
    NInstru = 2
    Flags <- MCFlags
    Roundings <- MCRoundings
    MaxChi2 = 2
    MaxNBad = 2
SPECIFICATION Spec
INVARIANTS MotionOfGood
CHECK_DEADLOCK FALSE
