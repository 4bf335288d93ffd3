\* The same, and what photclip_fgroup leaves in the chains.
CONSTANTS
    Layout <- MCLayout
    Skies <- MCSkies
    Mags <- MCMags
    Clips <- MCClips
    Times <- MCTimes
    Labels <- MCLabels
    Photoms <- MCPhotoms
    NInstru = 2
    Flags <- MCFlags
    Roundings <- MCRoundings
    MaxChi2 = 2
    MaxNBad = 2
SPECIFICATION Spec
INVARIANTS PhotOutliersGone
CHECK_DEADLOCK FALSE
