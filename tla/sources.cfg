\* From the first reprojection to the full catalogue.
CONSTANTS
    Layout <- MCLayout
    Skies <- MCSkies
    Mags <- MCMags
    Clips <- MCClips
    Times <- MCTimes
    Labels <- MCLabels
    Photoms <- MCPhotoms
    NInstru = 2
    Flags <- MCFlags
    Roundings <- MCRoundings
    MaxChi2 = 2
    MaxNBad = 2
SPECIFICATION Spec
INVARIANTS LinksUsable ClipDefined AstrOutliersGone FreshPositions MergedOnce CatalogueAgrees BadProper PhotAnchored
PROPERTIES ClipOnlyCuts
CHECK_DEADLOCK FALSE
