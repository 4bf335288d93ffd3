---------------------------- MODULE Calibration ----------------------------
(***************************************************************************)
(* What the pools that calibrate the exposures share: the settings of the  *)
(* user (prefs), by instrument label, and the WCS of every set.  wcs keeps *)
(* the calibrations a set went through, in their order.                    *)
(***************************************************************************)
EXTENDS Exposures

CONSTANT Settings  \* the settings considered: mosaic_type, match_flag,
                   \* stability_type

MosaicTypes == {"UNCHANGED", "SAME_CRVAL", "SHARE_PROJAXIS", "FIX_FOCALPLANE", "LOOSE"}
StabilityTypes == {"INSTRUMENT", "EXPOSURE", "PREDISTORTED"}

\* One mosaic type and one stability type for every instrument.
ASSUME SettingsAssumption ==
    Settings \subseteq [mosaic_type : [Labels -> MosaicTypes], match_flag : BOOLEAN,
                        stability_type : [Labels -> StabilityTypes]]

VARIABLES prefs, wcs

Calibrations == {"samecrval", "recentre", "adjust", "align", "refine", "solve"}

MosaicType(fd) == prefs.mosaic_type[Label[fd]]

\* The sets go through a calibration together.
Calibrated(sets, how) == wcs' = [s \in Sets |-> IF s \in sets THEN Append(wcs[s], how)
                                                ELSE wcs[s]]
===========================================================================
