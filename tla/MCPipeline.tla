---------------------------- MODULE MCPipeline ----------------------------
(***************************************************************************)
(* Two groups: three fields of two instruments, of which B is a mosaic of  *)
(* two detectors, and a group of one field with another latitude axis.     *)
(* Two coefficients per block, two mutexes per array, so that different    *)
(* blocks share one.                                                       *)
(***************************************************************************)
EXTENDS Pipeline

MCShape == <<<<1, 2, 1>>, <<1>>>>

A == <<0, 0>>
B == <<0, 1>>
C == <<0, 2>>
D == <<1, 0>>
A0 == <<0, 0, 0>>
B0 == <<0, 1, 0>>
B1 == <<0, 1, 1>>
C0 == <<0, 2, 0>>
D0 == <<1, 0, 0>>

MCLabel == (A :> 0) @@ (B :> 1) @@ (C :> 0) @@ (D :> 0)
MCLatAxis == (A :> 1) @@ (B :> 1) @@ (C :> 1) @@ (D :> 0)

Both(x, y) == (0 :> x) @@ (1 :> y)
Setting(mosaic, match, stability) ==
    [mosaic_type |-> mosaic, match_flag |-> match, stability_type |-> stability]

MCSettings ==
    {Setting(Both("FIX_FOCALPLANE", "FIX_FOCALPLANE"), TRUE, Both("INSTRUMENT", "INSTRUMENT")),
     Setting(Both("SHARE_PROJAXIS", "LOOSE"), TRUE, Both("EXPOSURE", "EXPOSURE")),
     Setting(Both("UNCHANGED", "SAME_CRVAL"), FALSE, Both("PREDISTORTED", "PREDISTORTED")),
     Setting(Both("LOOSE", "FIX_FOCALPLANE"), TRUE, Both("INSTRUMENT", "EXPOSURE"))}

\* Every exposure has as many matched detections as coefficients; the detectors
\* of B have fewer.
MCChains == {(A0 :> <<>>) @@ (B0 :> <<<<B0, C0, A0>>>>) @@ (B1 :> <<<<B1, C0, A0>>>>)
             @@ (C0 :> <<>>) @@ (D0 :> <<<<D0, Reference>>, <<D0, Reference>>>>)}

\* An exposure with one matched detection, or none.
SparseSettings == {Setting(Both("UNCHANGED", "UNCHANGED"), FALSE, Both("INSTRUMENT", "INSTRUMENT"))}
SparseChains == {(A0 :> <<>>) @@ (B0 :> <<>>) @@ (B1 :> <<<<B1, A0>>, <<B1, A0>>>>)
                 @@ (C0 :> <<>>) @@ (D0 :> <<<<D0, Reference>>, <<D0, Reference>>>>)}
===========================================================================
