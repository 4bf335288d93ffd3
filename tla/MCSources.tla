----------------------------- MODULE MCSources -----------------------------
(***************************************************************************)
(* Three fields, the first with two detections, and one reference.  Fields *)
(* in the order of their epochs, or against it; one instrument for all, or *)
(* another one for the second field.  Solutions may swap the two           *)
(* detections of the first field; the thresholds find none, one, several   *)
(* or all of the detections of a chain to be outliers.                     *)
(***************************************************************************)
EXTENDS Sources

MCLayout == <<1, 1, 2, 3, 0>>

MCSkies == {<<0, 4, 4, 0, 4>>, <<4, 0, 2, 0, 0>>}
MCMags == {<<0, 4, 2, 4, 0>>}
MCClips == {[int |-> 3, ref |-> 3], [int |-> 99, ref |-> 3]}
MCTimes == {<<1, 2, 4>>, <<3, 2, 1>>}
MCLabels == {[astrom |-> <<0, 1, 0>>, photom |-> <<0, 0, 0>>],
             [astrom |-> <<0, 0, 0>>, photom |-> <<0, 1, 0>>]}
MCPhotoms == {{}, {3}}
MCRoundings == {<<-1, -1, -1, -1, -1>>, <<1, -1, 0, 1, -1>>}
MCFlags == {[astr |-> {}, phot |-> {}], [astr |-> {3}, phot |-> {3}]}
============================================================================
