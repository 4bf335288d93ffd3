----------------------------- MODULE MCCrossId -----------------------------
(***************************************************************************)
(* Five detections in two fields and the reference catalogue.  With a      *)
(* radius of 2.0 arcsec a pixel covers 1.6: the four positions are in      *)
(* three pixels, one pair is farther apart than the radius, and one within *)
(* the radius is two pixels apart.  reproj_fgroup has sorted each set.     *)
(*                                                                         *)
(* Six fields with one detection each, all far apart, in every order: the  *)
(* smallest tree in which a double rotation moves an inner grandchild.     *)
(***************************************************************************)
EXTENDS CrossId

Layouts == {<<0, 0, 1, 1, -1>>, <<0, 1, 1, -1, -1>>}

PositionsOf(f) == {p \in [1..5 -> {2, 14, 22, 34}] :
                      \A s, t \in 1..5 : s < t /\ f[s] = f[t] /\ f[s] >= 0 => p[s] <= p[t]}

\* Epochs 1 and 2, the same for all detections of a field.
EpochsOf(f) == {e \in [1..5 -> {1, 2}] :
                   \A s, t \in 1..5 : f[s] = f[t] /\ f[s] >= 0 => e[s] = e[t]}

Near == UNION {[field : {f}, pos : PositionsOf(f), epoch : EpochsOf(f)] : f \in Layouts}

Apart == {[field |-> [s \in 1..6 |-> s], pos |-> [s \in 1..6 |-> 40 * nth[s]],
           epoch |-> [s \in 1..6 |-> 1]] : nth \in SetToSeqs(1..6)}

MCSkies == Near \cup Apart
============================================================================
