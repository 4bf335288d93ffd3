----------------------------- MODULE ProperMotion -----------------------------
(***************************************************************************)
(* proper.c: the proper motion of one source, and which of its detections  *)
(* are flagged SCAMP_BADPROPER on the way.                                 *)
(*                                                                         *)
(* astrprop_solve fits a straight line through the good detections of a    *)
(* chain.  While the chi2 is too high, astrprop_fgroup tries each of them  *)
(* as the bad one and flags the one whose loss improves the fit most.      *)
(*                                                                         *)
(* A chain c has chain, its detections, newest first, good, those the fit  *)
(* may use, averaged, those that may enter the average, at, the epoch t    *)
(* and position x of each, and rounding, the sign of the chi2 found for    *)
(* the fit without each if that fit is exact.  Every detection has the     *)
(* same error, one axis moves, parallaxes and colour shifts are not        *)
(* computed.  A fit is the set of detections it goes through.              *)
(***************************************************************************)
EXTENDS Integers, SequencesExt, FiniteSetsExt

CONSTANTS MaxChi2,    \* PROPER_MAXCHI2, in units of the squared error
          MaxNBad     \* PROPER_MAXNBAD

ASSUME MaxNBadType == MaxNBad \in Nat

---------------------------------------------------------------------------
(* astrprop_solve *)

\* Degrees of freedom: two axes, four coefficients; none at all if nothing
\* enters the average.
NFree(c, fit) ==
    LET bad == c.good \ fit
    IN  IF c.averaged \subseteq bad THEN -4 ELSE 2 * Cardinality(fit) - 4

Sum2(c, fit, f, g) == MapThenSumSet(LAMBDA d : f[d] * g[d], fit)

\* The sums of the normal equations; det is positive as epochs are distinct.
Sums(c, fit) ==
    LET one == [d \in DOMAIN c.at |-> 1]
        t == [d \in DOMAIN c.at |-> c.at[d].t]
        x == [d \in DOMAIN c.at |-> c.at[d].x]
        n == Cardinality(fit)
    IN  [det |-> n * Sum2(c, fit, t, t) - Sum2(c, fit, t, one) * Sum2(c, fit, t, one),
         tx  |-> n * Sum2(c, fit, t, x) - Sum2(c, fit, t, one) * Sum2(c, fit, x, one),
         xx  |-> n * Sum2(c, fit, x, x) - Sum2(c, fit, x, one) * Sum2(c, fit, x, one)]

\* Fractions, their denominators positive.
Less(p, q) == p.num * q.den < q.num * p.den
Nothing == [num |-> 0, den |-> 1]

Chi2Of(s, n) == [num |-> s.xx * s.det - s.tx * s.tx, den |-> n * s.det]
PropModOf(s) == [num |-> IF s.tx < 0 THEN -s.tx ELSE s.tx, den |-> s.det]

\* The chi2 of a fit and the size of its motion.  Of an exact fit rounding
\* leaves something just above or below zero.
Chi2(c, fit, rounding) ==
    CASE NFree(c, fit) < 0 -> Nothing
      [] NFree(c, fit) = 0 -> [num |-> rounding, den |-> 1]
      [] NFree(c, fit) > 0 -> Chi2Of(Sums(c, fit), Cardinality(fit))
PropMod(c, fit) == IF NFree(c, fit) < 0 THEN Nothing ELSE PropModOf(Sums(c, fit))

Multiple(n, chi2) == [num |-> n * chi2.num, den |-> chi2.den]

\* Is one fit better per degree of freedom than the best so far?  Neither number
\* of degrees need be positive.
Better(chi2, nfree, m) == Less(Multiple(m.nfreemin, chi2), Multiple(nfree, m.chi2min))

Slower(c, fit, other) == other = {} \/ Less(PropMod(c, fit), PropMod(c, other))

---------------------------------------------------------------------------
(* astrprop_fgroup *)

\* Nothing is bad yet.  slowest is the fit propmodmin belongs to ({} for BIG);
\* solved is what alpha and beta hold.
AllGood(c) ==
    [bad |-> {}, chi2min |-> Chi2(c, c.good, 0), nfreemin |-> NFree(c, c.good),
     solved |-> c.good, slowest |-> {},
     sampmin |-> 0, samppropmod |-> 0, flagged |-> FALSE]

\* Defect: a detection that has been tried stays flagged for the next trials.
TriedStaying(c, m, d) ==
    LET fit == (c.good \ m.bad) \ {d}
        chi2 == Chi2(c, fit, c.rounding[d])
        better == Better(chi2, NFree(c, fit), m)
    IN  IF d \notin c.good \ m.bad THEN m
        ELSE [m EXCEPT !.solved = fit, !.bad = @ \cup {d},
                       !.chi2min = IF better THEN chi2 ELSE @,
                       !.nfreemin = IF better THEN NFree(c, fit) ELSE @,
                       !.sampmin = IF better THEN d ELSE @]

\* What comes of a trial.
Noted(m, d, fit, chi2, nfree, better, slower) ==
    [m EXCEPT !.solved = fit,
              !.chi2min = IF better THEN chi2 ELSE @,
              !.sampmin = IF better THEN d ELSE @,
              !.nfreemin = IF better THEN nfree ELSE @,
              !.slowest = IF slower THEN fit ELSE @,
              !.samppropmod = IF slower THEN d ELSE @]

\* One detection of the chain is tried as the bad one, unless it is passed over.
Tried(c, m, d) ==
    LET fit == (c.good \ m.bad) \ {d}
        chi2 == Chi2(c, fit, c.rounding[d])
        nfree == NFree(c, fit)
    IN  IF d \notin c.good \ m.bad THEN m
        ELSE Noted(m, d, fit, chi2, nfree, Better(chi2, nfree, m), Slower(c, fit, m.slowest))

\* chi2 is OK, or less than two degrees of freedom remain.
Settled(m) ==
    \/ m.nfreemin < 2
    \/ Less(m.chi2min, [num |-> m.nfreemin * MaxChi2, den |-> 1])

\* All have been tried; one is flagged, if any of them improves the fit.
Flagged(m) ==
    LET culprit == IF m.nfreemin <= 0 /\ m.samppropmod # 0
                   THEN m.samppropmod ELSE m.sampmin
    IN  IF m.sampmin = 0 THEN m ELSE [m EXCEPT !.bad = @ \cup {culprit}, !.flagged = TRUE]

\* One turn of the loop over nbad.
Turn(c, m) ==
    LET start == [m EXCEPT !.sampmin = 0, !.samppropmod = 0]
    IN  IF Settled(m) THEN m
        ELSE Flagged(FoldLeft(LAMBDA n, d : Tried(c, n, d), start, c.chain))

\* The solution the motion is taken from, {} for none.
Taken(c, m) == CASE m.nfreemin < 0 -> {}
                 [] m.nfreemin >= 0 /\ m.sampmin # 0 -> c.good \ m.bad
                 [] OTHER -> m.solved

Outcome(c, m) == [bad |-> m.bad, flagged |-> m.flagged, fit |-> Taken(c, m)]

\* The loop, for a source of n usable detections.
Motion(c, n) ==
    LET turns == Max({n \div 5, MaxNBad})
        after[k \in 0..turns] == IF k = 0 THEN AllGood(c) ELSE Turn(c, after[k - 1])
    IN  Outcome(c, after[turns])
=============================================================================
