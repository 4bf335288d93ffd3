----------------------------- MODULE Pipeline -----------------------------
(***************************************************************************)
(* makeit.c: the fields, grouped on the sky, go through the pools that     *)
(* calibrate them.  Mosaics are adjusted, one pool per instrument of type  *)
(* FIX_FOCALPLANE; fields are matched with the reference catalogue; the    *)
(* normal equations are filled, trimmed and solved, and the solution goes  *)
(* into the calibration of every set (astrsolve_fgroups).                  *)
(*                                                                         *)
(* The pools share threads, gates and the fields, never the time: each     *)
(* is created after the one before is joined.  Every pool starts with the  *)
(* static variables as the pool before it left them.                       *)
(***************************************************************************)
EXTENDS MosaicPool, MatchPool, FillPool

CONSTANT ChainChoices  \* what cross-identification may have found

\* For every set the chains that end in it.
ASSUME ChainChoicesAssumption == ChainChoices \subseteq [Sets -> Seq(Seq(Sets \cup {Reference}))]

VARIABLE stage  \* where makeit is

vars == <<poolVars, stage, prefs, wcs, mosaicVars, matchVars, fillVars>>

Stages == {"grouped", "mosaic", "match", "fill", "solved"}

TypeOK == /\ PoolTypeOK
          /\ stage \in Stages
          /\ prefs \in Settings
          /\ MosaicTypeOK
          /\ MatchTypeOK
          /\ FillTypeOK

\* The pool that loaded the fields is over.
Init == /\ stage = "grouped"
        /\ prefs \in Settings
        /\ pc = [p \in Parties |-> IF p = Master THEN "done" ELSE "exited"]
        /\ StartGate!Init /\ StopGate!Init
        /\ endflag = TRUE
        /\ MosaicInit
        /\ MatchInit
        /\ FillInit

PoolOver == pc[Master] = "done"

LabelsLeft == {l \in FocalPlane : l > lindex}

\* adjust_mosaic: the common projection centres.
AdjustMosaic ==
    /\ stage = "grouped"
    /\ Recentre
    /\ stage' = "mosaic"
    /\ UNCHANGED <<poolVars, prefs, mosaicVars, matchVars, fillVars>>

\* adjust_mosaic: a pool for the next instrument.
NextInstrument ==
    /\ stage = "mosaic" /\ PoolOver /\ LabelsLeft # {}
    /\ StartMosaic(Min(LabelsLeft))
    /\ UNCHANGED <<stage, prefs, wcs, matchVars, fillVars>>

\* pthread_match_fields, once, if matching is asked for.
StartMatch ==
    /\ stage = "mosaic" /\ PoolOver /\ LabelsLeft = {}
    /\ prefs.match_flag
    /\ stage' = "match"
    /\ NewPool(FALSE)
    /\ adjusting' = [w \in Workers |-> -1]
    /\ UNCHANGED <<prefs, wcs, lindex, msindex, sviewindex, sviewflag, matchVars,
                   fillVars>>

\* Detections are cross-identified; astrsolve_fgroups starts.
StartSolve ==
    /\ PoolOver
    /\ \/ stage = "match"
       \/ stage = "mosaic" /\ LabelsLeft = {} /\ ~prefs.match_flag
    /\ stage' = "fill"
    /\ \E c \in ChainChoices : StartFill(c, prefs.stability_type)
    /\ adjusting' = [w \in Workers |-> -1]
    /\ matching' = [w \in Workers |-> NoField]
    /\ UNCHANGED <<prefs, wcs, lindex, msindex, sviewindex, sviewflag, gnext, fnext,
                   gview, fview, fviewflag, mtodo, sortmutex, sort_coord, sorting, shown>>

\* The constraints that were counted, by the place of the first coefficient.
Constraints == [p \in 0..assigned.ncoefftot - 1 |->
                    IF <<"nconst", p>> \in DOMAIN cell THEN cell[<<"nconst", p>>] ELSE 0]

\* The equations as they are solved: filled, then trimmed.
Solved == Trimmed(Equations(assigned, Constraints))

\* The equations are solved and every set takes its coefficients.
Solve ==
    /\ stage = "fill" /\ PoolOver
    /\ Calibrated(Sets, "solve")
    /\ stage' = "solved"
    /\ UNCHANGED <<poolVars, prefs, mosaicVars, matchVars, fillVars>>

MasterStep ==
    \/ AdjustMosaic \/ NextInstrument \/ StartMatch \/ StartSolve \/ Solve
    \/ /\ stage = "mosaic" /\ MosaicMaster
       /\ UNCHANGED <<stage, prefs, matchVars, fillVars>>
    \/ /\ stage = "match" /\ MatchMaster
       /\ UNCHANGED <<stage, prefs, mosaicVars, fillVars>>
    \/ /\ stage = "fill" /\ FillMaster
       /\ UNCHANGED <<stage, prefs, wcs, mosaicVars, matchVars>>

Worker(w) ==
    \/ /\ stage = "mosaic" /\ MosaicWorker(w)
       /\ UNCHANGED <<stage, prefs, matchVars, fillVars>>
    \/ /\ stage = "match" /\ MatchWorker(w)
       /\ UNCHANGED <<stage, prefs, mosaicVars, fillVars>>
    \/ /\ stage = "fill" /\ FillWorker(w)
       /\ UNCHANGED <<stage, prefs, wcs, mosaicVars, matchVars>>

Next == MasterStep \/ \E w \in Workers : Worker(w)

\* Every thread that can run is run.
Fairness == WF_vars(MasterStep) /\ \A w \in Workers : WF_vars(Worker(w))

Spec == Init /\ [][Next]_vars /\ Fairness

---------------------------------------------------------------------------
(* Properties *)

\* The calibrations that the settings ask for, in the order of the pipeline.
MosaicCalls(s) ==
    CASE MosaicType(FieldOf(s)) = "UNCHANGED" -> <<>>
      [] MosaicType(FieldOf(s)) = "SAME_CRVAL" -> <<"samecrval">>
      [] MosaicType(FieldOf(s)) = "FIX_FOCALPLANE" -> <<"recentre", "adjust">>
      [] OTHER -> <<"recentre">>
MatchCalls == IF prefs.match_flag THEN <<"align", "refine">> ELSE <<>>

\* Every set goes through the calibrations its instrument's settings ask for,
\* each once and in order, whichever workers took it in the pools: none is
\* adjusted by the pool of another instrument, matched before it is adjusted,
\* or left out when the next stage starts.
WcsInOrder == \A s \in Sets :
    /\ IsPrefix(wcs[s], MosaicCalls(s) \o MatchCalls \o <<"solve">>)
    /\ stage = "match" => IsPrefix(MosaicCalls(s), wcs[s])
    /\ stage = "fill" => wcs[s] = MosaicCalls(s) \o MatchCalls

\* The results of matching are shown in the order of the groups and fields,
\* each only when its field is completely matched, and all of them when the
\* master takes the matching for done.
MatchedInOrder ==
    /\ IsPrefix(shown, FieldSeq)
    /\ \A i \in DOMAIN shown : \A s \in SetsOf(shown[i]) : IsSuffix(<<"refine">>, wcs[s])
                                                           \/ stage = "solved"
    /\ stage = "match" /\ MasterPastStop => shown = FieldSeq

\* While a thread sorts its sources, the axis it sorts along is not changed by
\* a thread that matches a field with another axis: the merge that follows the
\* sort would miss neighbours.
SortKeyHeld == \A w \in sorting : sort_coord = LatAxis[matching[w]]

\* No set of any group is skipped and none is filled twice: a chain would be
\* missing from the solution, or weigh double.
FilledOnce == /\ \A s \in Sets : filled[s] <= 1
              /\ stage = "fill" /\ MasterPastStop => \A s \in Sets : filled[s] = 1

\* What the workers add to the same row or counter at the same time is not
\* lost: when the master goes on to solve the equations, every cell is the
\* sum of all contributions and nobody is still adding.
NothingLost == stage = "fill" /\ MasterPastStop =>
    /\ \A c \in DOMAIN cell : cell[c] = Due(c)
    /\ \A w \in Workers : todo[w] = <<>>

\* Sets share an instrument block when they are at the same place in fields of
\* one instrument of type INSTRUMENT.
SameBlock(s, t) ==
    \/ s = t
    \/ /\ Label[FieldOf(s)] = Label[FieldOf(t)] /\ s[3] = t[3]
       /\ prefs.stability_type[Label[FieldOf(s)]] = "INSTRUMENT"

BlockColumns(start, n) == IF start < 0 THEN {} ELSE start..start + n - 1

\* Different blocks have no column in common.
BlocksApart == \A s, t \in Sets :
    LET instrument == BlockColumns(assigned.index[s], NCoeff)
    IN  /\ (instrument # {} /\ instrument = BlockColumns(assigned.index[t], NCoeff))
           <=> (instrument # {} /\ SameBlock(s, t))
        /\ SameBlock(s, t) \/ instrument \cap BlockColumns(assigned.index[t], NCoeff) = {}
        /\ instrument \cap BlockColumns(assigned.index2[t], NCoeff2) = {}
        /\ FieldOf(s) = FieldOf(t)
           \/ BlockColumns(assigned.index2[s], NCoeff2)
              \cap BlockColumns(assigned.index2[t], NCoeff2) = {}

\* What a set reads from the solution are the solved values of the columns its
\* own blocks had in the equations, wherever trimming has moved them.
ColumnsFollow ==
    LET equations == Solved
    IN  \A s \in Sets : \A read \in ReadBack(equations, assigned, s) :
            read[1] < equations.ncoefftot /\ equations.column[read[1]] = read[2]

\* No two sets or fields share coefficients by accident, and each takes its own
\* from the solution.
OwnColumns == stage = "solved" => BlocksApart /\ ColumnsFollow

\* The pools end, one after the other, and the solution is reached: no two
\* workers wait for each other's mutexes, and none is left at a gate.
Ends == <>(stage = "solved")
===========================================================================
