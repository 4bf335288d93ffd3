---------------------------- MODULE MosaicPool ----------------------------
(***************************************************************************)
(* mosaic.c: the detectors of a mosaic are put into common positions       *)
(* (adjust_mosaic).  First every field whose mosaic type asks for it is    *)
(* given one projection centre; then, for every instrument of type         *)
(* FIX_FOCALPLANE, a pool of its own is created and its workers take the   *)
(* detectors one by one (pthread_adjust_sets, pthread_adjust_set).  To     *)
(* adjust detector s is to move the sets number s of all fields of the     *)
(* instrument (adjust_set).                                                *)
(*                                                                         *)
(* Two workers never adjust the same set (WcsInOrder would show it), so    *)
(* that adjust_set is one step.                                            *)
(***************************************************************************)
EXTENDS ThreadPool, Calibration

VARIABLES
    lindex,      \* the label whose pool runs, or ran last
    msindex,     \* pthread_mosaic_sindex: the next detector to take
    sviewindex,  \* detectors reported as done
    sviewflag,   \* sviewflag[s]: detector s is done
    adjusting    \* each worker's own sindex

mosaicVars == <<lindex, msindex, sviewindex, sviewflag, adjusting>>

FocalPlane == {l \in Labels : prefs.mosaic_type[l] = "FIX_FOCALPLANE"}

\* matchfields: the fields of the instrument.
MatchFields(l) == {fd \in Fields : Label[fd] = l}

\* pthread_mosaic_nset
NSetOfLabel(l) == LET fd == CHOOSE x \in MatchFields(l) : TRUE
                  IN  NSetOf(fd[1], fd[2])

MosaicInit == /\ wcs = [s \in Sets |-> <<>>]
              /\ lindex = -1
              /\ msindex = 0 /\ sviewindex = 0
              /\ sviewflag = <<>>
              /\ adjusting = [w \in Workers |-> -1]

MosaicTypeOK == /\ wcs \in [Sets -> Seq(Calibrations)]
                /\ lindex \in Labels \cup {-1}
                /\ \A s \in DOMAIN sviewflag : sviewflag[s] \in BOOLEAN
                /\ msindex \in Nat
                /\ sviewindex \in 0..msindex
                /\ adjusting \in [Workers -> -1..msindex - 1]

\* Each set whose projection centre becomes that of its field.
Recentre == wcs' = [s \in Sets |->
    CASE MosaicType(FieldOf(s)) = "UNCHANGED" -> wcs[s]
      [] MosaicType(FieldOf(s)) = "SAME_CRVAL" -> Append(wcs[s], "samecrval")
      [] OTHER -> Append(wcs[s], "recentre")]

\* The pool of label l is created: new view flags, new threads.  The shared
\* indices are static and still those of the previous pool.
StartMosaic(l) ==
    /\ lindex' = l
    /\ sviewflag' = [s \in 0..NSetOfLabel(l) - 1 |-> FALSE]
    /\ adjusting' = [w \in Workers |-> -1]
    /\ NewPool(lindex # -1)
    /\ UNCHANGED <<msindex, sviewindex>>

\* Defect: only the flag is set back, the indices are those of the last pool.
MosaicResetFlagOnly == /\ Reset
                       /\ UNCHANGED <<wcs, mosaicVars>>

MosaicReset == /\ Reset
               /\ msindex' = 0 /\ sviewindex' = 0
               /\ UNCHANGED <<wcs, lindex, sviewflag, adjusting>>

\* The worker reports the detector it took before; the reports move on over
\* all detectors done.
Report(w) ==
    LET nset == NSetOfLabel(lindex)
        flag == [s \in 0..nset - 1 |-> sviewflag[s] \/ s = adjusting[w]]
        waiting == {s \in sviewindex..nset - 1 : ~flag[s]}
    IN  /\ sviewflag' = flag
        /\ sviewindex' = IF waiting = {} THEN nset
                         ELSE CHOOSE s \in waiting : \A t \in waiting : s <= t

\* Under mosaic_adjmutex: report, and take the next detector.
TakeDetector(w) ==
    /\ pc[w] = "section" /\ msindex < NSetOfLabel(lindex)
    /\ Report(w)
    /\ adjusting' = [adjusting EXCEPT ![w] = msindex]
    /\ msindex' = msindex + 1
    /\ Goto(w, "work")
    /\ UNCHANGED <<gateVars, endflag, wcs, lindex>>

\* Under mosaic_adjmutex: report; no detector is left.
NoDetector(w) ==
    /\ pc[w] = "section" /\ msindex >= NSetOfLabel(lindex)
    /\ Report(w)
    /\ Goto(w, "stop")
    /\ UNCHANGED <<gateVars, endflag, wcs, lindex, msindex, adjusting>>

\* adjust_set: the median position over the fields with enough detections, or
\* that of the first field, becomes the position in all fields.
AdjustSet(w) ==
    /\ pc[w] = "work"
    /\ Calibrated({s \in Sets : FieldOf(s) \in MatchFields(lindex) /\ s[3] = adjusting[w]},
                  "adjust")
    /\ Goto(w, "test")
    /\ UNCHANGED <<gateVars, endflag, mosaicVars>>

MosaicWorker(w) == \/ TakeDetector(w) \/ NoDetector(w) \/ AdjustSet(w)
                   \/ (Lifecycle(w) \/ Test(w)) /\ UNCHANGED <<wcs, mosaicVars>>

MosaicMaster == \/ MosaicReset
                \/ (Lifecycle(Master) \/ Finish \/ Join \/ \E w \in Workers : Create(w))
                   /\ UNCHANGED <<wcs, mosaicVars>>
===========================================================================
