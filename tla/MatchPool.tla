----------------------------- MODULE MatchPool -----------------------------
(***************************************************************************)
(* match.c: the fields of all groups are matched in parallel with the      *)
(* reference catalogue of their group (pthread_match_fields,               *)
(* pthread_match_field, match_field).  A worker takes the fields one by    *)
(* one; the fields that are done are shown in the order of the groups      *)
(* (print_matchinfo), whatever the order in which they are done.           *)
(*                                                                         *)
(* To match a field is to find its angle and scale, then its shift         *)
(* (match_findas, match_findxy: "align"), then to refine both              *)
(* (match_refine).  The refinement first sorts the reference sources and   *)
(* then the detections along the latitude axis of the field; the axis is   *)
(* in a global variable, sort_coord, under match_sortmutex.  The sets of a *)
(* LOOSE mosaic are matched one after the other, those of other fields     *)
(* together, as one virtual image.                                         *)
(***************************************************************************)
EXTENDS ThreadPool, Calibration

CONSTANT LatAxis  \* LatAxis[fd]: the latitude axis of the field's WCS

ASSUME LatAxisAssumption == LatAxis \in [Fields -> {0, 1}]

VARIABLES
    gnext, fnext,  \* pthread_match_gindex, pthread_match_findex
    gview, fview,  \* pthread_match_gviewindex, pthread_match_fviewindex
    fviewflag,     \* fviewflag[fd]: the field is suitable for viewing
    matching,      \* the field each worker took last: its gindex, findex
    mtodo,         \* what it has still to do to that field
    sortmutex,     \* the holder of match_sortmutex
    sort_coord,    \* the axis compraw compares
    sorting,       \* the workers that are inside qsort
    shown          \* history: the fields shown so far

matchVars == <<gnext, fnext, gview, fview, fviewflag, matching, mtodo,
               sortmutex, sort_coord, sorting, shown>>

NoField == <<-1, -1>>

Loose(fd) == MosaicType(fd) = "LOOSE"

\* What match_field does to the given sets together: two sorts, one of the
\* framed reference sources and one of the detections.
Match(sets) == <<[op |-> "align", sets |-> sets], [op |-> "sort", sets |-> sets],
                 [op |-> "sort", sets |-> sets], [op |-> "refine", sets |-> sets]>>

MatchField(fd) ==
    IF Loose(fd)
    THEN FlattenSeq([i \in DOMAIN SetSeq(fd) |-> Match({SetSeq(fd)[i]})])
    ELSE Match(SetsOf(fd))

MatchInit == /\ gnext = 0 /\ fnext = 0 /\ gview = 0 /\ fview = 0
             /\ fviewflag = [fd \in Fields |-> FALSE]
             /\ matching = [w \in Workers |-> NoField]
             /\ mtodo = [w \in Workers |-> <<>>]
             /\ sortmutex = NoThread
             /\ sort_coord = 0
             /\ sorting = {}
             /\ shown = <<>>

\* Both cursors are at an existing field or behind the last group, the one
\* that shows never ahead of the one that takes.
MatchTypeOK ==
    /\ <<gnext, fnext>> \in Fields \cup {<<NGroup, 0>>}
    /\ <<gview, fview>> \in Fields \cup {<<NGroup, 0>>}
    /\ gview < gnext \/ (gview = gnext /\ fview <= fnext)
    /\ fviewflag \in [Fields -> BOOLEAN]
    /\ matching \in [Workers -> Fields \cup {NoField}]
    /\ \A w \in Workers : \A i \in DOMAIN mtodo[w] :
           /\ mtodo[w][i].op \in {"align", "sort", "refine"}
           /\ mtodo[w][i].sets \subseteq SetsOf(matching[w])
    /\ sortmutex \in Workers \cup {NoThread}
    /\ sort_coord \in {0, 1}
    /\ sorting \subseteq Workers
    /\ shown \in Seq(Fields)

MatchReset ==
    /\ Reset
    /\ gnext' = 0 /\ fnext' = 0 /\ gview' = 0 /\ fview' = 0
    /\ UNCHANGED <<wcs, fviewflag, matching, mtodo, sortmutex, sort_coord,
                   sorting, shown>>

\* Defect: the test for the last field of a group misses by one.
NextFieldLate(fd) == IF fd[2] + 1 <= NFieldOf(fd[1]) THEN <<fd[1], fd[2] + 1>>
                     ELSE <<fd[1] + 1, 0>>

\* The field after fd, in the next group after the last one of its group.
NextField(fd) == IF fd[2] + 1 < NFieldOf(fd[1]) THEN <<fd[1], fd[2] + 1>>
                 ELSE <<fd[1] + 1, 0>>

\* The worker reports the field it took before; the fields done are shown up
\* to the first one that is not.
View(w) ==
    LET flag == [fd \in Fields |-> fviewflag[fd] \/ fd = matching[w]]
        from == IF gview = NGroup THEN Len(FieldSeq)
                ELSE CHOOSE i \in 0..Len(FieldSeq) - 1 : FieldSeq[i + 1] = <<gview, fview>>
        to == CHOOSE n \in from..Len(FieldSeq) :
                  /\ \A i \in from + 1..n : flag[FieldSeq[i]]
                  /\ n < Len(FieldSeq) => ~flag[FieldSeq[n + 1]]
        next == IF to = Len(FieldSeq) THEN <<NGroup, 0>> ELSE FieldSeq[to + 1]
    IN  /\ fviewflag' = flag
        /\ shown' = shown \o SubSeq(FieldSeq, from + 1, to)
        /\ gview' = next[1] /\ fview' = next[2]

\* Under match_mutex: report, and take the next field.
TakeField(w) ==
    /\ pc[w] = "section" /\ gnext < NGroup
    /\ View(w)
    /\ matching' = [matching EXCEPT ![w] = <<gnext, fnext>>]
    /\ LET next == NextField(<<gnext, fnext>>)
       IN  gnext' = next[1] /\ fnext' = next[2]
    /\ mtodo' = [mtodo EXCEPT ![w] = MatchField(<<gnext, fnext>>)]
    /\ Goto(w, "work")
    /\ UNCHANGED <<gateVars, endflag, wcs, sortmutex, sort_coord, sorting>>

\* Defect: the fields are looked at before the worker has reported its own.
NoFieldUnreported(w) ==
    /\ pc[w] = "section" /\ gnext >= NGroup
    /\ Goto(w, "stop")
    /\ UNCHANGED <<gateVars, endflag, wcs, matchVars>>

\* Under match_mutex: report; no field is left.
NoFieldLeft(w) ==
    /\ pc[w] = "section" /\ gnext >= NGroup
    /\ View(w)
    /\ Goto(w, "stop")
    /\ UNCHANGED <<gateVars, endflag, wcs, gnext, fnext, matching, mtodo,
                   sortmutex, sort_coord, sorting>>

\* A step of the matching that corrects the calibration of the sets.
Calibrate(w, how) ==
    /\ pc[w] = "work" /\ mtodo[w] # <<>>
    /\ Head(mtodo[w]).op = how
    /\ Calibrated(Head(mtodo[w]).sets, how)
    /\ mtodo' = [mtodo EXCEPT ![w] = Tail(@)]
    /\ UNCHANGED <<poolVars, gnext, fnext, gview, fview, fviewflag, matching,
                   sortmutex, sort_coord, sorting, shown>>

\* match_findas and match_findxy: angle and scale, then the shift.
Align(w) == Calibrate(w, "align")

\* The rest of match_refine: neighbours in the sorted lists, normal equations,
\* and the correction of all parameters.
Refine(w) == Calibrate(w, "refine")

\* Defect: the axis is set without the mutex.
SortUnlocked(w) ==
    /\ pc[w] = "work" /\ mtodo[w] # <<>> /\ w \notin sorting
    /\ Head(mtodo[w]).op = "sort"
    /\ sort_coord' = LatAxis[matching[w]]
    /\ sorting' = sorting \cup {w}
    /\ UNCHANGED <<poolVars, wcs, gnext, fnext, gview, fview, fviewflag,
                   matching, mtodo, sortmutex, shown>>

\* Lock match_sortmutex, set the axis, call qsort.
Sort(w) ==
    /\ pc[w] = "work" /\ mtodo[w] # <<>> /\ w \notin sorting
    /\ Head(mtodo[w]).op = "sort"
    /\ sortmutex = NoThread
    /\ sortmutex' = w
    /\ sort_coord' = LatAxis[matching[w]]
    /\ sorting' = sorting \cup {w}
    /\ UNCHANGED <<poolVars, wcs, gnext, fnext, gview, fview, fviewflag,
                   matching, mtodo, shown>>

\* qsort returns; unlock.
Sorted(w) ==
    /\ w \in sorting
    /\ sorting' = sorting \ {w}
    /\ sortmutex' = NoThread
    /\ mtodo' = [mtodo EXCEPT ![w] = Tail(@)]
    /\ UNCHANGED <<poolVars, wcs, gnext, fnext, gview, fview, fviewflag,
                   matching, sort_coord, shown>>

\* match_field returns.
FieldDone(w) ==
    /\ pc[w] = "work" /\ mtodo[w] = <<>>
    /\ Goto(w, "test")
    /\ UNCHANGED <<gateVars, endflag, wcs, matchVars>>

MatchWorker(w) == \/ TakeField(w) \/ NoFieldLeft(w) \/ Align(w)
                  \/ Refine(w) \/ Sort(w) \/ Sorted(w) \/ FieldDone(w)
                  \/ (Lifecycle(w) \/ Test(w)) /\ UNCHANGED <<wcs, matchVars>>

MatchMaster == \/ MatchReset
               \/ (Lifecycle(Master) \/ Finish \/ Join \/ \E w \in Workers : Create(w))
                  /\ UNCHANGED <<wcs, matchVars>>
===========================================================================
