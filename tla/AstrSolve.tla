----------------------------- MODULE AstrSolve -----------------------------
(***************************************************************************)
(* astrsolve.c: where the coefficients of the global astrometric solution  *)
(* are kept (astrsolve_fgroups).  Every set has a block of NCoeff          *)
(* coefficients, of its own (stability EXPOSURE) or shared with the sets   *)
(* at its place in the other fields of its instrument (INSTRUMENT), or     *)
(* none (PREDISTORTED); fields have a block of NCoeff2 coefficients, but   *)
(* for the first field of an INSTRUMENT and the fields of type EXPOSURE.   *)
(* Blocks with too few constraints are trimmed from the equations; after   *)
(* the solution each set reads its coefficients back (mat_to_wcs).         *)
(*                                                                         *)
(* Coefficients are counted in units of NAXIS.  A column of the equations  *)
(* is named by the place it had when they were filled.                     *)
(***************************************************************************)
EXTENDS Exposures, FiniteSetsExt

CONSTANTS NCoeff,   \* instrument coefficients per set
          NCoeff2   \* exposure coefficients per field

ASSUME NCoeffAssumption == NCoeff \in Nat \ {0} /\ NCoeff2 \in Nat \ {0}

NLabel == Cardinality(Labels)

\* First walk over the fields: field->index and field->index2 count from 0
\* within an instrument; findex[l] and findex2[l] are findex[l+1] and
\* findex2[l+1] of the code.
CountField(stability, acc, fd) ==
    LET l == Label[fd]
        nset == NSetOf(fd[1], fd[2])
        with(i, i2, n, n2) == [index   |-> [acc.index EXCEPT ![fd] = i],
                               index2  |-> [acc.index2 EXCEPT ![fd] = i2],
                               findex  |-> [acc.findex EXCEPT ![l] = n],
                               findex2 |-> [acc.findex2 EXCEPT ![l] = n2]]
    IN  CASE stability[l] = "INSTRUMENT" ->
                 with(0, acc.findex2[l] - 1, nset, acc.findex2[l] + 1)
          [] stability[l] = "EXPOSURE" ->
                 with(acc.findex[l], -1, acc.findex[l] + nset, -1)
          [] stability[l] = "PREDISTORTED" ->
                 with(-1, acc.findex2[l], 0, acc.findex2[l] + 1)

Counted(stability) ==
    FoldLeft(LAMBDA acc, fd : CountField(stability, acc, fd),
             [index |-> [fd \in Fields |-> 0], index2 |-> [fd \in Fields |-> 0],
              findex |-> [l \in Labels |-> 0], findex2 |-> [l \in Labels |-> 0]],
             FieldSeq)

Before(count, l) == MapThenSumSet(LAMBDA k : count[k], 0..l - 1)

\* The "definitive" indices: instrument blocks first, in the order of the
\* labels, exposure blocks behind them.  The test for a pre-distorted
\* instrument is made with the label of the last field, for every label.
Assigned(stability) ==
    LET counted == Counted(stability)
        instru == Label[Last(FieldSeq)]
        findex2 == [l \in Labels |-> counted.findex2[l] -
                        (IF stability[instru] # "PREDISTORTED" THEN 1 ELSE 0)]
        startindex2 == NCoeff * Before(counted.findex, NLabel)
        fieldIndex2 == [fd \in Fields |->
            IF counted.index2[fd] < 0 THEN -1
            ELSE startindex2 + NCoeff2 * (counted.index2[fd] + Before(findex2, Label[fd]))]
        positive == [l \in Labels |-> IF findex2[l] > 0 THEN findex2[l] ELSE 0]
    IN  [ncoefftot |-> startindex2 + NCoeff2 * Before(positive, NLabel),
         hasIndex  |-> {fd \in Fields : counted.index[fd] >= 0},
         index     |-> [s \in Sets |->
             LET fd == FieldOf(s)
             IN  IF counted.index[fd] < 0 THEN -1
                 ELSE NCoeff * (counted.index[fd] + Before(counted.findex, Label[fd]) + s[3])],
         ncoeff    |-> [s \in Sets |-> NCoeff],
         index2    |-> [s \in Sets |-> fieldIndex2[FieldOf(s)]],
         findex2   |-> fieldIndex2,
         ncoeff2   |-> [fd \in Fields |-> NCoeff2]]

\* The equations of an assignment and the constraints counted while they
\* were filled; nconst[p] is counted at the first place of a block.
Equations(assigned, nconst) ==
    [column |-> [p \in 0..assigned.ncoefftot - 1 |-> p], nconst |-> nconst,
     ncoefftot |-> assigned.ncoefftot, hasIndex |-> assigned.hasIndex,
     index |-> assigned.index, index2 |-> assigned.index2, findex2 |-> assigned.findex2,
     ncoeff |-> assigned.ncoeff, ncoeff2 |-> assigned.ncoeff2]

\* Elements from place "at" of an array of n elements move down by nmiss.
ShiftDown(array, at, n, nmiss) ==
    [p \in DOMAIN array |-> IF at <= p /\ p + nmiss < n THEN array[p + nmiss] ELSE array[p]]

\* shrink_mat: nothing is done when nothing would be left.
Shrunk(column, at, n, nmiss) ==
    IF nmiss >= n THEN column ELSE ShiftDown(column, at, n, nmiss)

\* Defect: exposure blocks do not follow when an instrument block shrinks.
TrimSetAlone(eq, s) ==
    LET at == eq.index[s]
        nmiss == eq.ncoeff[s] - eq.nconst[at]
        end == at + eq.nconst[at]
    IN  IF FieldOf(s) \notin eq.hasIndex \/ eq.nconst[at] >= eq.ncoeff[s] THEN eq
        ELSE [eq EXCEPT
                !.column = Shrunk(@, end, eq.ncoefftot, nmiss),
                !.nconst = ShiftDown(@, end, eq.ncoefftot, nmiss),
                !.ncoeff = [t \in Sets |->
                    IF @[t] # 0 /\ eq.index[t] = at THEN @[t] - nmiss ELSE @[t]],
                !.index = [t \in Sets |-> IF @[t] > at THEN @[t] - nmiss ELSE @[t]],
                !.ncoefftot = @ - nmiss]

\* An instrument block with fewer constraints than coefficients loses its last
\* coefficients; what lies behind moves down.
TrimSet(eq, s) ==
    LET at == eq.index[s]
        nmiss == eq.ncoeff[s] - eq.nconst[at]
        end == at + eq.nconst[at]
        down(i) == IF i >= 0 THEN i - nmiss ELSE i
    IN  IF FieldOf(s) \notin eq.hasIndex \/ eq.nconst[at] >= eq.ncoeff[s] THEN eq
        ELSE [eq EXCEPT
                !.column = Shrunk(@, end, eq.ncoefftot, nmiss),
                !.nconst = ShiftDown(@, end, eq.ncoefftot, nmiss),
                !.ncoeff = [t \in Sets |->
                    IF @[t] # 0 /\ eq.index[t] = at THEN @[t] - nmiss ELSE @[t]],
                !.index = [t \in Sets |-> IF @[t] > at THEN @[t] - nmiss ELSE @[t]],
                !.index2 = [t \in Sets |-> down(@[t])],
                !.findex2 = [fd \in Fields |-> down(@[fd])],
                !.ncoefftot = @ - nmiss]

\* An exposure block with fewer constraints than coefficients loses its first
\* coefficients; the indices of the blocks behind it move down.
TrimField(eq, fd) ==
    LET at == eq.findex2[fd]
        nmiss == eq.ncoeff2[fd] - eq.nconst[at]
    IN  IF at < 0 \/ eq.nconst[at] >= eq.ncoeff2[fd] THEN eq
        ELSE [eq EXCEPT
                !.column = Shrunk(@, at, eq.ncoefftot, nmiss),
                !.nconst = ShiftDown(@, at + eq.nconst[at], eq.ncoefftot, nmiss),
                !.ncoeff2 = [f \in Fields |->
                    IF @[f] # 0 /\ eq.findex2[f] = at THEN @[f] - nmiss ELSE @[f]],
                !.findex2 = [f \in Fields |-> IF @[f] > at THEN @[f] - nmiss ELSE @[f]],
                !.index2 = [t \in Sets |->
                    IF eq.findex2[FieldOf(t)] > at /\ @[t] > at THEN @[t] - nmiss ELSE @[t]],
                !.ncoefftot = @ - nmiss]

\* First the instrument blocks, then the exposure blocks.
Trimmed(eq) ==
    LET instruments == FoldLeft(TrimSet, eq,
                                FlattenSeq([i \in DOMAIN FieldSeq |-> SetSeq(FieldSeq[i])]))
    IN  FoldLeft(TrimField, instruments, FieldSeq)

\* mat_to_wcs: the places of the solution that set s reads, each with the
\* column it takes it for.  An exposure block is read in full, trimmed or not.
ReadBack(eq, assigned, s) ==
    (IF eq.index[s] < 0 THEN {}
     ELSE {<<eq.index[s] + k, assigned.index[s] + k>> : k \in 0..eq.ncoeff[s] - 1})
    \cup
    (IF eq.index2[s] < 0 THEN {}
     ELSE {<<eq.index2[s] + k, assigned.index2[s] + k>> : k \in 0..NCoeff2 - 1})
===========================================================================
