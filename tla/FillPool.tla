----------------------------- MODULE FillPool -----------------------------
(***************************************************************************)
(* astrsolve.c: the normal equations of the global astrometric solution    *)
(* are filled in parallel (pthread_fill_astromatrix,                       *)
(* pthread_fillastromatrix_thread, fill_astromatrix).                      *)
(*                                                                         *)
(* Workers take the sets of all fields of all groups one by one.  For      *)
(* every chain of cross-identified detections that ends in its set, a      *)
(* worker adds contributions to the rows of the matrix that belong to the  *)
(* detections of the chain -- which may lie in sets another worker is      *)
(* busy with.  An addition reads, adds and writes back; rows are shared    *)
(* out over two arrays of mutexes, constraint counters have one mutex.     *)
(*                                                                         *)
(* A contribution is the number 1: what matters here is that none is lost  *)
(* and none is counted twice.                                              *)
(***************************************************************************)
EXTENDS ThreadPool, AstrSolve

CONSTANTS Reference,   \* a detection of the reference catalogue
          NMatMutex,   \* NMAT_MUTEX
          NMatMutex2   \* NMAT_MUTEX2

ASSUME ReferenceAssumption == Reference \notin Sets
ASSUME NMatMutexAssumption == NMatMutex \in Nat \ {0} /\ NMatMutex2 \in Nat \ {0}

VARIABLES
    assigned,  \* the indices of the sets and fields (set->index, ...)
    updates,   \* updates[s]: what the chains that end in set s add, in order
    gindex, findex, sindex,  \* the shared cursor pthread_gindex, ...
    todo,      \* the updates each worker has still to make for its set
    register,  \* what it has read of the cells it is updating
    held,      \* held[l]: the worker that holds mutex l
    cell,      \* the counters and the matrix
    filled     \* history: how often each set was taken

fillVars == <<assigned, updates, gindex, findex, sindex, todo, register, held,
              cell, filled>>
cursor == <<gindex, findex, sindex>>

Index(s) == assigned.index[s]
Index2(s) == assigned.index2[s]

IndexOf(m) == IF m = Reference THEN -1 ELSE Index(m)
Index2Of(m) == IF m = Reference THEN -1 ELSE Index2(m)

Rows == ({Index(s) : s \in Sets} \cup {Index2(s) : s \in Sets}) \ {-1}

\* What is added to: the counter of a set, the counter of a block of
\* coefficients, the rows of a block in alpha and beta.
Cells == ({"set"} \X Sets) \cup ({"nconst", "row"} \X Rows)

Locks == {<<"nconst", 0>>} \cup ({"mat"} \X (0..NMatMutex - 1))
                           \cup ({"mat2"} \X (0..NMatMutex2 - 1))

\* Every detection with parameters counts as a constraint of its set and of
\* its two blocks.
Constraint(m) ==
    IF m = Reference THEN <<>>
    ELSE <<[lock  |-> <<"nconst", 0>>,
            cells |-> {<<"set", m>>} \cup
                      {<<"nconst", i>> : i \in {Index(m), Index2(m)} \ {-1}}]>>

\* add_alphamat and add_betamat on the rows that start at i, under the mutex
\* of that block; nothing is added, and no mutex taken, for a negative index.
RowUpdate(kind, i) ==
    IF i < 0 THEN <<>>
    ELSE <<[lock  |-> <<kind, (i \div NCoeff) %
                              (IF kind = "mat" THEN NMatMutex ELSE NMatMutex2)>>,
            cells |-> {<<"row", i>>}]>>

\* Defect: imut is not worked out again for the second detection.
PairStaleMutex(m, n) ==
    LET stale(kind, i) == IF i < 0 THEN <<>>
            ELSE <<[RowUpdate(kind, i)[1] EXCEPT !.lock = <<kind, 0>>]>>
    IN  RowUpdate("mat", IndexOf(m)) \o RowUpdate("mat2", Index2Of(m))
        \o stale("mat", IndexOf(n)) \o stale("mat2", Index2Of(n))

\* The four locked regions for a pair of detections.
Pair(m, n) == RowUpdate("mat", IndexOf(m)) \o RowUpdate("mat2", Index2Of(m))
              \o RowUpdate("mat", IndexOf(n)) \o RowUpdate("mat2", Index2Of(n))

\* Each detection is paired with those before it in the chain.
ChainUpdates(c) == FlattenSeq([i \in 1..Len(c) |->
    Constraint(c[i]) \o FlattenSeq([j \in 1..i - 1 |-> Pair(c[i], c[j])])])

\* chains: the chains that end in a set, each the sequence of the sets of its
\* unflagged detections.
SetUpdates(chains) == FlattenSeq([i \in DOMAIN chains |-> ChainUpdates(chains[i])])

FillInit == /\ assigned = <<>>
            /\ updates = [s \in Sets |-> <<>>]
            /\ gindex = 0 /\ findex = 0 /\ sindex = 0
            /\ todo = [w \in Workers |-> <<>>]
            /\ register = [w \in Workers |-> <<>>]
            /\ held = [l \in Locks |-> NoThread]
            /\ cell = <<>>
            /\ filled = [s \in Sets |-> 0]

\* The shared cursor is at an existing set of an existing field, or behind the
\* last group; a worker only holds mutexes that exist.
FillTypeOK == /\ \/ gindex = NGroup /\ findex = 0 /\ sindex = 0
                 \/ <<gindex, findex, sindex>> \in Sets
              /\ \A w \in Workers : \A i \in DOMAIN todo[w] :
                    todo[w][i].lock \in DOMAIN held /\ todo[w][i].cells \subseteq DOMAIN cell
              /\ \A w \in Workers : DOMAIN register[w] \subseteq DOMAIN cell
              /\ held \in [Locks -> Workers \cup {NoThread}]
              /\ filled \in [Sets -> Nat]

\* The indices are assigned and the arrays allocated, with zeroes, for the
\* detections that were cross-identified; then the pool is created.  The
\* solution is computed more than once: the end flag may be set.
StartFill(chains, stability) ==
    /\ assigned' = Assigned(stability)
    /\ updates' = [s \in Sets |-> SetUpdates(chains[s])']
    /\ cell' = [x \in Cells' |-> 0]
    /\ \E flag \in BOOLEAN : NewPool(flag)
    /\ UNCHANGED <<gindex, findex, sindex, todo, register, held, filled>>

ResetCursor == /\ Reset
               /\ gindex' = 0 /\ findex' = 0 /\ sindex' = 0
               /\ UNCHANGED <<assigned, updates, todo, register, held, cell, filled>>

\* Defect: the test for the last set of a field misses by one.
AdvanceShort ==
    LET lastSet == sindex + 2 >= NSetOf(gindex, findex)
        lastField == lastSet /\ findex + 1 >= NFieldOf(gindex)
    IN  /\ sindex' = IF lastSet THEN 0 ELSE sindex + 1
        /\ findex' = IF lastField THEN 0 ELSE IF lastSet THEN findex + 1 ELSE findex
        /\ gindex' = IF lastField THEN gindex + 1 ELSE gindex

\* The cursor moves to the next set, the next field, the next group.
Advance ==
    LET lastSet == sindex + 1 >= NSetOf(gindex, findex)
        lastField == lastSet /\ findex + 1 >= NFieldOf(gindex)
    IN  /\ sindex' = IF lastSet THEN 0 ELSE sindex + 1
        /\ findex' = IF lastField THEN 0 ELSE IF lastSet THEN findex + 1 ELSE findex
        /\ gindex' = IF lastField THEN gindex + 1 ELSE gindex

\* Under fillastromutex: take a set and advance.
Take(w) ==
    /\ pc[w] = "section" /\ gindex < NGroup
    /\ Advance
    /\ filled' = [filled EXCEPT ![cursor] = @ + 1]
    /\ todo' = [todo EXCEPT ![w] = updates[cursor]]
    /\ Goto(w, "work")
    /\ UNCHANGED <<gateVars, endflag, assigned, updates, register, held, cell>>

\* Under fillastromutex: no set is left.
Idle(w) ==
    /\ pc[w] = "section" /\ gindex >= NGroup
    /\ Goto(w, "stop")
    /\ UNCHANGED <<gateVars, endflag, fillVars>>

\* Lock the mutex of the next update, and read.
Read(w) ==
    /\ pc[w] = "work" /\ todo[w] # <<>>
    /\ LET u == Head(todo[w])
       IN  /\ held[u.lock] = NoThread
           /\ held' = [held EXCEPT ![u.lock] = w]
           /\ register' = [register EXCEPT ![w] = [c \in u.cells |-> cell[c]]]
    /\ UNCHANGED <<poolVars, assigned, updates, cursor, todo, cell, filled>>

\* Add, write back, unlock.
Write(w) ==
    /\ pc[w] = "work" /\ todo[w] # <<>>
    /\ LET u == Head(todo[w])
       IN  /\ held[u.lock] = w
           /\ cell' = [c \in DOMAIN cell |-> IF c \in u.cells THEN register[w][c] + 1
                                       ELSE cell[c]]
           /\ held' = [held EXCEPT ![u.lock] = NoThread]
    /\ register' = [register EXCEPT ![w] = <<>>]
    /\ todo' = [todo EXCEPT ![w] = Tail(@)]
    /\ UNCHANGED <<poolVars, assigned, updates, cursor, filled>>

\* fill_astromatrix returns.
SetDone(w) ==
    /\ pc[w] = "work" /\ todo[w] = <<>>
    /\ Goto(w, "test")
    /\ UNCHANGED <<gateVars, endflag, fillVars>>

FillWorker(w) == \/ Take(w) \/ Idle(w) \/ Read(w) \/ Write(w) \/ SetDone(w)
                 \/ (Lifecycle(w) \/ Test(w)) /\ UNCHANGED fillVars

FillMaster == \/ ResetCursor
              \/ (Lifecycle(Master) \/ Finish \/ Join \/ \E w \in Workers : Create(w))
                 /\ UNCHANGED fillVars

\* The updates of a list that add to cell c, and how many additions the chains
\* call for.
Adding(list, c) == {i \in DOMAIN list : c \in list[i].cells}
Due(c) == SumFunction([s \in Sets |-> Cardinality(Adding(updates[s], c))])
===========================================================================
