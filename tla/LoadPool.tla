----------------------------- MODULE LoadPool -----------------------------
(***************************************************************************)
(* field.c: input catalogues are loaded in parallel and labelled in input  *)
(* order (pthread_load_fields, pthread_load_field, label_field).           *)
(*                                                                         *)
(* A worker that comes to the read mutex first reports the field it has    *)
(* loaded, then labels every field that can be labelled without a gap --   *)
(* its own or another worker's -- and only then takes the next file.       *)
(* Labelling enters a field's instrument in the tables of known            *)
(* instruments, the label being its index there.  The user's lists         *)
(* MOSAIC_TYPE and STABILITY_TYPE are in the order of those indices, so    *)
(* they must not depend on which catalogue happens to be read first.       *)
(***************************************************************************)
EXTENDS ThreadPool, Sequences, FiniteSetsExt

CONSTANTS NField,      \* number of input catalogues (pthread_field_nfield)
          AstroKeys,   \* astrometric keywords and number of extensions
          PhotoKeys,   \* photometric keywords
          MaxInstru    \* MAXASTRINSTRU and MAXPHOTINSTRU

ASSUME NFieldAssumption == NField \in Nat \ {0}
ASSUME MaxInstruAssumption == MaxInstru \in Nat \ {0}

Fields == 0..NField - 1

VARIABLES
    key,          \* the instrument each file was taken with
    readmutex,    \* field_readmutex
    findex,       \* pthread_field_findex: next file to load
    fviewindex,   \* pthread_field_fviewindex: next field to label
    fviewflag,    \* pthread_field_fviewflag: fields that may be labelled
    mine,         \* the local findex of each worker, -1 before the first
    loaded,       \* fields whose load_field and locate_field have returned
    astro, photo, \* prefs.astrinstrustr/nastrinstruext, prefs.photinstrustr
    label,        \* field->astromlabel and field->photomlabel
    failed        \* error() has ended the process

loadVars == <<key, readmutex, findex, fviewindex, fviewflag, mine, loaded,
              astro, photo, label, failed>>
vars == <<poolVars, loadVars>>

NoLabel == [astrom |-> -1, photom |-> -1]
Labels == [astrom : -1..NField, photom : -1..NField]

\* The shared indices stay within the list of files, and every label is the
\* index of some instrument: neither a worker nor label_field runs past an
\* array of nfield entries.
TypeOK == /\ PoolTypeOK
          /\ key \in [Fields -> AstroKeys \X PhotoKeys]
          /\ readmutex \in Workers \cup {NoThread}
          /\ findex \in 0..NField
          /\ fviewindex \in 0..NField
          /\ fviewflag \in [Fields -> BOOLEAN]
          /\ mine \in [Workers -> -1..NField - 1]
          /\ loaded \in SUBSET Fields
          /\ astro \in Seq(AstroKeys) /\ Len(astro) <= NField
          /\ photo \in Seq(PhotoKeys) /\ Len(photo) <= NField
          /\ label \in [Fields -> Labels]
          /\ failed \in BOOLEAN

Init == /\ PoolInit
        /\ key \in [Fields -> AstroKeys \X PhotoKeys]
        /\ readmutex = NoThread
        /\ findex = 0 /\ fviewindex = 0
        /\ fviewflag = [f \in Fields |-> FALSE]
        /\ mine = [w \in Workers |-> -1]
        /\ loaded = {}
        /\ astro = <<>> /\ photo = <<>>
        /\ label = [f \in Fields |-> NoLabel]
        /\ failed = FALSE

\* Lock field_readmutex and tell that the field this worker loaded is ready.
Report(w) ==
    /\ pc[w] = "section" /\ readmutex = NoThread
    /\ readmutex' = w
    /\ fviewflag' = [f \in Fields |-> fviewflag[f] \/ f = mine[w]]
    /\ Goto(w, "view")
    /\ UNCHANGED <<gateVars, endflag, key, findex, fviewindex, mine, loaded,
                   astro, photo, label, failed>>

\* Is there a field that can be labelled, all earlier ones being labelled?
Labelable == fviewindex < NField /\ fviewflag[fviewindex]

\* The index of instrument k in a table: where it is stored, or else the slot
\* it is about to be appended to.
IndexIn(table, k) ==
    IF \E j \in 1..Len(table) : table[j] = k
    THEN Min({j \in 1..Len(table) : table[j] = k}) - 1
    ELSE Len(table)

Stored(table, k) ==
    IF IndexIn(table, k) < Len(table) THEN table ELSE Append(table, k)

\* label_field(fields[f]) by the worker that holds the mutex.  The process
\* ends when a table has grown past its limit.
Label(w, f) ==
    /\ astro' = Stored(astro, key[f][1])
    /\ IF Len(astro') > MaxInstru
       THEN /\ failed' = TRUE
            /\ label' = [label EXCEPT ![f].astrom = IndexIn(astro, key[f][1])]
            /\ UNCHANGED <<photo, fviewindex>>
       ELSE /\ photo' = Stored(photo, key[f][2])
            /\ label' = [label EXCEPT ![f] =
                            [astrom |-> IndexIn(astro, key[f][1]),
                             photom |-> IndexIn(photo, key[f][2])]]
            /\ failed' = (Len(photo') > MaxInstru)
            /\ fviewindex' = IF failed' THEN fviewindex ELSE fviewindex + 1
    /\ UNCHANGED <<poolVars, key, readmutex, findex, fviewflag, mine, loaded>>

\* Defect: the worker labels the field it has just loaded, in its own time.
ViewOwn(w) ==
    /\ pc[w] = "view" /\ mine[w] >= 0 /\ fviewindex < NField
    /\ label[mine[w]] = NoLabel
    /\ Label(w, mine[w])

\* Defect: a field counts as ready when it has been taken.
ViewTaken(w) ==
    /\ pc[w] = "view" /\ fviewindex < findex
    /\ Label(w, fviewindex)

\* One turn of the viewing loop.
View(w) ==
    /\ pc[w] = "view" /\ Labelable
    /\ Label(w, fviewindex)

\* Defect: the next index is read but not advanced under the mutex.
TakeAgain(w) ==
    /\ pc[w] = "view" /\ ~Labelable
    /\ findex < NField
    /\ mine' = [mine EXCEPT ![w] = findex]
    /\ readmutex' = NoThread
    /\ Goto(w, "work")
    /\ UNCHANGED <<gateVars, endflag, key, findex, fviewindex, fviewflag, loaded,
                   astro, photo, label, failed>>

\* Nothing more to label: take the next file, if there is one.
Take(w) ==
    /\ pc[w] = "view" /\ ~Labelable
    /\ findex < NField
    /\ mine' = [mine EXCEPT ![w] = findex]
    /\ findex' = findex + 1
    /\ readmutex' = NoThread
    /\ Goto(w, "work")
    /\ UNCHANGED <<gateVars, endflag, key, fviewindex, fviewflag, loaded,
                   astro, photo, label, failed>>

\* Defect: one of the two ways out of the section keeps the mutex.
IdleLocked(w) ==
    /\ pc[w] = "view" /\ ~Labelable
    /\ findex >= NField
    /\ Goto(w, "stop")
    /\ UNCHANGED <<gateVars, endflag, key, readmutex, findex, fviewindex, fviewflag,
                   mine, loaded, astro, photo, label, failed>>

\* Every file is taken: go and wait at the stop gate.
Idle(w) ==
    /\ pc[w] = "view" /\ ~Labelable
    /\ findex >= NField
    /\ readmutex' = NoThread
    /\ Goto(w, "stop")
    /\ UNCHANGED <<gateVars, endflag, key, findex, fviewindex, fviewflag, mine,
                   loaded, astro, photo, label, failed>>

\* Defect: a worker that sees the last file taken does not come back to
\* report the field it has loaded.
LoadUnreported(w) ==
    /\ pc[w] = "work"
    /\ loaded' = loaded \cup {mine[w]}
    /\ Goto(w, IF findex >= NField THEN "stop" ELSE "test")
    /\ UNCHANGED <<gateVars, endflag, key, readmutex, findex, fviewindex,
                   fviewflag, mine, astro, photo, label, failed>>

\* load_field and locate_field, without any mutex.
Load(w) ==
    /\ pc[w] = "work"
    /\ loaded' = loaded \cup {mine[w]}
    /\ Goto(w, "test")
    /\ UNCHANGED <<gateVars, endflag, key, readmutex, findex, fviewindex,
                   fviewflag, mine, astro, photo, label, failed>>

\* load_field finds no usable catalogue: error() ends the process.
LoadFails(w) ==
    /\ pc[w] = "work"
    /\ failed' = TRUE
    /\ UNCHANGED <<poolVars, key, readmutex, findex, fviewindex, fviewflag,
                   mine, loaded, astro, photo, label>>

\* The master's reset, under the read mutex.
ResetIndices == /\ Reset /\ findex' = 0 /\ fviewindex' = 0
                /\ UNCHANGED <<key, readmutex, fviewflag, mine, loaded, astro,
                               photo, label, failed>>

\* A worker's own steps.
Worker(w) ==
    \/ Report(w) \/ View(w) \/ Take(w) \/ Idle(w) \/ Load(w)
    \/ (Lifecycle(w) \/ Test(w)) /\ UNCHANGED loadVars

MasterStep ==
    \/ ResetIndices
    \/ (Lifecycle(Master) \/ Finish \/ Join \/ \E w \in Workers : Create(w))
       /\ UNCHANGED loadVars

Next == /\ ~failed
        /\ \/ MasterStep
           \/ \E w \in Workers : Worker(w) \/ LoadFails(w)

\* Every thread that can run is run; reading a file takes finitely long.
Fairness == /\ WF_vars(~failed /\ MasterStep)
            /\ \A w \in Workers : WF_vars(~failed /\ Worker(w))

Spec == Init /\ [][Next]_vars /\ Fairness

---------------------------------------------------------------------------
(* Properties *)

\* The rank of an instrument in the order in which the input list names it.
Rank(k, n) ==
    LET first(j) == Min({f \in Fields : key[f][n] = j})
    IN  Cardinality({j \in {key[f][n] : f \in Fields} : first(j) < first(k)})

\* The labels are those a single thread would give: instruments are numbered
\* in the order of the input files, whatever order the threads finish in
\* (field.c:695-696: "suitable for order-dependent operations such as
\* labeling").
LabelsFollowInput == \A f \in Fields :
    label[f] # NoLabel /\ ~failed =>
        label[f] = [astrom |-> Rank(key[f][1], 1), photom |-> Rank(key[f][2], 2)]

\* A field is labelled, and shown, only after it has been loaded: until then
\* fields[f] is an uninitialised pointer.
LabelsLoaded == \A f \in Fields : label[f] # NoLabel => f \in loaded

\* Two threads never load the same file, and no file is loaded again.
LoadedOnce == \A w \in Workers : pc[w] = "work" =>
    /\ mine[w] \notin loaded
    /\ \A v \in Workers \ {w} : pc[v] = "work" => mine[v] # mine[w]

\* When the master is through the stop gate every file has been loaded and
\* labelled -- by whichever worker came last, not by the one that loaded it --
\* and no worker is at work on the fields.
CompleteAtStop == MasterPastStop =>
    /\ loaded = Fields
    /\ \A f \in Fields : label[f] # NoLabel
    /\ \A w \in Workers : pc[w] \notin {"section", "view", "work"}

\* The pool ends: no thread is left behind at a gate.
Ends == <>(failed \/ pc[Master] = "done")
===========================================================================
