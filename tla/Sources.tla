------------------------------ MODULE Sources ------------------------------
(***************************************************************************)
(* makeit.c, from the first reprojection to the catalogues: what happens   *)
(* to the chains of cross-identified detections of one field group.        *)
(*                                                                         *)
(* A detection is a struct in the array of its set; chains, and the merged *)
(* sources, are pointers to places in these arrays.  CrossId_run builds    *)
(* the chains anew, astrclip_fgroup and photclip_fgroup take outliers out  *)
(* of them, merge_fgroup makes sources of them, writefullcat_fgroup walks  *)
(* them again -- and reproj_fgroup, in between, sorts the structs of every *)
(* set in place, links and all.                                            *)
(*                                                                         *)
(* Positions have one dimension.  Every field has one set.  The reference  *)
(* catalogue is in use (merge.c:88 cannot do without).                     *)
(***************************************************************************)
EXTENDS ProperMotion

CONSTANTS Layout,     \* Layout[p]: field of the array place p, 0: reference
          Skies,      \* positions a solution may give to the detections
          Mags,       \* magnitudes a photometric solution may give to them
          Clips,      \* clipping thresholds [int, ref], squared
          Times,      \* possible epochs of the fields
          Labels,     \* possible instrument labels [astrom, photom] of the fields
          Photoms,    \* possible sets of fields taken in photometric conditions
          NInstru,    \* number of photometric instruments
          Flags,      \* detections flagged for [astr, phot]
          Roundings   \* what rounding may leave of a chi2 that is zero

Places == DOMAIN Layout
IsRef(p) == Layout[p] = 0
SetOf(p) == {q \in Places : Layout[q] = Layout[p]}
Fields == Range(Layout) \ {0}
NFields == Cardinality(Fields)

\* The places of ordinary detections.
Ordinary == {p \in Places : ~IsRef(p)}

ASSUME LayoutType == Layout \in Seq(Nat) /\ Fields = 1..NFields
ASSUME SkiesType == Skies \subseteq [Places -> Int]
ASSUME LabelsType == Labels \subseteq [astrom : [Fields -> Nat], photom : [Fields -> Nat]]
ASSUME RoundingsType == Roundings \subseteq [Places -> -1..1]
ASSUME TimesType == \A time \in Times : \A f \in Fields : time[f] \in Int
\* Two detections of a set are never at the same latitude: qsort may leave
\* them either way round.
ASSUME SkiesAssumption == \A sky \in Skies : \A p, q \in Places :
    p # q /\ Layout[p] = Layout[q] => sky[p] # sky[q]
\* Epochs are distinct: detections of one epoch have no motion, and what the
\* solver leaves behind of a singular matrix is used (proper.c:586).
ASSUME EpochsAssumption == \A time \in Times : 0 \notin Range(time) /\ IsInjective(time)
\* The sets are gone through field by field.
ASSUME LayoutAssumption == \A p, q \in Places :
    p < q /\ ~IsRef(p) /\ ~IsRef(q) => Layout[p] <= Layout[q]

VARIABLES
    input,     \* time and labels of the fields, flags of the detections,
               \* refflag: whether sources count their reference detection
    sky,       \* where the current solution puts each detection
    x,         \* its projpos (and wcspos), as of the last reprojection
    mag,       \* its magnitude
    who,       \* the detection in each place
    links,     \* [next, prev]: its links, places or 0
    msamp,     \* its source, or 0
    msample,   \* the sources; one is known by the place its detection at the
               \* end of the chain had at the merge (samp)
    at,        \* the step of makeit
    instru, turn, clip,  \* where a clipping pass is, its thresholds
    visit,     \* history: what the last visit of a chain has done
    bad,       \* the detections flagged SCAMP_BADPROPER
    photomflag, photomlink,  \* of the fields: 1 for a photometric one, 2 for a
               \* dummy; whether it is found to be linked to a photometric one
    rows       \* the full catalogue: the detections listed for each source

data == <<sky, x, mag, who>>
pass == <<instru, turn, clip, visit>>
photom == <<photomflag, photomlink>>
vars == <<input, data, links, msamp, msample, at, pass, bad, photom, rows>>

---------------------------------------------------------------------------
(* makeit *)

Steps == [reproj   |-> {"reproj0", "reproj1", "reproj2", "reproj3"},
          cross    |-> {"cross0", "cross1", "cross2", "cross3"},
          solve    |-> {"solve1", "solve2", "solve3"},
          astrclip |-> {"astrclip1", "astrclip2"},
          photsolve |-> {"photsolve1", "photsolve2"},
          mags     |-> {"mags0", "mags1", "mags2"},
          photclip |-> {"photclip1", "photclip2"},
          merge    |-> {"merge1", "merge2"},
          motions  |-> {"motions"},
          write    |-> {"write"},
          end      |-> {"end"}]

Path(steps) == {<<steps[i], steps[i + 1]>> : i \in 1..Len(steps) - 1}

\* Up to the first merge, with SOLVE_ASTROM and SOLVE_PHOTOM, or without.
Calibration ==
    Path(<<"reproj0", "cross0", "solve1", "reproj1", "cross1", "astrclip1",
           "solve2", "reproj2", "cross2", "astrclip2", "photsolve1", "mags1",
           "photclip1", "photsolve2", "mags2", "photclip2", "merge1">>)
    \cup Path(<<"astrclip2", "mags0", "photclip2">>) \cup {<<"cross0", "reproj2">>}

\* After it, with COMPUTE_PROPERMOTIONS or COMPUTE_PARALLAXES, or without.
AfterMerge == Path(<<"merge1", "cross3", "merge2", "motions", "reproj3", "write", "end">>)
              \cup {<<"merge1", "write">>}

\* Defect: the block of lines 459-489 is entered again, its third solution
\* coming last.
MakeitCorrecting == Calibration \cup AfterMerge
                    \cup {<<"merge1", "solve3">>, <<"solve3", "cross3">>}

\* Defect: nothing is reprojected after the second solution.
MakeitUnprojected ==
    AfterMerge \cup (Calibration \ {<<"solve2", "reproj2">>}) \cup {<<"solve2", "cross2">>}

\* The steps of makeit for a group, each with what may follow it.  Lines
\* 459-489 are never reached: the keyword that would set propmotioncorr_flag
\* is commented out (preflist.h:129).
Makeit == Calibration \cup AfterMerge

Doing(op) == at \in Steps[op]

Done == \E step \in Makeit : step[1] = at /\ at' = step[2]

---------------------------------------------------------------------------
(* Chains *)

\* The reference catalogue is of epoch 0.
EpochAt(time, p) == IF IsRef(p) THEN 0 ELSE time[Layout[p]]
Epoch(p) == EpochAt(input.time, p)

\* Detections are linked in the order of their epochs.
Older(time, p, q) == EpochAt(time, p) < EpochAt(time, q)

\* What CrossId_run may leave behind (see CrossId): links lead forwards in
\* time, to one detection from one, and a reference comes first.  Which pairs
\* are near enough is left open.
Linkings ==
    [time \in Times |->
        {n \in [Places -> {0} \cup Ordinary] :
            /\ \A p \in Places : n[p] # 0 => IsRef(p) \/ Older(time, p, n[p])
            /\ \A p, q \in Places : p # q /\ n[p] = n[q] => n[p] = 0}]

Back(n) == [q \in Places |->
               IF \E p \in Places : n[p] = q THEN CHOOSE p \in Places : n[p] = q ELSE 0]

\* p, and what follows it along the links of one direction.
ChainOf(link, p) == LET c[q \in Places] == IF link[q] = 0 THEN <<q>>
                                           ELSE <<q>> \o c[link[q]]
                    IN  c[p]

\* The chain that ends in p, newest detection first.
Chain(p) == ChainOf(links.prev, p)

Detections(p) == {q \in Range(Chain(p)) : ~IsRef(q)}
References(p) == {q \in Range(Chain(p)) : IsRef(q)}

\* "one end of the series of linked detections"
IsEnd(p) == links.next[p] = 0 /\ links.prev[p] # 0

\* Defect: the older neighbour is not told.
WithoutOneSided(q, l) ==
    [next |-> [p \in Places |-> IF p = q THEN 0 ELSE l.next[p]],
     prev |-> [p \in Places |-> CASE p = q -> 0
                                  [] p = l.next[q] -> l.prev[q]
                                  [] OTHER -> l.prev[p]]]

\* Defect: the neighbours are not linked to each other.
WithoutCutting(q, l) ==
    [next |-> [p \in Places |-> IF p \in {q, l.prev[q]} THEN 0 ELSE l.next[p]],
     prev |-> [p \in Places |-> IF p \in {q, l.next[q]} THEN 0 ELSE l.prev[p]]]

\* "Remove (unlink) outlier"
Without(q, l) ==
    [next |-> [p \in Places |-> CASE p = q -> 0
                                  [] p = l.prev[q] -> l.next[q]
                                  [] OTHER -> l.next[p]],
     prev |-> [p \in Places |-> CASE p = q -> 0
                                  [] p = l.next[q] -> l.prev[q]
                                  [] OTHER -> l.prev[p]]]

---------------------------------------------------------------------------
(* The whole group at once *)

NoVisit == [out |-> {}, beyond |-> {}, kept |-> 1]
NoClip == [int |-> 0, ref |-> 0]

\* Some solution puts the detections somewhere.
Init == /\ input \in [time : Times, labels : Labels, flags : Flags, refflag : BOOLEAN]
        /\ sky \in Skies /\ mag \in Mags
        /\ x = [d \in Places |-> 0]
        /\ who = [p \in Places |-> p]
        /\ links = [next |-> [p \in Places |-> 0], prev |-> [p \in Places |-> 0]]
        /\ msamp = [p \in Places |-> 0] /\ msample = <<>>
        /\ at = "reproj0"
        /\ instru = 0 /\ turn = 0 /\ clip = NoClip /\ visit = NoVisit
        /\ bad = {} /\ rows = <<>>
        /\ \E fields \in Photoms : photomflag = [f \in Fields |-> IF f \in fields THEN 1 ELSE 0]
        /\ photomlink = [f \in Fields |-> FALSE]

\* The place whose struct sort_samples moves to p.
SortedFrom(p) == CHOOSE q \in SetOf(p) :
    Cardinality({r \in SetOf(p) : sky[who[r]] < sky[who[q]]})
        = Cardinality({r \in SetOf(p) : r < p})

Sorted(array) == [p \in Places |-> IF IsRef(p) THEN array[p] ELSE array[SortedFrom(p)]]

\* reproj_fgroup: new positions, and every set is sorted.  What is in the
\* structs moves with them; what points to them does not.
Reproject ==
    /\ Doing("reproj") /\ Done
    /\ x' = sky
    /\ who' = Sorted(who)
    /\ links' = [next |-> Sorted(links.next), prev |-> Sorted(links.prev)]
    /\ msamp' = Sorted(msamp)
    /\ UNCHANGED <<input, sky, mag, msample, pass, bad, photom, rows>>

\* CrossId_run: all links are reset, then made anew.
CrossIdentify ==
    /\ Doing("cross") /\ Done
    /\ \E n \in Linkings[input.time] : links' = [next |-> n, prev |-> Back(n)]
    /\ UNCHANGED <<input, data, msamp, msample, pass, bad, photom, rows>>

\* astrsolve_fgroups: a new solution; positions follow at the next
\* reprojection only.
Solve ==
    /\ Doing("solve") /\ Done
    /\ sky' \in Skies
    /\ UNCHANGED <<input, x, mag, who, links, msamp, msample, pass, bad, photom, rows>>

\* The detections after p in its chain, oldest first.
Later(p) == Tail(ChainOf(links.next, p))

\* What the detection in p is linked to, in the order it is looked at.
Neighbours(p) == Later(p) \o Tail(Chain(p))

\* Is q one of a photometric field of the same instrument as f?
Photometric(flag, f, q) == /\ ~IsRef(q) /\ flag[Layout[q]] # 0
                           /\ input.labels.photom[Layout[q]] = input.labels.photom[f]

\* Defect: only older detections are looked at.
OverlapBackwards(flag, f) ==
    LET linked == {p \in Ordinary : /\ Layout[p] = f
                                    /\ \E q \in Range(Tail(Chain(p))) : Photometric(flag, f, q)}
        older == Tail(Chain(Min(linked)))
        first == Min({i \in DOMAIN older : Photometric(flag, f, older[i])})
    IN  IF linked = {} THEN 0 ELSE flag[Layout[older[first]]]

\* check_fieldphotomoverlap: the flag of the first photometric field found in
\* the chains of the detections of f.
Overlap(flag, f) ==
    LET linked == {p \in Ordinary : /\ Layout[p] = f
                                    /\ \E q \in Range(Neighbours(p)) : Photometric(flag, f, q)}
        seen == Neighbours(Min(linked))
        first == Min({i \in DOMAIN seen : Photometric(flag, f, seen[i])})
    IN  IF linked = {} THEN 0 ELSE flag[Layout[seen[first]]]

\* One field: unless it is photometric it is made a dummy if it is linked to no
\* photometric field.  Instruments do not meet here.
Visited(ph, f) ==
    LET photcode == IF ph.flag[f] = 1 THEN 1 ELSE Overlap(ph.flag, f)
    IN  [flag |-> IF photcode = 0 THEN [ph.flag EXCEPT ![f] = 2] ELSE ph.flag,
         link |-> [ph.link EXCEPT ![f] = photcode = 1]]

\* photsolve_fgroups: the fields in their order.
PhotSolve ==
    /\ Doing("photsolve") /\ Done
    /\ LET after[f \in 0..NFields] ==
               IF f = 0 THEN [flag |-> photomflag, link |-> photomlink]
                        ELSE Visited(after[f - 1], f)
       IN  photomflag' = after[NFields].flag /\ photomlink' = after[NFields].link
    /\ UNCHANGED <<input, data, links, msamp, msample, pass, bad, rows>>

\* compmags_fgroup, whatever the zero-points have become.
Magnitudes ==
    /\ Doing("mags") /\ Done
    /\ mag' \in Mags
    /\ UNCHANGED <<input, sky, x, who, links, msamp, msample, pass, bad, photom, rows>>

---------------------------------------------------------------------------
(* Clipping *)

Clipping == Doing("astrclip") \/ Doing("photclip")

\* astrstats_fgroup or photstats_fgroup has set the thresholds: those of the
\* chains of the whole group, so that any may be met with.
StartPass ==
    /\ Clipping /\ turn = 0
    /\ clip' \in Clips
    /\ turn' = 1
    /\ UNCHANGED <<input, data, links, msamp, msample, at, instru, visit, bad, photom, rows>>

\* The next chain ends, among the detections the pass has not been to.
EndsLeft == {p \in Ordinary : p >= turn /\ IsEnd(p)}
End == Min(EndsLeft)

Visiting(op) == /\ Doing(op) /\ turn > 0 /\ EndsLeft # {}
                /\ turn' = End + 1
                /\ UNCHANGED <<input, data, msamp, msample, at, instru, clip, bad, photom, rows>>

\* Is v farther than the threshold from the mean of n values that add up to
\* total?
Beyond(v, n, total, threshold) ==
    LET d == n * v - total IN d * d > n * n * threshold

SumOver(value, set) == MapThenSumSet(LAMBDA q : value[q], set)

\* The outliers of a chain, given the detections the mean is taken of.
Outliers(c, good, value, threshold) ==
    IF Cardinality(good) < 2 THEN {}
    ELSE {q \in c : Beyond(value[q], Cardinality(good), SumOver(value, good), threshold)}

\* A walk along a chain that unlinks outliers has come to the place at: links
\* are the links by then, out has been unlinked, kept has not.
LookedAt(w, beyond) ==
    IF w.at \in beyond THEN [w EXCEPT !.links = Without(w.at, @), !.out = @ \cup {w.at}]
    ELSE [w EXCEPT !.kept = @ \cup {w.at}]

\* Defect: every walk goes on as that of photclip_fgroup does.
PassedCleared(w, beyond, saved) ==
    LET seen == LookedAt(w, beyond)
    IN  IF w.at \notin Ordinary THEN w ELSE [seen EXCEPT !.at = seen.links.prev[w.at]]

\* It goes on, until it meets a reference or nothing, along the link that led
\* back when it got there (saved), or along the one that is there by now.
Passed(w, beyond, saved) ==
    LET seen == LookedAt(w, beyond)
        linked == IF saved THEN w.links ELSE seen.links
    IN  IF w.at \notin Ordinary THEN w ELSE [seen EXCEPT !.at = linked.prev[w.at]]

\* The whole walk, from the end of the chain.
Walked(beyond, saved) ==
    LET after[k \in 0..Len(Layout)] ==
            IF k = 0 THEN [at |-> End, links |-> links, out |-> {}, kept |-> {}]
                     ELSE Passed(after[k - 1], beyond, saved)
    IN  after[Len(Layout)]

\* One chain in astrclip_fgroup.  Flagged detections do not count for the
\* mean, but may be clipped; the reference, if something is linked to it by now,
\* is compared with the mean of what the walk has left.
AstrClip ==
    /\ Visiting("astrclip")
    /\ LET c == Detections(End)
           good == {q \in c : who[q] \notin input.flags.astr}
           value == [q \in Places |-> x[who[q]]]
           beyond == Outliers(c, good, value, clip.int)
           w == Walked(beyond, TRUE)
           meant == IF Cardinality(good) < 2 THEN good ELSE w.kept
           tested == {r \in References(End) : good # {} /\ w.links.next[r] # 0}
           far == {r \in tested : Beyond(value[r], Cardinality(meant),
                                         SumOver(value, meant), clip.ref)}
       IN  /\ links' = FoldSet(Without, w.links, far)
           /\ visit' = [out |-> w.out \cup far, beyond |-> beyond \cup far,
                        kept |-> IF tested = {} THEN 1 ELSE Cardinality(meant)]

\* One chain in photclip_fgroup, for one instrument: an outlier's prevsamp is
\* cleared before it is followed.
PhotClip ==
    /\ Visiting("photclip")
    /\ LET c == {q \in Detections(End) : input.labels.photom[Layout[q]] = instru}
           good == {q \in c : who[q] \notin input.flags.phot}
           value == [q \in Places |-> mag[who[q]]]
           beyond == Outliers(c, good, value, clip.int)
           w == Walked(beyond, FALSE)
       IN  /\ links' = w.links
           /\ visit' = [out |-> w.out, beyond |-> beyond, kept |-> 1]

\* No chain end is left; photclip_fgroup is called for every instrument.
EndPass ==
    /\ Clipping /\ turn > 0 /\ EndsLeft = {}
    /\ IF Doing("photclip") /\ instru + 1 < NInstru
       THEN instru' = instru + 1 /\ UNCHANGED at
       ELSE instru' = 0 /\ Done
    /\ turn' = 0 /\ clip' = NoClip /\ visit' = NoVisit
    /\ UNCHANGED <<input, data, links, msamp, msample, bad, photom, rows>>

---------------------------------------------------------------------------
(* Sources *)

\* The detections of a chain that merge_fgroup counts, and those it uses.
Counted(p) == {q \in Range(Chain(p)) : ~IsRef(q) \/ input.refflag}
Used(p) == {q \in Counted(p) : who[q] \notin input.flags.astr \cup bad}

\* Detections at the end of a chain, or alone.
Tails == {p \in Ordinary : links.next[p] = 0 /\ Used(p) # {}}

\* A source: flagged is its SCAMP_BADPROPER, fit the detections its motion is
\* that of; members is a history of the detections it was made of.
Source(p) == [npos_tot |-> Cardinality(Counted(p)),
              npos_ok |-> Cardinality(Used(p)),
              members |-> [j \in DOMAIN Chain(p) |-> who[Chain(p)[j]]],
              flagged |-> FALSE, fit |-> {}]

\* Defect: the pointers of the previous merge are not cleared.
MergeUncleared ==
    /\ Doing("merge") /\ Done
    /\ msample' = [p \in Tails |-> Source(p)]
    /\ msamp' = [q \in Places |->
          IF \E p \in Tails : q \in Range(Chain(p))
          THEN CHOOSE p \in Tails : q \in Range(Chain(p))
          ELSE msamp[q]]
    /\ UNCHANGED <<input, data, links, pass, bad, photom, rows>>

\* merge_fgroup.
Merge ==
    /\ Doing("merge") /\ Done
    /\ msample' = [p \in Tails |-> Source(p)]
    /\ msamp' = [q \in Places |->
          IF \E p \in Tails : q \in Range(Chain(p))
          THEN CHOOSE p \in Tails : q \in Range(Chain(p))
          ELSE 0]
    /\ UNCHANGED <<input, data, links, pass, bad, photom, rows>>

\* The reference catalogue has the label -1.
AstromLabel(p) == IF IsRef(p) THEN -1 ELSE input.labels.astrom[Layout[p]]

\* What astrprop_solve sees of a chain.  It asks for a label of 0 or more in
\* the fit, but for one that is not 0 in the average (proper.c:521).
Seen(p, rounding) ==
    LET usable(q) == who[q] \notin input.flags.astr
        place(d) == CHOOSE q \in Places : who[q] = d
    IN  [chain |-> [j \in DOMAIN Chain(p) |-> who[Chain(p)[j]]],
         good |-> {who[q] : q \in {r \in Range(Chain(p)) : usable(r) /\
                                       (input.refflag \/ AstromLabel(r) >= 0)}},
         averaged |-> {who[q] : q \in {r \in Range(Chain(p)) : usable(r) /\
                                           (input.refflag \/ AstromLabel(r) # 0)}},
         at |-> [d \in Places |-> [t |-> Epoch(place(d)), x |-> x[d]]],
         rounding |-> rounding]

\* astrprop_fgroup; a detection without a chain has no motion.
ProperMotions ==
    /\ Doing("motions") /\ Done
    /\ \E rounding \in Roundings :
          LET motion == [p \in DOMAIN msample |->
                  IF links.prev[p] = 0
                  THEN [bad |-> {}, flagged |-> FALSE, fit |-> {}]
                  ELSE Motion(Seen(p, rounding), msample[p].npos_ok)]
          IN  /\ msample' = [p \in DOMAIN msample |->
                     [msample[p] EXCEPT !.flagged = motion[p].flagged, !.fit = motion[p].fit]]
              /\ bad' = UNION {motion[p].bad : p \in DOMAIN msample}
    /\ UNCHANGED <<input, data, links, msamp, pass, photom, rows>>

\* writefullcat_fgroup: the chains of the sources, as they are by now.
WriteFull ==
    /\ Doing("write") /\ Done
    /\ rows' = [p \in DOMAIN msample |-> [j \in DOMAIN Chain(p) |-> who[Chain(p)[j]]]]
    /\ UNCHANGED <<input, data, links, msamp, msample, pass, bad, photom>>

Next == \/ Reproject \/ CrossIdentify \/ Solve \/ Magnitudes
        \/ StartPass \/ AstrClip \/ PhotClip \/ EndPass
        \/ PhotSolve \/ Merge \/ ProperMotions \/ WriteFull

Spec == Init /\ [][Next]_vars

---------------------------------------------------------------------------
(* Properties *)

\* Whenever links are followed they are mutual, lead forwards in time, and
\* nothing comes before a reference -- although they pass through two clippings
\* and, at the end, through a sort of the arrays they point into.
LinksUsable == ~Doing("reproj") /\ ~Doing("cross") =>
    \A p, q \in Places :
        /\ links.next[p] = q <=> links.prev[q] = p
        /\ links.next[p] = q => ~IsRef(q) /\ (IsRef(p) \/ Older(input.time, p, q))

\* A pair of detections in one chain.
Linked == {pq \in Ordinary \X Ordinary : pq[2] \in Range(Tail(Chain(pq[1])))}

\* "Removes outliers from cross-identification linked lists"
\* (astrstats.c:437, photsolve.c:676): a detection is taken out of its chain
\* or stays with the others that stay; no chain is cut in two, none joined.
ClipOnlyCuts == [][Clipping =>
    /\ Linked' \subseteq Linked
    /\ \A pq \in Linked \ Linked' : Range(pq) \cap visit'.out # {}
    /\ \A p \in visit'.out : links'.next[p] = 0 /\ links'.prev[p] = 0]_vars

\* The mean a reference detection is compared with is that of at least one
\* detection (astrstats.c:557): when a chain loses all of them, its reference is
\* linked to nothing and is not looked at (astrstats.c:551).
ClipDefined == visit.kept > 0

\* A visit of a chain by astrclip_fgroup leaves none of those it has found too
\* far from the mean linked to anything: the walk gets to all of them, although
\* it unlinks them as it goes (astrstats.c:526).
AstrOutliersGone == Doing("astrclip") =>
    \A q \in visit.beyond : links.next[q] = 0 /\ links.prev[q] = 0

\* The same of photclip_fgroup, whose header says what astrclip_fgroup's says.
PhotOutliersGone == Doing("photclip") =>
    \A q \in visit.beyond : links.next[q] = 0 /\ links.prev[q] = 0

\* "If not, make it a dummy photometric field" (photsolve.c:175): whichever
\* fields are linked, before and after clipping, one that is not photometric is
\* linked to one that is, if only through detections the solution does not use;
\* a dummy is linked to none.
PhotAnchored == at \in {"mags1", "mags2"} => \A f \in Fields :
    LET shared(g) == \E pq \in Linked : {Layout[pq[1]], Layout[pq[2]]} = {f, g}
        photometric == {g \in Fields \ {f} : /\ photomflag[g] # 0 /\ shared(g)
                                               /\ input.labels.photom[g] = input.labels.photom[f]}
    IN  /\ photomflag[f] = 0 => photometric # {}
        /\ photomflag[f] = 2 => photometric = {}

\* Detections are cross-identified, and written, where the latest solution
\* puts them.
FreshPositions == Doing("cross") \/ Doing("write") => x = sky

\* There are sources.
Merged == at \in {"cross3", "merge2", "motions", "reproj3", "write", "end"}

\* A detection is a member of one source at most, of one at least unless it is
\* flagged, and points to that one -- not to a source of an earlier merge, whose
\* array has been freed.
MergedOnce == Merged =>
    /\ \A i, j \in DOMAIN msample :
          i # j => Range(msample[i].members) \cap Range(msample[j].members) = {}
    /\ \A p \in Places :
          /\ \A i \in DOMAIN msample :
                msamp[p] = i <=> who[p] \in Range(msample[i].members)
          /\ msamp[p] = 0 => IsRef(p) \/ who[p] \in input.flags.astr

\* "Each detection is linked to a parent source through to the SOURCE_NUMBER
\* identifier, also present in the merged output catalogue"
\* (doc/src/Output.rst:214): the full catalogue lists under a source the chain
\* that merge_fgroup has made it of, flagged detections and the reference
\* included, and as many detections as the merged catalogue says there are.
CatalogueAgrees == Doing("end") => \A i \in DOMAIN msample :
    /\ rows[i] = msample[i].members
    /\ msample[i].npos_tot = Cardinality({d \in Range(rows[i]) :
                                             ~IsRef(d) \/ input.refflag})

\* "Switch detection to 'bad' state ... Revert detection to 'good' state"
\* (proper.c:348, 363): when the motions are done, a detection is flagged only
\* if its source is, with no more than the few it may lose, and the others
\* still determine the motion.
BadProper == at = "reproj3" => \A i \in DOMAIN msample :
    LET lost == Range(msample[i].members) \cap bad
    IN  /\ msample[i].flagged <=> lost # {}
        /\ lost \cap input.flags.astr = {}
        /\ lost # {} => /\ Cardinality(lost) <= Max({MaxNBad, msample[i].npos_ok \div 5})
                        /\ msample[i].npos_ok - Cardinality(lost) >= 2

\* The motion of a source is that of all its detections that are not flagged
\* (proper.c:363: a trial is undone).
MotionOfGood == at = "reproj3" => \A i \in DOMAIN msample :
    LET good == {d \in Range(msample[i].members) :
                    /\ d \notin input.flags.astr \cup bad
                    /\ ~IsRef(d) \/ input.refflag}
    IN  msample[i].fit \in {{}, good}
============================================================================
