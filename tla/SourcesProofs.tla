---------------------------- MODULE SourcesProofs ----------------------------
(***************************************************************************)
(* For any arrangement of detections, any solutions, epochs, labels and    *)
(* thresholds: what makeit does to the chains of one group of fields.      *)
(*                                                                         *)
(* Positions and the order of the arrays come first.  A sort moves structs *)
(* and not what points to them, so it breaks the links; the last one does  *)
(* not, because the positions it sorts by are those the arrays are sorted  *)
(* by already.  Then chains: links that lead forwards in time make chains  *)
(* without cycles, on which one can go by induction, and unlinking takes   *)
(* out single detections.  Sources are what the chains were at the last    *)
(* merge; the search for bad detections is looked at for one source.       *)
(***************************************************************************)
EXTENDS Sources, FoldLemmas

---------------------------------------------------------------------------
(* The steps of makeit *)

LEMMA Successors ==
  ASSUME Done
  PROVE  /\ at = "reproj0" => at' = "cross0"
         /\ at = "reproj1" => at' = "cross1"
         /\ at = "reproj2" => at' = "cross2"
         /\ at = "reproj3" => at' = "write"
         /\ at = "cross0" => at' \in {"solve1", "reproj2"}
         /\ at = "cross1" => at' = "astrclip1"
         /\ at = "cross2" => at' = "astrclip2"
         /\ at = "cross3" => at' = "merge2"
         /\ at = "solve1" => at' = "reproj1"
         /\ at = "solve2" => at' = "reproj2"
         /\ at # "solve3"
         /\ at = "astrclip1" => at' = "solve2"
         /\ at = "astrclip2" => at' \in {"photsolve1", "mags0"}
         /\ at = "photsolve1" => at' = "mags1"
         /\ at = "photsolve2" => at' = "mags2"
         /\ at = "mags0" => at' = "photclip2"
         /\ at = "mags1" => at' = "photclip1"
         /\ at = "mags2" => at' = "photclip2"
         /\ at = "photclip1" => at' = "photsolve2"
         /\ at = "photclip2" => at' = "merge1"
         /\ at = "merge1" => at' \in {"cross3", "write"}
         /\ at = "merge2" => at' = "motions"
         /\ at = "motions" => at' = "reproj3"
         /\ at = "write" => at' = "end"
<1> DEFINE calibrated ==
      <<"reproj0", "cross0", "solve1", "reproj1", "cross1", "astrclip1",
        "solve2", "reproj2", "cross2", "astrclip2", "photsolve1", "mags1",
        "photclip1", "photsolve2", "mags2", "photclip2", "merge1">>
    unsolved == <<"astrclip2", "mags0", "photclip2">>
    corrected == <<"merge1", "cross3", "merge2", "motions", "reproj3", "write", "end">>
<1>1. \/ \E i \in 1..16 : at = calibrated[i] /\ at' = calibrated[i + 1]
      \/ \E i \in 1..2 : at = unsolved[i] /\ at' = unsolved[i + 1]
      \/ at = "cross0" /\ at' = "reproj2"
      \/ \E i \in 1..6 : at = corrected[i] /\ at' = corrected[i + 1]
      \/ at = "merge1" /\ at' = "write"
  <2>1. PICK step \in Makeit : step[1] = at /\ at' = step[2]
    BY DEF Done
  <2>2. /\ Len(calibrated) - 1 = 16 /\ Len(unsolved) - 1 = 2 /\ Len(corrected) - 1 = 6
    OBVIOUS
  <2>3. CASE step \in Path(calibrated)
    BY <2>1, <2>2, <2>3 DEF Path
  <2>4. CASE step \in Path(unsolved)
    BY <2>1, <2>2, <2>4 DEF Path
  <2>5. CASE step \in Path(corrected)
    BY <2>1, <2>2, <2>5 DEF Path
  <2>6. CASE step \in {<<"cross0", "reproj2">>, <<"merge1", "write">>}
    BY <2>1, <2>6
  <2> HIDE DEF calibrated, unsolved, corrected
  <2> QED BY <2>3, <2>4, <2>5, <2>6 DEF Makeit, Calibration, AfterMerge, calibrated, unsolved, corrected
<1>2. ASSUME NEW i \in 1..16, at = calibrated[i], at' = calibrated[i + 1]
      PROVE  <<at, at'>> \in {<<"reproj0", "cross0">>, <<"cross0", "solve1">>, <<"solve1", "reproj1">>,
                <<"reproj1", "cross1">>, <<"cross1", "astrclip1">>, <<"astrclip1", "solve2">>,
                <<"solve2", "reproj2">>, <<"reproj2", "cross2">>, <<"cross2", "astrclip2">>,
                <<"astrclip2", "photsolve1">>, <<"photsolve1", "mags1">>, <<"mags1", "photclip1">>,
                <<"photclip1", "photsolve2">>, <<"photsolve2", "mags2">>, <<"mags2", "photclip2">>,
                <<"photclip2", "merge1">>}
  <2>1. i \in {1, 2, 3, 4, 5, 6, 7, 8, 9, 10, 11, 12, 13, 14, 15, 16}
    OBVIOUS
  <2> QED BY <1>2, <2>1
<1>3. ASSUME NEW i \in 1..2, at = unsolved[i], at' = unsolved[i + 1]
      PROVE  <<at, at'>> \in {<<"astrclip2", "mags0">>, <<"mags0", "photclip2">>}
  BY <1>3
<1>4. ASSUME NEW i \in 1..6, at = corrected[i], at' = corrected[i + 1]
      PROVE  <<at, at'>> \in {<<"merge1", "cross3">>, <<"cross3", "merge2">>, <<"merge2", "motions">>,
                <<"motions", "reproj3">>, <<"reproj3", "write">>, <<"write", "end">>}
  <2>1. i \in {1, 2, 3, 4, 5, 6}
    OBVIOUS
  <2> QED BY <1>4, <2>1
<1> HIDE DEF calibrated, unsolved, corrected
<1>5. <<at, at'>> \in {<<"reproj0", "cross0">>, <<"cross0", "solve1">>, <<"solve1", "reproj1">>,
          <<"reproj1", "cross1">>, <<"cross1", "astrclip1">>, <<"astrclip1", "solve2">>,
          <<"solve2", "reproj2">>, <<"reproj2", "cross2">>, <<"cross2", "astrclip2">>,
          <<"astrclip2", "photsolve1">>, <<"photsolve1", "mags1">>, <<"mags1", "photclip1">>,
          <<"photclip1", "photsolve2">>, <<"photsolve2", "mags2">>, <<"mags2", "photclip2">>,
          <<"photclip2", "merge1">>, <<"astrclip2", "mags0">>, <<"mags0", "photclip2">>,
          <<"cross0", "reproj2">>, <<"merge1", "cross3">>, <<"cross3", "merge2">>,
          <<"merge2", "motions">>, <<"motions", "reproj3">>, <<"reproj3", "write">>,
          <<"write", "end">>, <<"merge1", "write">>}
  BY <1>1, <1>2, <1>3, <1>4
<1> QED BY <1>5

\* An operation is one of its steps.
LEMMA DoingStep ==
  /\ Doing("reproj") <=> at \in {"reproj0", "reproj1", "reproj2", "reproj3"}
  /\ Doing("cross") <=> at \in {"cross0", "cross1", "cross2", "cross3"}
  /\ Doing("solve") <=> at \in {"solve1", "solve2", "solve3"}
  /\ Doing("astrclip") <=> at \in {"astrclip1", "astrclip2"}
  /\ Doing("photsolve") <=> at \in {"photsolve1", "photsolve2"}
  /\ Doing("mags") <=> at \in {"mags0", "mags1", "mags2"}
  /\ Doing("photclip") <=> at \in {"photclip1", "photclip2"}
  /\ Doing("merge") <=> at \in {"merge1", "merge2"}
  /\ Doing("motions") <=> at = "motions"
  /\ Doing("write") <=> at = "write"
  /\ Doing("end") <=> at = "end"
  BY DEF Doing, Steps

---------------------------------------------------------------------------
(* Positions *)

\* Before a reprojection the positions are not those of the solution; the last
\* one finds them up to date already.
Stale == at \in {"reproj0", "reproj1", "reproj2"}

Located == ~Stale => x = sky

LEMMA InitLocated == Init => Located
  BY DEF Init, Located, Stale

LEMMA NextLocated == Located /\ [Next]_vars => Located'
<1> SUFFICES ASSUME Located, [Next]_vars PROVE Located'
  OBVIOUS
<1>1. CASE Reproject
  BY <1>1 DEF Reproject, Located
<1>2. CASE Solve
  <2>1. at' \in {"reproj1", "reproj2"}
    BY <1>2, DoingStep, Successors DEF Solve
  <2> QED BY <2>1 DEF Located, Stale
<1>3. ASSUME UNCHANGED <<sky, x>>, ~Stale \/ at' = at PROVE Located'
  BY <1>3 DEF Located, Stale
<1>4. CASE CrossIdentify
  BY <1>3, <1>4, DoingStep DEF CrossIdentify, data, Stale
<1>5. CASE Magnitudes
  BY <1>3, <1>5, DoingStep DEF Magnitudes, Stale
<1>6. CASE StartPass
  BY <1>3, <1>6 DEF StartPass, data
<1>7. CASE AstrClip
  BY <1>3, <1>7 DEF AstrClip, Visiting, data
<1>8. CASE PhotClip
  BY <1>3, <1>8 DEF PhotClip, Visiting, data
<1>9. CASE EndPass
  BY <1>3, <1>9, DoingStep DEF EndPass, Clipping, data, Stale
<1>10. CASE PhotSolve
  BY <1>3, <1>10, DoingStep DEF PhotSolve, data, Stale
<1>11. CASE Merge
  BY <1>3, <1>11, DoingStep DEF Merge, data, Stale
<1>12. CASE ProperMotions
  BY <1>3, <1>12, DoingStep DEF ProperMotions, data, Stale
<1>13. CASE WriteFull
  BY <1>3, <1>13, DoingStep DEF WriteFull, data, Stale
<1>14. CASE UNCHANGED vars
  BY <1>3, <1>14 DEF vars, data
<1> QED BY <1>1, <1>2, <1>4, <1>5, <1>6, <1>7, <1>8, <1>9, <1>10, <1>11, <1>12, <1>13,
           <1>14 DEF Next

\* Detections are cross-identified, and written, where the latest solution puts
\* them.
THEOREM FreshPositionsHolds == Spec => []FreshPositions
<1>1. Located => FreshPositions
  BY DoingStep DEF Located, Stale, FreshPositions
<1> QED BY <1>1, InitLocated, NextLocated, PTL DEF Spec

---------------------------------------------------------------------------
(* Visits of the chains *)

\* No chain has been visited when a pass starts.
AtRest == (Clipping /\ turn > 0) \/ (turn = 0 /\ visit = NoVisit)

LEMMA PlacesAre == Places = 1..Len(Layout) /\ Len(Layout) \in Nat
                   /\ Places \subseteq Nat /\ IsFiniteSet(Places) /\ 0 \notin Places
<1>1. Places = 1..Len(Layout) /\ Len(Layout) \in Nat
  BY LayoutType DEF Places
<1>2. IsFiniteSet(1..Len(Layout))
  BY <1>1, FS_Interval
<1> QED BY <1>1, <1>2

LEMMA EndIsPlace ==
  ASSUME EndsLeft # {}
  PROVE  End \in Places /\ ~IsRef(End) /\ IsEnd(End) /\ End \in Nat
<1>1. EndsLeft \subseteq Nat /\ \A p \in EndsLeft : p \in Places /\ ~IsRef(p) /\ IsEnd(p)
  BY PlacesAre DEF EndsLeft, Ordinary
<1>2. End \in EndsLeft
  BY <1>1, MinInSet DEF End
<1> QED BY <1>1, <1>2

LEMMA NextVisit == AtRest /\ [Next]_vars => AtRest'
<1> SUFFICES ASSUME AtRest, [Next]_vars PROVE AtRest'
  OBVIOUS
<1>1. ASSUME ~Clipping, UNCHANGED pass PROVE AtRest'
  <2>1. turn' = turn /\ visit' = visit
    BY <1>1 DEF pass
  <2>2. turn' = 0 /\ visit' = NoVisit
    BY <1>1, <2>1 DEF AtRest
  <2> QED BY <2>2 DEF AtRest
<1>2. CASE StartPass
  <2>1. at' = at /\ turn' = 1 /\ Clipping
    BY <1>2 DEF StartPass
  <2> QED BY <2>1 DEF AtRest, Clipping, Doing
<1>3. CASE EndPass
  BY <1>3 DEF EndPass, AtRest
<1>4. ASSUME NEW op \in {"astrclip", "photclip"}, Visiting(op) PROVE AtRest'
  <2>1. at' = at /\ turn' = End + 1 /\ Clipping /\ End \in Nat
    BY <1>4, EndIsPlace DEF Visiting, Clipping
  <2> QED BY <2>1 DEF AtRest, Clipping, Doing
<1>5. CASE AstrClip
  BY <1>4, <1>5 DEF AstrClip
<1>6. CASE PhotClip
  BY <1>4, <1>6 DEF PhotClip
<1>7. CASE Reproject
  BY <1>1, <1>7, DoingStep DEF Reproject, Clipping
<1>8. CASE CrossIdentify
  BY <1>1, <1>8, DoingStep DEF CrossIdentify, Clipping
<1>9. CASE Solve
  BY <1>1, <1>9, DoingStep DEF Solve, Clipping
<1>10. CASE Magnitudes
  BY <1>1, <1>10, DoingStep DEF Magnitudes, Clipping
<1>11. CASE PhotSolve
  BY <1>1, <1>11, DoingStep DEF PhotSolve, Clipping
<1>12. CASE Merge
  BY <1>1, <1>12, DoingStep DEF Merge, Clipping
<1>13. CASE ProperMotions
  BY <1>1, <1>13, DoingStep DEF ProperMotions, Clipping
<1>14. CASE WriteFull
  BY <1>1, <1>14, DoingStep DEF WriteFull, Clipping
<1>15. CASE UNCHANGED vars
  <2>1. UNCHANGED <<at, turn, visit>>
    BY <1>15 DEF vars, pass
  <2> QED BY <2>1 DEF AtRest, Clipping, Doing
<1> QED BY <1>2, <1>3, <1>5, <1>6, <1>7, <1>8, <1>9, <1>10, <1>11, <1>12, <1>13, <1>14, <1>15
        DEF Next

LEMMA InitVisit == Init => AtRest
  BY DEF Init, AtRest

---------------------------------------------------------------------------
(* The order of the arrays *)

\* Every detection is in one place, among those of its set.
Arranged == /\ who \in [Places -> Places]
            /\ \A p \in Places : Layout[who[p]] = Layout[p]
            /\ \A p, q \in Places : who[p] = who[q] => p = q
            /\ sky \in Skies

\* The places of a set are in the order of the positions.
InOrder == \A p, q \in Places :
    p < q /\ Layout[p] = Layout[q] /\ ~IsRef(p) => sky[who[p]] < sky[who[q]]

Where(S) == [r \in S |-> sky[who[r]]]
Index(S) == [r \in S |-> r]

\* What SortedFrom compares.
LEMMA SetRanks ==
  ASSUME Arranged, NEW p \in Places
  PROVE  LET S == SetOf(p) IN
         /\ S \subseteq Places /\ IsFiniteSet(S) /\ p \in S
         /\ Where(S) \in [S -> Int]
         /\ \A a, b \in S : Where(S)[a] = Where(S)[b] => a = b
         /\ Index(S) \in [S -> Int]
         /\ \A a, b \in S : Index(S)[a] = Index(S)[b] => a = b
         /\ \A q \in S : Cardinality({r \in S : sky[who[r]] < sky[who[q]]})
                             = RankIn(S, Where(S), q)
         /\ Cardinality({r \in S : r < p}) = RankIn(S, Index(S), p)
<1> DEFINE S == SetOf(p)
<1>1. S \subseteq Places /\ p \in S /\ \A q \in S : Layout[q] = Layout[p]
  BY DEF SetOf
<1>2. IsFiniteSet(S)
  BY <1>1, PlacesAre, FS_Subset
<1>3. \A r \in Places : who[r] \in Places /\ sky[who[r]] \in Int
  BY SkiesType DEF Arranged
<1>4. ASSUME NEW a \in S, NEW b \in S, sky[who[a]] = sky[who[b]] PROVE a = b
  <2>1. who[a] \in Places /\ who[b] \in Places /\ Layout[who[a]] = Layout[who[b]]
    BY <1>1 DEF Arranged
  <2>2. who[a] = who[b]
    BY <1>4, <2>1, SkiesAssumption DEF Arranged
  <2> QED BY <1>1, <2>2 DEF Arranged
<1> HIDE DEF S
<1>5. Where(S) \in [S -> Int] /\ \A a, b \in S : Where(S)[a] = Where(S)[b] => a = b
  BY <1>1, <1>3, <1>4 DEF Where
<1>6. Index(S) \in [S -> Int] /\ \A a, b \in S : Index(S)[a] = Index(S)[b] => a = b
  BY <1>1, PlacesAre DEF Index
<1>7. ASSUME NEW q \in S
      PROVE  Cardinality({r \in S : sky[who[r]] < sky[who[q]]}) = RankIn(S, Where(S), q)
  <2>1. {r \in S : sky[who[r]] < sky[who[q]]} = {r \in S : Where(S)[r] < Where(S)[q]}
    BY DEF Where
  <2> QED BY <2>1 DEF RankIn
<1>8. Cardinality({r \in S : r < p}) = RankIn(S, Index(S), p)
  <2>1. {r \in S : r < p} = {r \in S : Index(S)[r] < Index(S)[p]}
    BY <1>1 DEF Index
  <2> QED BY <2>1 DEF RankIn
<1> QED BY <1>1, <1>2, <1>5, <1>6, <1>7, <1>8 DEF S

\* A struct of the right rank is found for every place.
LEMMA SortedFromFound ==
  ASSUME Arranged, NEW p \in Places
  PROVE  /\ SortedFrom(p) \in SetOf(p)
         /\ RankIn(SetOf(p), Where(SetOf(p)), SortedFrom(p))
                = RankIn(SetOf(p), Index(SetOf(p)), p)
<1> DEFINE S == SetOf(p)
<1>1. /\ IsFiniteSet(S) /\ p \in S /\ Where(S) \in [S -> Int] /\ Index(S) \in [S -> Int]
      /\ \A a, b \in S : Where(S)[a] = Where(S)[b] => a = b
  BY SetRanks
<1>2. /\ \A q \in S : Cardinality({r \in S : sky[who[r]] < sky[who[q]]})
                          = RankIn(S, Where(S), q)
      /\ Cardinality({r \in S : r < p}) = RankIn(S, Index(S), p)
  BY SetRanks
<1>3. SortedFrom(p) = CHOOSE q \in S :
          Cardinality({r \in S : sky[who[r]] < sky[who[q]]}) = Cardinality({r \in S : r < p})
  BY DEF SortedFrom
<1> HIDE DEF S
<1>4. RankIn(S, Index(S), p) \in Nat /\ RankIn(S, Index(S), p) < Cardinality(S)
  BY <1>1, RankBound
<1>5. \E q \in S : RankIn(S, Where(S), q) = RankIn(S, Index(S), p)
  BY <1>1, <1>4, RankOnto
<1>6. \E q \in S : Cardinality({r \in S : sky[who[r]] < sky[who[q]]})
                       = Cardinality({r \in S : r < p})
  BY <1>2, <1>5
<1>7. /\ SortedFrom(p) \in S
      /\ Cardinality({r \in S : sky[who[r]] < sky[who[SortedFrom(p)]]})
             = Cardinality({r \in S : r < p})
  BY <1>3, <1>6
<1>8. RankIn(S, Where(S), SortedFrom(p)) = RankIn(S, Index(S), p)
  BY <1>2, <1>7
<1> QED BY <1>7, <1>8 DEF S

\* Arrays that are in order stay as they are.
LEMMA SortedFromItself ==
  ASSUME Arranged, InOrder, NEW p \in Places, ~IsRef(p)
  PROVE  SortedFrom(p) = p
<1> DEFINE S == SetOf(p)
<1>1. /\ S \subseteq Places /\ IsFiniteSet(S) /\ p \in S /\ Where(S) \in [S -> Int]
      /\ \A a, b \in S : Where(S)[a] = Where(S)[b] => a = b
  BY SetRanks
<1>2. \A r \in S : Layout[r] = Layout[p] /\ ~IsRef(r) /\ sky[who[r]] \in Int /\ r \in Nat
  BY PlacesAre, SkiesType DEF Arranged, SetOf, IsRef
<1>3. \A r \in S : sky[who[r]] < sky[who[p]] <=> r < p
  <2> SUFFICES ASSUME NEW r \in S PROVE sky[who[r]] < sky[who[p]] <=> r < p
    OBVIOUS
  <2>1. r < p => sky[who[r]] < sky[who[p]]
    BY <1>1, <1>2 DEF InOrder
  <2>2. p < r => sky[who[p]] < sky[who[r]]
    BY <1>1, <1>2 DEF InOrder
  <2> HIDE DEF S
  <2> QED BY <1>1, <1>2, <2>1, <2>2
<1>4. RankIn(S, Where(S), p) = RankIn(S, Index(S), p)
  <2>1. {r \in S : Where(S)[r] < Where(S)[p]} = {r \in S : Index(S)[r] < Index(S)[p]}
    <3> HIDE DEF S
    <3> QED BY <1>1, <1>3 DEF Where, Index
  <2> QED BY <2>1 DEF RankIn
<1>5. SortedFrom(p) \in S /\ RankIn(S, Where(S), SortedFrom(p)) = RankIn(S, Index(S), p)
  BY SortedFromFound
<1> HIDE DEF S
<1> QED BY <1>1, <1>4, <1>5, RankUnique

\* A sort puts the arrays in order.
LEMMA SortOrders ==
  ASSUME Arranged, UNCHANGED sky, who' = Sorted(who)
  PROVE  Arranged' /\ InOrder'
<1>1. ASSUME NEW p \in Places, NEW q \in Places, ~IsRef(p), Layout[p] = Layout[q]
      PROVE  /\ SetOf(p) = SetOf(q) /\ SortedFrom(p) \in Places /\ ~IsRef(q)
             /\ Layout[SortedFrom(p)] = Layout[p]
             /\ SortedFrom(p) = SortedFrom(q) => p = q
             /\ p < q => sky[who[SortedFrom(p)]] < sky[who[SortedFrom(q)]]
  <2> DEFINE S == SetOf(p)
             a == SortedFrom(p)
             b == SortedFrom(q)
  <2>1. SetOf(p) = SetOf(q) /\ ~IsRef(q)
    BY <1>1 DEF SetOf, IsRef
  <2>2. /\ IsFiniteSet(S) /\ p \in S /\ q \in S /\ S \subseteq Places
        /\ Where(S) \in [S -> Int] /\ Index(S) \in [S -> Int]
        /\ \A r, s \in S : Index(S)[r] = Index(S)[s] => r = s
    BY <2>1, SetRanks
  <2>3. /\ a \in S /\ RankIn(S, Where(S), a) = RankIn(S, Index(S), p)
        /\ b \in S /\ RankIn(S, Where(S), b) = RankIn(S, Index(S), q)
    BY <2>1, SortedFromFound
  <2>4. Layout[a] = Layout[p]
    BY <2>3 DEF SetOf
  <2> HIDE DEF S, a, b
  <2>5. ASSUME a = b PROVE p = q
    <3>1. RankIn(S, Index(S), p) = RankIn(S, Index(S), q)
      BY <2>3, <2>5
    <3> HIDE DEF Index
    <3> QED BY <2>2, <3>1, RankUnique
  <2>6. ASSUME p < q PROVE sky[who[a]] < sky[who[b]]
    <3>1. RankIn(S, Index(S), p) < RankIn(S, Index(S), q)
      <4>1. Index(S)[p] < Index(S)[q]
        BY <2>2, <2>6 DEF Index
      <4> QED BY <2>2, <4>1, RankOrder
    <3>2. /\ RankIn(S, Where(S), a) \in Nat /\ RankIn(S, Where(S), b) \in Nat
          /\ Where(S)[a] \in Int /\ Where(S)[b] \in Int
      BY <2>2, <2>3, RankBound
    <3>3. ~(Where(S)[b] < Where(S)[a])
      <4>1. ASSUME Where(S)[b] < Where(S)[a] PROVE FALSE
        <5>1. RankIn(S, Where(S), b) < RankIn(S, Where(S), a)
          BY <2>2, <2>3, <4>1, RankOrder
        <5> QED BY <2>3, <3>1, <3>2, <5>1
      <4> QED BY <4>1
    <3>4. Where(S)[a] # Where(S)[b]
      <4>1. a # b
        BY <2>3, <3>1, <3>2
      <4>2. \A r, s \in S : Where(S)[r] = Where(S)[s] => r = s
        BY SetRanks DEF S
      <4> QED BY <2>3, <4>1, <4>2
    <3>5. Where(S)[a] < Where(S)[b]
      BY <3>2, <3>3, <3>4
    <3> QED BY <2>3, <3>5 DEF Where
  <2> QED BY <2>1, <2>2, <2>3, <2>4, <2>5, <2>6 DEF a, b, S
<1>2. \A p \in Places : who'[p] = IF IsRef(p) THEN who[p] ELSE who[SortedFrom(p)]
  BY DEF Sorted
<1>3. \A p \in Places : ~IsRef(p) => SortedFrom(p) \in Places /\ Layout[SortedFrom(p)] = Layout[p]
  BY <1>1
<1>4. who' \in [Places -> Places] /\ \A p \in Places : Layout[who'[p]] = Layout[p]
  BY <1>2, <1>3 DEF Arranged, Sorted
<1>5. ASSUME NEW p \in Places, NEW q \in Places, who'[p] = who'[q] PROVE p = q
  <2>1. Layout[p] = Layout[q]
    BY <1>4, <1>5
  <2>2. CASE IsRef(p)
    BY <1>2, <1>5, <2>1, <2>2 DEF IsRef, Arranged
  <2>3. CASE ~IsRef(p)
    <3>1. /\ ~IsRef(q) /\ SortedFrom(p) \in Places /\ SortedFrom(q) \in Places
          /\ SortedFrom(p) = SortedFrom(q) => p = q
      BY <1>1, <2>1, <2>3
    <3> QED BY <1>2, <1>5, <2>3, <3>1 DEF Arranged
  <2> QED BY <2>2, <2>3
<1>6. Arranged'
  BY <1>4, <1>5 DEF Arranged
<1>7. InOrder'
  <2> SUFFICES ASSUME NEW p \in Places, NEW q \in Places,
                      p < q, Layout[p] = Layout[q], ~IsRef(p)
               PROVE  sky'[who'[p]] < sky'[who'[q]]
    BY DEF InOrder
  <2> QED BY <1>1, <1>2
<1> QED BY <1>6, <1>7

---------------------------------------------------------------------------
(* The order of the detections of a chain *)

Timed == input.time \in Times

\* May p be linked to q?
Before(p, q) == ~IsRef(q) /\ (IsRef(p) \/ Older(input.time, p, q))

LEMMA BeforeOrder ==
  ASSUME Timed
  PROVE  \A p, q, r \in Places : /\ ~Before(p, p)
                                 /\ Before(p, q) /\ Before(q, r) => Before(p, r)
<1>1. ASSUME NEW p \in Places PROVE EpochAt(input.time, p) \in Int
  <2>1. CASE IsRef(p)
    BY <2>1 DEF EpochAt
  <2>2. CASE ~IsRef(p)
    <3>1. Layout[p] \in Range(Layout) \ {0}
      BY <2>2 DEF IsRef, Range, Places
    <3> QED BY <2>2, <3>1, TimesType DEF EpochAt, Fields, Timed
  <2> QED BY <2>1, <2>2
<1> QED BY <1>1 DEF Before, Older

\* A number that grows along every chain.
Depth(p) == Cardinality({q \in Places : Before(q, p)})

LEMMA DepthGrows ==
  ASSUME Timed
  PROVE  /\ \A p \in Places : Depth(p) \in Nat /\ Depth(p) <= Cardinality(Places)
         /\ \A p, q \in Places : Before(p, q) => Depth(p) < Depth(q)
<1> DEFINE earlier(p) == {q \in Places : Before(q, p)}
<1>1. \A p \in Places : /\ IsFiniteSet(earlier(p)) /\ Cardinality(earlier(p)) \in Nat
                        /\ Cardinality(earlier(p)) <= Cardinality(Places)
  <2> SUFFICES ASSUME NEW p \in Places
               PROVE  /\ IsFiniteSet(earlier(p)) /\ Cardinality(earlier(p)) \in Nat
                      /\ Cardinality(earlier(p)) <= Cardinality(Places)
    OBVIOUS
  <2>1. earlier(p) \in SUBSET Places
    OBVIOUS
  <2> HIDE DEF earlier
  <2> QED BY <2>1, PlacesAre, FS_Subset, FS_CardinalityType
<1>2. ASSUME NEW p \in Places, NEW q \in Places, Before(p, q)
      PROVE  Cardinality(earlier(p)) < Cardinality(earlier(q))
  <2>1. p \in earlier(q) /\ p \notin earlier(p) /\ earlier(p) \subseteq earlier(q)
    BY <1>2, BeforeOrder
  <2> HIDE DEF earlier
  <2>2. /\ IsFiniteSet(earlier(q)) /\ Cardinality(earlier(q)) \in Nat
        /\ Cardinality(earlier(p)) \in Nat
    BY <1>1
  <2>3. /\ Cardinality(earlier(p)) <= Cardinality(earlier(q))
        /\ Cardinality(earlier(q)) = Cardinality(earlier(p)) => earlier(q) = earlier(p)
    BY <2>1, <2>2, FS_Subset
  <2> QED BY <2>1, <2>2, <2>3
<1> QED BY <1>1, <1>2 DEF Depth

\* What passes from the places less deep to a place holds of all.
LEMMA DepthInduction ==
  ASSUME NEW d, \A p \in Places : d[p] \in Nat, NEW G,
         \A p \in Places : (\A q \in Places : d[q] < d[p] => q \in G) => p \in G
  PROVE  \A p \in Places : p \in G
<1> DEFINE Good == {n \in Nat : \A p \in Places : d[p] < n => p \in G}
<1>1. 0 \in Good
  OBVIOUS
<1>2. ASSUME NEW n \in Nat, n \in Good PROVE n + 1 \in Good
  <2> SUFFICES ASSUME NEW p \in Places, d[p] < n + 1 PROVE p \in G
    OBVIOUS
  <2>1. \A q \in Places : d[q] < d[p] => q \in G
    BY <1>2
  <2> QED BY <2>1
<1> HIDE DEF Good
<1>3. \A n \in Nat : n \in Good
  BY <1>1, <1>2, NumberInduction
<1>4. ASSUME NEW p \in Places PROVE p \in G
  <2>1. d[p] + 1 \in Good /\ d[p] < d[p] + 1
    BY <1>3
  <2> QED BY <2>1 DEF Good
<1> QED BY <1>4

---------------------------------------------------------------------------
(* Chains *)

LEMMA ChainRecursion ==
  ASSUME NEW prev \in [Places -> {0} \cup Places], NEW d \in [Places -> Nat],
         \A p \in Places : prev[p] # 0 => d[prev[p]] < d[p]
  PROVE  \E c \in [Places -> Seq(Places)] :
             c = [p \in Places |-> IF prev[p] = 0 THEN <<p>> ELSE <<p>> \o c[prev[p]]]
<1> DEFINE upto(n) == {p \in Places : d[p] < n}
           step(c, p) == IF prev[p] = 0 THEN <<p>> ELSE <<p>> \o c[prev[p]]
           Good == {n \in Nat : \E c \in [upto(n) -> Seq(Places)] :
                                    c = [p \in upto(n) |-> step(c, p)]}
<1>0. \A p \in Places : prev[p] # 0 => prev[p] \in Places /\ d[prev[p]] \in Nat /\ d[p] \in Nat
  OBVIOUS
<1>1. 0 \in Good
  <2> DEFINE none == [p \in {} |-> <<>>]
  <2>1. upto(0) = {}
    OBVIOUS
  <2>2. none \in [upto(0) -> Seq(Places)] /\ none = [p \in upto(0) |-> step(none, p)]
    BY <2>1
  <2> HIDE DEF none
  <2> QED BY <2>2
<1>2. ASSUME NEW n \in Nat, n \in Good PROVE n + 1 \in Good
  <2>1. PICK c \in [upto(n) -> Seq(Places)] : c = [p \in upto(n) |-> step(c, p)]
    BY <1>2
  <2> DEFINE e == [p \in upto(n + 1) |-> step(c, p)]
  <2>2. ASSUME NEW p \in upto(n + 1), prev[p] # 0
        PROVE  prev[p] \in upto(n) /\ prev[p] \in upto(n + 1)
    <3>1. prev[p] \in Places /\ d[prev[p]] < d[p] /\ d[p] < n + 1 /\ d[p] \in Nat /\ d[prev[p]] \in Nat
      BY <1>0, <2>2
    <3>2. d[prev[p]] < n
      BY <3>1
    <3> QED BY <3>1, <3>2
  <2>3. ASSUME NEW p \in upto(n + 1) PROVE e[p] = step(e, p) /\ e[p] \in Seq(Places)
    <3>1. CASE prev[p] = 0
      <4>1. <<p>> \in Seq(Places)
        OBVIOUS
      <4> QED BY <3>1, <4>1
    <3>2. CASE prev[p] # 0
      <4>1. prev[p] \in upto(n) /\ prev[p] \in upto(n + 1)
        BY <2>2, <3>2
      <4>2. c[prev[p]] = step(c, prev[p]) /\ c[prev[p]] \in Seq(Places)
        BY <2>1, <4>1
      <4>3. e[prev[p]] = step(c, prev[p])
        BY <4>1
      <4>4. e[p] = <<p>> \o c[prev[p]]
        BY <3>2
      <4>5. step(e, p) = <<p>> \o e[prev[p]]
        BY <3>2
      <4>6. <<p>> \o c[prev[p]] \in Seq(Places)
        <5>1. <<p>> \in Seq(Places)
          OBVIOUS
        <5> QED BY <4>2, <5>1
      <4> HIDE DEF e, step
      <4> QED BY <4>2, <4>3, <4>4, <4>5, <4>6
    <3> QED BY <3>1, <3>2
  <2>4. e = [p \in upto(n + 1) |-> step(e, p)]
    BY <2>3
  <2>5. e \in [upto(n + 1) -> Seq(Places)]
    BY <2>3
  <2> HIDE DEF e, step, upto
  <2> QED BY <2>4, <2>5
<1>3. \A n \in Nat : n \in Good
  <2> HIDE DEF Good
  <2> QED BY <1>1, <1>2, NumberInduction
<1>4. \E n \in Nat : upto(n) = Places
  <2> DEFINE depths == {d[p] : p \in Places}
  <2>1. \E n \in Nat : \A p \in Places : d[p] < n
    <3> DEFINE Bounded == {k \in Nat : \E n \in Nat : \A p \in Places : p <= k => d[p] < n}
    <3>1. 0 \in Bounded
      BY PlacesAre
    <3>2. ASSUME NEW k \in Nat, k \in Bounded PROVE k + 1 \in Bounded
      <4>1. PICK n \in Nat : \A p \in Places : p <= k => d[p] < n
        BY <3>2
      <4>2. CASE k + 1 \in Places
        <5> DEFINE m == n + d[k + 1] + 1
        <5>1. m \in Nat /\ n < m /\ d[k + 1] < m
          BY <4>2
        <5>2. \A p \in Places : p <= k + 1 => d[p] < m
          <6> SUFFICES ASSUME NEW p \in Places, p <= k + 1 PROVE d[p] < m
            OBVIOUS
          <6>1. p \in Nat /\ d[p] \in Nat
            BY PlacesAre
          <6> HIDE DEF m
          <6>2. p <= k \/ p = k + 1
            BY <6>1
          <6> QED BY <4>1, <5>1, <6>1, <6>2
        <5> HIDE DEF m
        <5> QED BY <5>1, <5>2
      <4>3. CASE k + 1 \notin Places
        <5>1. \A p \in Places : p <= k + 1 => p <= k
          BY <4>3, PlacesAre
        <5> QED BY <4>1, <5>1
      <4> QED BY <4>2, <4>3
    <3> HIDE DEF Bounded
    <3>3. \A k \in Nat : k \in Bounded
      BY <3>1, <3>2, NumberInduction
    <3>4. Len(Layout) \in Bounded /\ \A p \in Places : p <= Len(Layout)
      BY <3>3, PlacesAre
    <3> QED BY <3>4 DEF Bounded
  <2> QED BY <2>1
<1>5. PICK n \in Nat : upto(n) = Places
  BY <1>4
<1>6. \E c \in [upto(n) -> Seq(Places)] : c = [p \in upto(n) |-> step(c, p)]
  BY <1>3
<1> HIDE DEF upto
<1> QED BY <1>5, <1>6

\* Links that lead to smaller and smaller numbers lead to an end.
LEMMA WalkStep ==
  ASSUME NEW link \in [Places -> {0} \cup Places], NEW d \in [Places -> Nat],
         \A p \in Places : link[p] # 0 => d[link[p]] < d[p], NEW p \in Places
  PROVE  /\ ChainOf(link, p) \in Seq(Places)
         /\ ChainOf(link, p) = IF link[p] = 0 THEN <<p>> ELSE <<p>> \o ChainOf(link, link[p])
<1> DEFINE Solves(c) == c = [q \in Places |-> IF link[q] = 0 THEN <<q>> ELSE <<q>> \o c[link[q]]]
           sol == CHOOSE c : Solves(c)
<1>1. \A q \in Places : link[q] # 0 => link[q] \in Places
  OBVIOUS
<1>2. PICK c \in [Places -> Seq(Places)] : Solves(c)
  BY ChainRecursion
<1>3. Solves(sol)
  BY <1>2
<1>4. \A q \in Places : ChainOf(link, q) = sol[q]
  BY DEF ChainOf
<1>5. \A q \in Places : sol[q] = IF link[q] = 0 THEN <<q>> ELSE <<q>> \o sol[link[q]]
  <2> HIDE DEF sol
  <2> QED BY <1>3
<1> HIDE DEF sol, Solves
<1>6. \A q \in Places : sol[q] \in Seq(Places)
  <2> DEFINE G == {q \in Places : sol[q] \in Seq(Places)}
  <2>1. ASSUME NEW q \in Places, \A r \in Places : d[r] < d[q] => r \in G PROVE q \in G
    <3>1. <<q>> \in Seq(Places)
      OBVIOUS
    <3>2. CASE link[q] = 0
      BY <1>5, <3>1, <3>2
    <3>3. CASE link[q] # 0
      <4>1. sol[link[q]] \in Seq(Places)
        BY <1>1, <2>1, <3>3
      <4>2. <<q>> \o sol[link[q]] \in Seq(Places)
        BY <3>1, <4>1
      <4> QED BY <1>5, <3>3, <4>2
    <3> QED BY <3>2, <3>3
  <2> HIDE DEF G
  <2>2. \A q \in Places : q \in G
    BY <2>1, DepthInduction
  <2> QED BY <2>2 DEF G
<1> QED BY <1>1, <1>4, <1>5, <1>6

\* Links as LinksUsable wants them.
Usable(l) ==
    /\ l = [next |-> l.next, prev |-> l.prev]
    /\ l.next \in [Places -> {0} \cup Places]
    /\ l.prev \in [Places -> {0} \cup Places]
    /\ \A p, q \in Places : l.next[p] = q <=> l.prev[q] = p
    /\ \A p, q \in Places : l.next[p] = q => Before(p, q)

\* The detections of the chain that ends in p, and those before p.
Members(l, p) == Range(ChainOf(l.prev, p))
Past(l, p) == Range(Tail(ChainOf(l.prev, p)))

LEMMA RangeCons ==
  ASSUME NEW T, NEW e \in T, NEW s \in Seq(T)
  PROVE  /\ <<e>> \o s \in Seq(T)
         /\ Range(<<e>> \o s) = {e} \cup Range(s)
         /\ Tail(<<e>> \o s) = s
<1>1. <<e>> \in Seq(T)
  OBVIOUS
<1>2. <<e>> \o s \in Seq(T) /\ Len(<<e>> \o s) = Len(s) + 1 /\ Len(s) \in Nat
  BY <1>1
<1>3. (<<e>> \o s)[1] = e /\ \A i \in 1..Len(s) : (<<e>> \o s)[i + 1] = s[i]
  BY <1>1, <1>2
<1> DEFINE t == <<e>> \o s
<1>4. t \in Seq(T) /\ Len(t) = Len(s) + 1 /\ t[1] = e /\ \A i \in 1..Len(s) : t[i + 1] = s[i]
  BY <1>2, <1>3
<1> HIDE DEF t
<1>5. Range(t) = {e} \cup Range(s)
  <2>1. \A i \in 1..Len(t) : i = 1 \/ (i - 1 \in 1..Len(s) /\ t[i] = s[i - 1])
    <3>1. \A i \in 1..Len(t) : i = 1 \/ (i - 1 \in 1..Len(s) /\ (i - 1) + 1 = i)
      BY <1>2, <1>4
    <3> QED BY <1>4, <3>1
  <2>2. \A i \in 1..Len(s) : i + 1 \in 1..Len(t)
    BY <1>2, <1>4
  <2>3. 1 \in 1..Len(t) /\ DOMAIN t = 1..Len(t) /\ DOMAIN s = 1..Len(s)
    BY <1>2, <1>4
  <2>4. ASSUME NEW y \in Range(t) PROVE y \in {e} \cup Range(s)
    <3>1. PICK i \in 1..Len(t) : y = t[i]
      BY <2>3 DEF Range
    <3>2. i = 1 \/ (i - 1 \in DOMAIN s /\ t[i] = s[i - 1])
      BY <2>1, <2>3
    <3>3. CASE i = 1
      BY <1>4, <3>1, <3>3
    <3>4. CASE i # 1
      BY <3>1, <3>2, <3>4 DEF Range
    <3> QED BY <3>3, <3>4
  <2>5. ASSUME NEW y \in Range(s) PROVE y \in Range(t)
    <3>1. PICK i \in 1..Len(s) : y = s[i]
      BY <2>3 DEF Range
    <3>2. i + 1 \in DOMAIN t /\ t[i + 1] = y
      BY <1>4, <2>2, <2>3, <3>1
    <3> QED BY <3>2 DEF Range
  <2>6. e \in Range(t)
    BY <1>4, <2>3 DEF Range
  <2> QED BY <2>4, <2>5, <2>6
<1>6. Tail(t) = s
  <2>1. Tail(t) \in Seq(T) /\ Len(Tail(t)) = Len(s) /\ \A i \in 1..Len(s) : Tail(t)[i] = t[i + 1]
    BY <1>2, <1>4
  <2> QED BY <1>4, <2>1
<1> QED BY <1>2, <1>5, <1>6 DEF t

LEMMA RangeConcat ==
  ASSUME NEW T, NEW s \in Seq(T), NEW t \in Seq(T)
  PROVE  s \o t \in Seq(T) /\ Range(s \o t) = Range(s) \cup Range(t)
<1>1. /\ Len(s) \in Nat /\ Len(t) \in Nat /\ Len(s \o t) = Len(s) + Len(t)
      /\ DOMAIN s = 1..Len(s) /\ DOMAIN t = 1..Len(t) /\ DOMAIN (s \o t) = 1..Len(s \o t)
  OBVIOUS
<1>2. \A i \in 1..Len(s) : (s \o t)[i] = s[i]
  OBVIOUS
<1>3. \A i \in 1..Len(t) : (s \o t)[Len(s) + i] = t[i]
  OBVIOUS
<1> DEFINE u == s \o t
<1>4. u \in Seq(T)
  OBVIOUS
<1>5. DOMAIN u = 1..Len(s) + Len(t)
  BY <1>1
<1> HIDE DEF u
<1>6. ASSUME NEW y \in Range(u) PROVE y \in Range(s) \cup Range(t)
  <2>1. PICK i \in 1..Len(s) + Len(t) : y = u[i]
    BY <1>5 DEF Range
  <2>2. CASE i \in 1..Len(s)
    BY <1>1, <1>2, <2>1, <2>2 DEF Range, u
  <2>3. CASE i \notin 1..Len(s)
    <3>1. i - Len(s) \in 1..Len(t) /\ Len(s) + (i - Len(s)) = i
      BY <1>1, <2>3
    <3>2. y = t[i - Len(s)]
      BY <1>3, <2>1, <3>1 DEF u
    <3> QED BY <1>1, <3>1, <3>2 DEF Range
  <2> QED BY <2>2, <2>3
<1>7. ASSUME NEW y \in Range(s) PROVE y \in Range(u)
  <2>1. PICK i \in 1..Len(s) : y = s[i]
    BY <1>1 DEF Range
  <2>2. i \in DOMAIN u /\ u[i] = y
    BY <1>1, <1>2, <1>5, <2>1 DEF u
  <2> QED BY <2>2 DEF Range
<1>8. ASSUME NEW y \in Range(t) PROVE y \in Range(u)
  <2>1. PICK i \in 1..Len(t) : y = t[i]
    BY <1>1 DEF Range
  <2>2. Len(s) + i \in 1..Len(s) + Len(t)
    BY <1>1
  <2>3. u[Len(s) + i] = y
    BY <1>3, <2>1 DEF u
  <2> QED BY <1>5, <2>2, <2>3 DEF Range
<1>9. Range(u) = Range(s) \cup Range(t)
  BY <1>6, <1>7, <1>8
<1> QED BY <1>4, <1>9 DEF u

LEMMA EarlierLink ==
  ASSUME NEW l, Usable(l), NEW p \in Places, l.prev[p] # 0
  PROVE  /\ l.prev[p] \in Places /\ Before(l.prev[p], p)
         /\ l.next[l.prev[p]] = p
<1>1. l.prev[p] \in Places
  BY DEF Usable
<1> QED BY <1>1 DEF Usable

LEMMA LaterLink ==
  ASSUME NEW l, Usable(l), NEW p \in Places, l.next[p] # 0
  PROVE  /\ l.next[p] \in Places /\ Before(p, l.next[p])
         /\ l.prev[l.next[p]] = p
<1>1. l.next[p] \in Places
  BY DEF Usable
<1> QED BY <1>1 DEF Usable

\* A chain is the detection it ends in, after the chain that ends before it.
LEMMA ChainStep ==
  ASSUME NEW l, Timed, Usable(l), NEW p \in Places
  PROVE  /\ ChainOf(l.prev, p) \in Seq(Places)
         /\ ChainOf(l.prev, p) = IF l.prev[p] = 0 THEN <<p>>
                                 ELSE <<p>> \o ChainOf(l.prev, l.prev[p])
<1> DEFINE d == [q \in Places |-> Depth(q)]
<1>1. l.prev \in [Places -> {0} \cup Places] /\ d \in [Places -> Nat]
  BY DepthGrows DEF Usable
<1>2. \A q \in Places : l.prev[q] # 0 => d[l.prev[q]] < d[q]
  BY EarlierLink, DepthGrows
<1> HIDE DEF d
<1> QED BY <1>1, <1>2, WalkStep

LEMMA MembersStep ==
  ASSUME NEW l, Timed, Usable(l), NEW p \in Places
  PROVE  /\ Members(l, p) = {p} \cup Past(l, p)
         /\ Past(l, p) = IF l.prev[p] = 0 THEN {} ELSE Members(l, l.prev[p])
<1>1. CASE l.prev[p] = 0
  <2>1. ChainOf(l.prev, p) = <<p>>
    BY <1>1, ChainStep
  <2>2. Range(<<p>>) = {p} /\ Range(Tail(<<p>>)) = {}
    BY DEF Range
  <2> QED BY <1>1, <2>1, <2>2 DEF Members, Past
<1>2. CASE l.prev[p] # 0
  <2>1. l.prev[p] \in Places
    BY <1>2, EarlierLink
  <2>2. /\ ChainOf(l.prev, l.prev[p]) \in Seq(Places)
        /\ ChainOf(l.prev, p) = <<p>> \o ChainOf(l.prev, l.prev[p])
    BY <1>2, <2>1, ChainStep
  <2>3. /\ Range(ChainOf(l.prev, p)) = {p} \cup Range(ChainOf(l.prev, l.prev[p]))
        /\ Tail(ChainOf(l.prev, p)) = ChainOf(l.prev, l.prev[p])
    BY <2>2, RangeCons
  <2>4. Past(l, p) = Members(l, l.prev[p])
    BY <2>3 DEF Members, Past
  <2> QED BY <1>2, <2>3, <2>4 DEF Members
<1> QED BY <1>1, <1>2

\* The induction along a chain.
LEMMA ChainInduction ==
  ASSUME NEW l, Timed, Usable(l), NEW G,
         \A p \in Places : (l.prev[p] # 0 => l.prev[p] \in G) => p \in G
  PROVE  \A p \in Places : p \in G
<1> DEFINE d == [q \in Places |-> Depth(q)]
<1>1. \A p \in Places : d[p] \in Nat
  BY DepthGrows
<1>2. ASSUME NEW p \in Places, \A q \in Places : d[q] < d[p] => q \in G PROVE p \in G
  <2>1. l.prev[p] # 0 => l.prev[p] \in Places /\ d[l.prev[p]] < d[p]
    BY EarlierLink, DepthGrows
  <2> QED BY <1>2, <2>1
<1> HIDE DEF d
<1> QED BY <1>1, <1>2, DepthInduction

\* All of them are earlier.
LEMMA PastIsEarlier ==
  ASSUME NEW l, Timed, Usable(l)
  PROVE  \A p \in Places : /\ Members(l, p) \subseteq Places
                           /\ Past(l, p) \subseteq Places /\ p \notin Past(l, p)
                           /\ \A q \in Past(l, p) : Before(q, p)
<1> DEFINE Good(p) == Past(l, p) \subseteq Places /\ \A q \in Past(l, p) : Before(q, p)
           G == {p \in Places : Good(p)}
<1>1. ASSUME NEW p \in Places, l.prev[p] # 0 => l.prev[p] \in G PROVE p \in G
  <2>1. CASE l.prev[p] = 0
    BY <2>1, MembersStep
  <2>2. CASE l.prev[p] # 0
    <3>1. l.prev[p] \in Places /\ Before(l.prev[p], p) /\ Good(l.prev[p])
      BY <1>1, <2>2, EarlierLink
    <3>2. Past(l, p) = {l.prev[p]} \cup Past(l, l.prev[p])
      BY <2>2, <3>1, MembersStep
    <3> QED BY <3>1, <3>2, BeforeOrder
  <2> QED BY <2>1, <2>2
<1> HIDE DEF G
<1>2. \A p \in Places : p \in G
  BY <1>1, ChainInduction
<1> QED BY <1>2, MembersStep, BeforeOrder DEF G

\* The detections of a chain are in the chain of whatever comes after them.
LEMMA PastLinked ==
  ASSUME NEW l, Timed, Usable(l)
  PROVE  \A p \in Places :
            /\ \A r \in Past(l, p) : l.next[r] # 0 /\ l.next[r] \in Members(l, p)
            /\ \A r \in Members(l, p) : Members(l, r) \subseteq Members(l, p)
<1> DEFINE Good(p) ==
               /\ \A r \in Past(l, p) : l.next[r] # 0 /\ l.next[r] \in Members(l, p)
               /\ \A r \in Members(l, p) : Members(l, r) \subseteq Members(l, p)
           G == {p \in Places : Good(p)}
<1>1. ASSUME NEW p \in Places, l.prev[p] # 0 => l.prev[p] \in G PROVE p \in G
  <2>1. /\ Members(l, p) = {p} \cup Past(l, p)
        /\ Past(l, p) = IF l.prev[p] = 0 THEN {} ELSE Members(l, l.prev[p])
    BY MembersStep
  <2>2. CASE l.prev[p] = 0
    BY <2>1, <2>2
  <2>3. CASE l.prev[p] # 0
    <3> DEFINE r == l.prev[p]
    <3>1. r \in Places /\ l.next[r] = p /\ Good(r) /\ 0 \notin Places
      BY <1>1, <2>3, EarlierLink, PlacesAre
    <3>2. Past(l, p) = Members(l, r) /\ Members(l, r) = {r} \cup Past(l, r)
      BY <2>1, <2>3, <3>1, MembersStep
    <3> HIDE DEF r
    <3> QED BY <2>1, <3>1, <3>2
  <2> QED BY <2>2, <2>3
<1> HIDE DEF G
<1>2. \A p \in Places : p \in G
  BY <1>1, ChainInduction
<1> QED BY <1>2 DEF G

---------------------------------------------------------------------------
(* Taking detections out of their chains *)

LEMMA WithoutLinks ==
  ASSUME NEW l, Timed, Usable(l), NEW q \in Places
  PROVE  \A p \in Places :
            /\ Without(q, l).next[p] = IF p = q THEN 0
                                       ELSE IF l.next[p] = q THEN l.next[q] ELSE l.next[p]
            /\ Without(q, l).prev[p] = IF p = q THEN 0
                                       ELSE IF l.prev[p] = q THEN l.prev[q] ELSE l.prev[p]
<1> SUFFICES ASSUME NEW p \in Places
             PROVE  /\ Without(q, l).next[p] = IF p = q THEN 0
                            ELSE IF l.next[p] = q THEN l.next[q] ELSE l.next[p]
                    /\ Without(q, l).prev[p] = IF p = q THEN 0
                            ELSE IF l.prev[p] = q THEN l.prev[q] ELSE l.prev[p]
  OBVIOUS
<1>1. /\ p = l.prev[q] <=> l.next[p] = q
      /\ p = l.next[q] <=> l.prev[p] = q
  BY DEF Usable
<1>2. p = q => p # l.prev[q] /\ p # l.next[q]
  BY BeforeOrder DEF Usable
<1> QED BY <1>1, <1>2 DEF Without

LEMMA WithoutUsable ==
  ASSUME NEW l, Timed, Usable(l), NEW q \in Places
  PROVE  Usable(Without(q, l))
<1> DEFINE w == Without(q, l)
<1>1. \A p \in Places :
         /\ w.next[p] = IF p = q THEN 0 ELSE IF l.next[p] = q THEN l.next[q] ELSE l.next[p]
         /\ w.prev[p] = IF p = q THEN 0 ELSE IF l.prev[p] = q THEN l.prev[q] ELSE l.prev[p]
  BY WithoutLinks
<1>2. \A p \in Places : /\ l.next[p] \in {0} \cup Places /\ l.prev[p] \in {0} \cup Places
                        /\ \A r \in Places : l.next[p] = r <=> l.prev[r] = p
                        /\ \A r \in Places : l.next[p] = r => Before(p, r)
  BY DEF Usable
<1>3. 0 \notin Places
  BY PlacesAre
<1>4. w.next \in [Places -> {0} \cup Places] /\ w.prev \in [Places -> {0} \cup Places]
  <2>1. w.next = [p \in Places |-> w.next[p]] /\ w.prev = [p \in Places |-> w.prev[p]]
    BY DEF Without
  <2> HIDE DEF w
  <2>2. \A p \in Places : w.next[p] \in {0} \cup Places /\ w.prev[p] \in {0} \cup Places
    BY <1>1, <1>2
  <2> QED BY <2>1, <2>2
<1>8. w = [next |-> w.next, prev |-> w.prev]
  BY DEF Without
<1> HIDE DEF w
<1>5. ASSUME NEW p \in Places, NEW r \in Places PROVE w.next[p] = r <=> w.prev[r] = p
  BY <1>1, <1>2, <1>3
<1>6. ASSUME NEW p \in Places, NEW r \in Places, w.next[p] = r PROVE Before(p, r)
  <2>1. p # q
    BY <1>1, <1>3, <1>6
  <2>2. CASE l.next[p] = q
    BY <1>1, <1>2, <1>6, <2>1, <2>2, BeforeOrder
  <2>3. CASE l.next[p] # q
    BY <1>1, <1>2, <1>6, <2>1, <2>3
  <2> QED BY <2>2, <2>3
<1>7. Usable(w)
  BY <1>4, <1>5, <1>6, <1>8 DEF Usable
<1> QED BY <1>7 DEF w

LEMMA WithoutPast ==
  ASSUME NEW l, Timed, Usable(l), NEW q \in Places
  PROVE  \A p \in Places :
            Past(Without(q, l), p) = IF p = q THEN {} ELSE Past(l, p) \ {q}
<1> DEFINE w == Without(q, l)
           Good(p) == Past(w, p) = IF p = q THEN {} ELSE Past(l, p) \ {q}
           G == {p \in Places : Good(p)}
           d == [p \in Places |-> Depth(p)]
<1>1. \A p \in Places :
         w.prev[p] = IF p = q THEN 0 ELSE IF l.prev[p] = q THEN l.prev[q] ELSE l.prev[p]
  BY WithoutLinks
<1>2. Usable(w) /\ 0 \notin Places
  BY WithoutUsable, PlacesAre
<1> HIDE DEF w
<1>3. \A p \in Places : /\ Members(w, p) = {p} \cup Past(w, p)
                        /\ Past(w, p) = IF w.prev[p] = 0 THEN {} ELSE Members(w, w.prev[p])
                        /\ Members(l, p) = {p} \cup Past(l, p)
                        /\ Past(l, p) = IF l.prev[p] = 0 THEN {} ELSE Members(l, l.prev[p])
  BY <1>2, MembersStep
<1>4. \A p \in Places : d[p] \in Nat
  BY DepthGrows
<1>5. \A p \in Places : l.prev[p] # 0 => /\ l.prev[p] \in Places /\ l.prev[p] # p
                                         /\ d[l.prev[p]] < d[p]
  BY EarlierLink, DepthGrows, BeforeOrder
<1> HIDE DEF d
<1>6. ASSUME NEW p \in Places, \A r \in Places : d[r] < d[p] => r \in G PROVE p \in G
  <2>1. CASE p = q
    BY <1>1, <1>3, <2>1
  <2>2. CASE p # q /\ l.prev[p] = 0
    BY <1>1, <1>2, <1>3, <2>2
  <2>3. CASE p # q /\ l.prev[p] = q /\ l.prev[q] = 0
    BY <1>1, <1>2, <1>3, <2>3
  <2>4. CASE p # q /\ l.prev[p] = q /\ l.prev[q] # 0
    <3> DEFINE r == l.prev[q]
    <3>1. r \in Places /\ r # q /\ d[r] < d[p] /\ w.prev[p] = r /\ r # 0
      <4>1. d[q] < d[p] /\ r \in Places /\ d[r] < d[q] /\ r # q /\ r # 0
        BY <1>2, <1>5, <2>4
      <4>2. d[r] < d[p]
        BY <1>4, <4>1
      <4> QED BY <1>1, <2>4, <4>1, <4>2
    <3>2. Past(w, r) = Past(l, r) \ {q}
      BY <1>6, <3>1
    <3>3. Past(w, p) = {r} \cup Past(w, r)
      BY <1>3, <3>1
    <3>4. Past(l, p) = {q} \cup {r} \cup Past(l, r)
      BY <1>2, <1>3, <2>4, <3>1
    <3> HIDE DEF r
    <3> QED BY <2>4, <3>1, <3>2, <3>3, <3>4
  <2>5. CASE p # q /\ l.prev[p] # q /\ l.prev[p] # 0
    <3> DEFINE r == l.prev[p]
    <3>1. r \in Places /\ r # q /\ d[r] < d[p] /\ w.prev[p] = r /\ r # 0
      BY <1>1, <1>2, <1>5, <2>5
    <3>2. Past(w, r) = Past(l, r) \ {q}
      BY <1>6, <3>1
    <3>3. Past(w, p) = {r} \cup Past(w, r)
      BY <1>3, <3>1
    <3>4. Past(l, p) = {r} \cup Past(l, r)
      BY <1>3, <3>1
    <3> HIDE DEF r
    <3> QED BY <2>5, <3>1, <3>2, <3>3, <3>4
  <2> QED BY <2>1, <2>2, <2>3, <2>4, <2>5
<1> HIDE DEF G
<1>7. \A p \in Places : p \in G
  BY <1>4, <1>6, DepthInduction
<1> QED BY <1>7 DEF G, w

\* The recursion that FoldSet(Without, l, S) is defined by; it has a solution.
UnlinkRecursion(l, S, g) ==
    /\ FoldSet(Without, l, S) = g[S] /\ g[{}] = l
    /\ \A T \in SUBSET S : T # {} =>
          g[T] = Without(CHOOSE q \in T : TRUE, g[T \ {CHOOSE q \in T : TRUE}])

LEMMA UnlinkDefined ==
  ASSUME NEW l, NEW S, IsFiniteSet(S)
  PROVE  \E g : UnlinkRecursion(l, S, g)
<1> DEFINE pick(T) == CHOOSE q \in T : TRUE
           small(n) == {T \in SUBSET S : Cardinality(T) <= n}
           step(g, T) == IF T = {} THEN l ELSE Without(pick(T), g[T \ {pick(T)}])
           Good == {n \in Nat : \E g : g = [T \in small(n) |-> step(g, T)]}
<1>1. ASSUME NEW T \in SUBSET S, T # {}
      PROVE  /\ pick(T) \in T /\ T \ {pick(T)} \in SUBSET S
             /\ Cardinality(T) \in Nat \ {0}
             /\ Cardinality(T \ {pick(T)}) = Cardinality(T) - 1
  <2>1. pick(T) \in T
    BY <1>1
  <2>2. IsFiniteSet(T)
    BY FS_Subset
  <2>3. Cardinality(T) \in Nat /\ Cardinality(T) # 0
    BY <1>1, <2>2, FS_CardinalityType, FS_EmptySet
  <2> HIDE DEF pick
  <2> QED BY <2>1, <2>2, <2>3, FS_RemoveElement
<1>2. 0 \in Good
  <2>1. ASSUME NEW T \in small(0) PROVE T = {}
    <3>1. Cardinality(T) <= 0
      OBVIOUS
    <3>2. T # {} => Cardinality(T) \in Nat \ {0}
      BY <1>1
    <3> QED BY <3>1, <3>2
  <2> DEFINE g == [T \in small(0) |-> l]
  <2>2. g = [T \in small(0) |-> step(g, T)]
    BY <2>1
  <2> HIDE DEF g
  <2> QED BY <2>2
<1> HIDE DEF pick
<1>3. ASSUME NEW n \in Nat, n \in Good PROVE n + 1 \in Good
  <2>1. PICK g : g = [T \in small(n) |-> step(g, T)]
    BY <1>3
  <2> DEFINE h == [T \in small(n + 1) |-> step(g, T)]
  <2>2. ASSUME NEW T \in small(n + 1) PROVE h[T] = step(h, T)
    <3>1. CASE T = {}
      BY <3>1
    <3>2. CASE T # {}
      <4> DEFINE U == T \ {pick(T)}
      <4>1. U \in small(n) /\ U \in small(n + 1)
        BY <1>1, <3>2
      <4>2. g[U] = step(g, U)
        BY <2>1, <4>1
      <4>3. h[U] = step(g, U)
        BY <4>1
      <4> HIDE DEF U
      <4>4. h[T] = Without(pick(T), g[U])
        BY <3>2 DEF U
      <4>5. step(h, T) = Without(pick(T), h[U])
        BY <3>2 DEF U
      <4> QED BY <4>2, <4>3, <4>4, <4>5
    <3> QED BY <3>1, <3>2
  <2>3. h = [T \in small(n + 1) |-> step(h, T)]
    BY <2>2
  <2> HIDE DEF h
  <2>4. \E k : k = [T \in small(n + 1) |-> step(k, T)]
    BY <2>3, Zenon
  <2> HIDE DEF small, step
  <2> QED BY <2>4
<1>4. \A n \in Nat : n \in Good
  <2> HIDE DEF Good
  <2> QED BY <1>2, <1>3, NumberInduction
<1>5. small(Cardinality(S)) = SUBSET S /\ Cardinality(S) \in Nat
  BY FS_CardinalityType, FS_Subset
<1>6. \E g : g = [T \in SUBSET S |-> step(g, T)]
  BY <1>4, <1>5
<1> DEFINE after == CHOOSE g : g = [T \in SUBSET S |-> step(g, T)]
<1>7. after = [T \in SUBSET S |-> step(after, T)]
  BY <1>6
<1>8. FoldSet(Without, l, S) = after[S]
  BY DEF FoldSet, MapThenFoldSet, pick
<1> HIDE DEF after
<1>9. after[{}] = l /\ \A T \in SUBSET S : T # {} => after[T] = Without(pick(T), after[T \ {pick(T)}])
  BY <1>7
<1> QED BY <1>8, <1>9 DEF UnlinkRecursion, pick

\* The detections taken out of the chains of l are alone in m, the others stay
\* with those they were with.
Cut(l, m, out) ==
    /\ Usable(m)
    /\ \A p \in out : m.next[p] = 0 /\ m.prev[p] = 0
    /\ \A p \in Places : Past(m, p) = IF p \in out THEN {} ELSE Past(l, p) \ out

\* One more is taken out.
LEMMA CutOne ==
  ASSUME Timed, NEW l, NEW m, NEW out \in SUBSET Places, Cut(l, m, out), NEW q \in Places
  PROVE  Cut(l, Without(q, m), out \cup {q})
<1> DEFINE w == Without(q, m)
<1>1. Usable(m)
  BY DEF Cut
<1>2. Usable(w)
  BY <1>1, WithoutUsable
<1>3. \A p \in Places :
         /\ w.next[p] = IF p = q THEN 0 ELSE IF m.next[p] = q THEN m.next[q] ELSE m.next[p]
         /\ w.prev[p] = IF p = q THEN 0 ELSE IF m.prev[p] = q THEN m.prev[q] ELSE m.prev[p]
  BY <1>1, WithoutLinks
<1>4. \A p \in Places : Past(w, p) = IF p = q THEN {} ELSE Past(m, p) \ {q}
  BY <1>1, WithoutPast
<1> HIDE DEF w
<1>5. \A p \in out \cup {q} : w.next[p] = 0 /\ w.prev[p] = 0
  BY <1>3, PlacesAre DEF Cut
<1>6. ASSUME NEW p \in Places
      PROVE  Past(w, p) = IF p \in out \cup {q} THEN {} ELSE Past(l, p) \ (out \cup {q})
  <2>1. Past(m, p) = IF p \in out THEN {} ELSE Past(l, p) \ out
    BY DEF Cut
  <2> QED BY <1>4, <2>1
<1>7. Cut(l, w, out \cup {q})
  BY <1>2, <1>5, <1>6 DEF Cut
<1> QED BY <1>7 DEF w

LEMMA UnlinkFold ==
  ASSUME Timed, NEW l, NEW m, NEW out \in SUBSET Places, Cut(l, m, out), NEW S \in SUBSET Places
  PROVE  Cut(l, FoldSet(Without, m, S), out \cup S)
<1>1. IsFiniteSet(S)
  BY PlacesAre, FS_Subset
<1>2. PICK g : UnlinkRecursion(m, S, g)
  BY <1>1, UnlinkDefined
<1> DEFINE G == {T \in SUBSET S : Cut(l, g[T], out \cup T)}
<1>3. {} \in G
  <2>1. g[{}] = m /\ out \cup {} = out
    BY <1>2 DEF UnlinkRecursion
  <2> QED BY <2>1
<1>4. ASSUME NEW T \in SUBSET S, T # {}, T \ {CHOOSE q \in T : TRUE} \in G PROVE T \in G
  <2> DEFINE q == CHOOSE r \in T : TRUE
             U == T \ {q}
  <2>1. q \in T /\ q \in Places
    BY <1>4
  <2>2. g[T] = Without(q, g[U])
    BY <1>2, <1>4 DEF UnlinkRecursion
  <2>3. Cut(l, g[U], out \cup U)
    BY <1>4
  <2>4. (out \cup U) \cup {q} = out \cup T /\ out \cup U \in SUBSET Places
    BY <2>1
  <2> HIDE DEF q, U
  <2>5. Cut(l, Without(q, g[U]), (out \cup U) \cup {q})
    BY <2>1, <2>3, <2>4, CutOne
  <2> QED BY <2>2, <2>4, <2>5
<1> HIDE DEF G
<1>5. S \in G
  <2>1. \A T \in SUBSET S : T \in G
    BY <1>1, <1>3, <1>4, SubsetInduction
  <2> QED BY <2>1
<1>6. Cut(l, g[S], out \cup S)
  BY <1>5 DEF G
<1> QED BY <1>2, <1>6 DEF UnlinkRecursion

---------------------------------------------------------------------------
(* Links *)

\* The arrays are in order but where a solution has just put the detections
\* elsewhere.
Ordered == Timed /\ Arranged /\ (~Stale => InOrder)

LEMMA InitOrdered == Init => Ordered
<1> SUFFICES ASSUME Init PROVE Ordered
  OBVIOUS
<1>1. input.time \in Times
  BY DEF Init
<1>2. who = [p \in Places |-> p] /\ sky \in Skies /\ at = "reproj0"
  BY DEF Init
<1>3. Arranged
  BY <1>2 DEF Arranged
<1> QED BY <1>1, <1>2, <1>3 DEF Ordered, Timed, Stale

LEMMA NextOrdered == Ordered /\ [Next]_vars => Ordered' /\ input' = input
<1> SUFFICES ASSUME Ordered, [Next]_vars PROVE Ordered' /\ input' = input
  OBVIOUS
<1>1. ASSUME UNCHANGED <<input, sky, who>>, ~Stale \/ at' = at PROVE Ordered' /\ input' = input
  <2>1. input' = input /\ sky' = sky /\ who' = who
    BY <1>1
  <2>2. Timed' /\ Arranged'
    BY <2>1 DEF Ordered, Timed, Arranged
  <2>3. InOrder => InOrder'
    BY <2>1 DEF InOrder
  <2>4. ~Stale' => ~Stale
    BY <1>1 DEF Stale
  <2> QED BY <2>1, <2>2, <2>3, <2>4 DEF Ordered
<1>2. CASE Reproject
  <2>1. Arranged' /\ InOrder' /\ input' = input
    BY <1>2, SortOrders DEF Reproject, Ordered
  <2> QED BY <2>1 DEF Ordered, Timed
<1>3. CASE Solve
  <2>1. input' = input /\ who' = who /\ sky' \in Skies /\ at' \in {"reproj1", "reproj2"}
    BY <1>3, DoingStep, Successors DEF Solve
  <2>2. Arranged'
    BY <2>1 DEF Ordered, Arranged
  <2> QED BY <2>1, <2>2 DEF Ordered, Timed, Stale
<1>4. CASE CrossIdentify
  BY <1>1, <1>4, DoingStep DEF CrossIdentify, data, Stale
<1>5. CASE Magnitudes
  BY <1>1, <1>5, DoingStep DEF Magnitudes, Stale
<1>6. CASE StartPass
  BY <1>1, <1>6 DEF StartPass, data
<1>7. CASE AstrClip
  BY <1>1, <1>7 DEF AstrClip, Visiting, data
<1>8. CASE PhotClip
  BY <1>1, <1>8 DEF PhotClip, Visiting, data
<1>9. CASE EndPass
  BY <1>1, <1>9, DoingStep DEF EndPass, Clipping, data, Stale
<1>10. CASE PhotSolve
  BY <1>1, <1>10, DoingStep DEF PhotSolve, data, Stale
<1>11. CASE Merge
  BY <1>1, <1>11, DoingStep DEF Merge, data, Stale
<1>12. CASE ProperMotions
  BY <1>1, <1>12, DoingStep DEF ProperMotions, data, Stale
<1>13. CASE WriteFull
  BY <1>1, <1>13, DoingStep DEF WriteFull, data, Stale
<1>14. CASE UNCHANGED vars
  BY <1>1, <1>14 DEF vars, data
<1> QED BY <1>2, <1>3, <1>4, <1>5, <1>6, <1>7, <1>8, <1>9, <1>10, <1>11, <1>12, <1>13,
           <1>14 DEF Next

\* What cross-identification leaves behind can be followed.
LEMMA LinkingUsable ==
  ASSUME Timed, NEW n \in Linkings[input.time]
  PROVE  Usable([next |-> n, prev |-> Back(n)])
<1>1. /\ n \in [Places -> {0} \cup Ordinary]
      /\ \A p \in Places : n[p] # 0 => IsRef(p) \/ Older(input.time, p, n[p])
      /\ \A p, q \in Places : p # q /\ n[p] = n[q] => n[p] = 0
  BY DEF Linkings, Timed
<1>2. \A p \in Places : n[p] \in {0} \cup Places /\ (n[p] # 0 => ~IsRef(n[p]))
  BY <1>1 DEF Ordinary
<1>3. 0 \notin Places
  BY PlacesAre
<1>4. ASSUME NEW q \in Places
      PROVE  /\ Back(n)[q] \in {0} \cup Places
             /\ \A p \in Places : n[p] = q <=> Back(n)[q] = p
  <2>1. CASE \E p \in Places : n[p] = q
    <3>1. Back(n)[q] \in Places /\ n[Back(n)[q]] = q
      BY <2>1 DEF Back
    <3> HIDE DEF Back
    <3> QED BY <1>1, <1>3, <3>1
  <2>2. CASE ~ \E p \in Places : n[p] = q
    BY <1>3, <2>2 DEF Back
  <2> QED BY <2>1, <2>2
<1>5. n \in [Places -> {0} \cup Places] /\ Back(n) \in [Places -> {0} \cup Places]
  <2>1. Back(n) = [q \in Places |-> Back(n)[q]]
    BY DEF Back
  <2> HIDE DEF Back
  <2> QED BY <1>1, <1>2, <1>4, <2>1
<1>6. \A p, q \in Places : n[p] = q => Before(p, q)
  BY <1>1, <1>2, <1>3 DEF Before
<1> QED BY <1>4, <1>5, <1>6 DEF Usable

LEMMA ChainPlaces ==
  ASSUME Timed, Usable(links), NEW p \in Places
  PROVE  Range(Chain(p)) \subseteq Places /\ Range(Chain(p)) = Members(links, p)
<1>1. Range(Chain(p)) = Members(links, p)
  BY DEF Chain, Members
<1> QED BY <1>1, PastIsEarlier

---------------------------------------------------------------------------
(* The walk along a chain that unlinks outliers *)

WalkStates == [at : {0} \cup Places,
               links : [next : [Places -> {0} \cup Places], prev : [Places -> {0} \cup Places]],
               out : SUBSET Places, kept : SUBSET Places]

WalkStart == [at |-> End, links |-> links, out |-> {}, kept |-> {}]

\* What one step does; it leads from states to states.
Stepped(w, v, beyond, saved) ==
    IF w.at \notin Ordinary THEN v = w
    ELSE IF w.at \in beyond
    THEN /\ v.links = Without(w.at, w.links) /\ v.out = w.out \cup {w.at} /\ v.kept = w.kept
         /\ saved => v.at = w.links.prev[w.at]
    ELSE /\ v.links = w.links /\ v.out = w.out /\ v.kept = w.kept \cup {w.at}
         /\ v.at = w.links.prev[w.at]

LEMMA WithoutTyped ==
  ASSUME NEW l \in [next : [Places -> {0} \cup Places], prev : [Places -> {0} \cup Places]],
         NEW q \in Places
  PROVE  Without(q, l) \in [next : [Places -> {0} \cup Places], prev : [Places -> {0} \cup Places]]
BY DEF Without

LEMMA PassedSteps ==
  ASSUME NEW w \in WalkStates, NEW beyond, NEW saved \in BOOLEAN
  PROVE  Passed(w, beyond, saved) \in WalkStates /\ Stepped(w, Passed(w, beyond, saved), beyond, saved)
<1>1. CASE w.at \notin Ordinary
  BY <1>1 DEF Passed, Stepped
<1>2. CASE w.at \in Ordinary
  <2>1. w.at \in Places
    BY <1>2 DEF Ordinary
  <2> DEFINE v == Without(w.at, w.links)
  <2>2. v \in [next : [Places -> {0} \cup Places], prev : [Places -> {0} \cup Places]]
    BY <2>1, WithoutTyped DEF WalkStates
  <2> HIDE DEF v
  <2>3. v.prev[w.at] \in {0} \cup Places /\ w.links.prev[w.at] \in {0} \cup Places
    BY <2>1, <2>2 DEF WalkStates
  <2>4. CASE w.at \in beyond
    <3>1. LookedAt(w, beyond) = [w EXCEPT !.links = v, !.out = @ \cup {w.at}]
      BY <2>4 DEF LookedAt, v
    <3>2. Passed(w, beyond, saved) = [w EXCEPT !.links = v, !.out = @ \cup {w.at},
                !.at = IF saved THEN w.links.prev[w.at] ELSE v.prev[w.at]]
      BY <1>2, <3>1 DEF Passed, WalkStates
    <3> HIDE DEF WalkStates
    <3>a. PICK to : to = IF saved THEN w.links.prev[w.at] ELSE v.prev[w.at]
      OBVIOUS
    <3>b. to \in {0} \cup Places
      BY <2>3, <3>a
    <3>c. Passed(w, beyond, saved) = [w EXCEPT !.links = v, !.out = @ \cup {w.at}, !.at = to]
      BY <3>2, <3>a
    <3>3. Passed(w, beyond, saved) \in WalkStates
      <4>1. PICK gone : gone = w.out \cup {w.at}
        OBVIOUS
      <4>2. Passed(w, beyond, saved) = [w EXCEPT !.links = v, !.out = gone, !.at = to]
        BY <3>c, <4>1
      <4>3. gone \in SUBSET Places
        BY <2>1, <4>1 DEF WalkStates
      <4> QED BY <2>2, <3>b, <4>2, <4>3 DEF WalkStates
    <3>4. Stepped(w, Passed(w, beyond, saved), beyond, saved)
      BY <1>2, <2>4, <3>a, <3>c DEF WalkStates, Stepped, v
    <3> QED BY <3>3, <3>4
  <2>5. CASE w.at \notin beyond
    <3>1. LookedAt(w, beyond) = [w EXCEPT !.kept = @ \cup {w.at}]
      BY <2>5 DEF LookedAt
    <3>2. Passed(w, beyond, saved) = [w EXCEPT !.kept = @ \cup {w.at}, !.at = w.links.prev[w.at]]
      BY <1>2, <3>1 DEF Passed, WalkStates
    <3>3. Passed(w, beyond, saved) \in WalkStates
      <4>1. PICK left, to : left = w.kept \cup {w.at} /\ to = w.links.prev[w.at]
        OBVIOUS
      <4>2. Passed(w, beyond, saved) = [w EXCEPT !.kept = left, !.at = to]
        BY <3>2, <4>1
      <4>3. left \in SUBSET Places /\ to \in {0} \cup Places
        BY <2>1, <2>3, <4>1 DEF WalkStates
      <4> QED BY <4>2, <4>3 DEF WalkStates
    <3>4. Stepped(w, Passed(w, beyond, saved), beyond, saved)
      BY <1>2, <2>5, <3>2 DEF WalkStates, Stepped
    <3> QED BY <3>3, <3>4
  <2> QED BY <2>4, <2>5
<1> QED BY <1>1, <1>2

\* The steps of a walk, as many as there are places.
WalkSteps(g, beyond, saved) ==
    /\ g[0] = WalkStart /\ Walked(beyond, saved) = g[Len(Layout)]
    /\ \A k \in 0..Len(Layout) : g[k] \in WalkStates
    /\ \A k \in 1..Len(Layout) : Stepped(g[k - 1], g[k], beyond, saved)

LEMMA WalkedSteps ==
  ASSUME Usable(links), EndsLeft # {}, NEW beyond, NEW saved \in BOOLEAN
  PROVE  \E g : WalkSteps(g, beyond, saved)
<1> DEFINE n == Len(Layout)
           next(g, k) == IF k = 0 THEN WalkStart ELSE Passed(g[k - 1], beyond, saved)
           after == CHOOSE g : g = [k \in 0..n |-> next(g, k)]
           step == [u \in (1..n) \X WalkStates |-> Passed(u[2], beyond, saved)]
<1>1. n \in Nat
  BY PlacesAre
<1>2. WalkStart \in WalkStates
  <2>1. links \in [next : [Places -> {0} \cup Places], prev : [Places -> {0} \cup Places]]
    BY DEF Usable
  <2> QED BY <2>1, EndIsPlace DEF WalkStart, WalkStates
<1>3. Walked(beyond, saved) = after[n]
  BY Zenon DEF Walked, WalkStart
<1> HIDE DEF n
<1>4. ASSUME NEW w \in WalkStates, NEW k \in 1..n
      PROVE  step[<<k, w>>] \in WalkStates /\ step[<<k, w>>] = Passed(w, beyond, saved)
  <2>1. Passed(w, beyond, saved) \in WalkStates
    BY PassedSteps
  <2> QED BY <2>1
<1> HIDE DEF step
<1>5. PICK g : /\ g = [k \in 0..n |-> IF k = 0 THEN WalkStart ELSE step[<<k, g[k - 1]>>]]
               /\ \A k \in 0..n : g[k] \in WalkStates
  <2>1. \A k \in 1..n : \A w \in WalkStates : step[<<k, w>>] \in WalkStates
    BY <1>4
  <2>2. PICK h : StepsRecursion(n, WalkStart, step, h) /\ \A k \in 0..n : h[k] \in WalkStates
    BY <1>1, <1>2, <2>1, StepsDefined
  <2> QED BY <2>2, Zenon DEF StepsRecursion
<1>6. ASSUME NEW k \in 0..n
      PROVE  (IF k = 0 THEN WalkStart ELSE step[<<k, g[k - 1]>>]) = next(g, k)
  <2>1. CASE k = 0
    BY <2>1
  <2>2. CASE k # 0
    <3>1. k \in 1..n /\ k - 1 \in 0..n
      BY <1>1, <2>2
    <3> QED BY <1>4, <1>5, <2>2, <3>1
  <2> QED BY <2>1, <2>2
<1>7. g = [k \in 0..n |-> next(g, k)]
  <2> HIDE DEF next
  <2> QED BY <1>5, <1>6
<1>8. after = [k \in 0..n |-> next(after, k)]
  <2> HIDE DEF next
  <2> QED BY <1>7
<1> HIDE DEF after
<1>9. after[0] = WalkStart
  BY <1>1, <1>8
<1>10. ASSUME NEW k \in 1..n PROVE after[k] = Passed(after[k - 1], beyond, saved) /\ k - 1 \in 0..n
  <2>1. k \in 0..n /\ k # 0 /\ k - 1 \in 0..n
    BY <1>1
  <2> QED BY <1>8, <2>1
<1> DEFINE Good == {k \in Nat : k \in 0..n => after[k] \in WalkStates}
<1>11. 0 \in Good
  BY <1>2, <1>9
<1>12. ASSUME NEW k \in Nat, k \in Good PROVE k + 1 \in Good
  <2> SUFFICES ASSUME k + 1 \in 0..n PROVE after[k + 1] \in WalkStates
    OBVIOUS
  <2>1. k + 1 \in 1..n /\ (k + 1) - 1 = k /\ k \in 0..n
    BY <1>1
  <2>2. after[k + 1] = Passed(after[k], beyond, saved)
    BY <1>10, <2>1
  <2>3. after[k] \in WalkStates
    BY <1>12, <2>1
  <2> QED BY <2>2, <2>3, PassedSteps
<1>13. \A k \in 0..n : after[k] \in WalkStates
  <2> HIDE DEF Good
  <2>1. \A k \in Nat : k \in Good
    BY <1>11, <1>12, NumberInduction
  <2> QED BY <1>1, <2>1 DEF Good
<1>14. \A k \in 1..n : Stepped(after[k - 1], after[k], beyond, saved)
  BY <1>10, <1>13, PassedSteps
<1>15. WalkSteps(after, beyond, saved)
  BY <1>3, <1>9, <1>13, <1>14 DEF WalkSteps, n
<1> QED BY <1>15

\* A walk takes out of the chains what it finds among the outliers.
WalkCuts(w, beyond) == w.out \subseteq beyond /\ Cut(links, w.links, w.out)

LEMMA StepCuts ==
  ASSUME Timed, NEW w \in WalkStates, NEW v \in WalkStates, NEW beyond, NEW saved \in BOOLEAN,
         Stepped(w, v, beyond, saved), WalkCuts(w, beyond)
  PROVE  WalkCuts(v, beyond)
<1>1. CASE w.at \notin Ordinary
  BY <1>1 DEF Stepped
<1>2. CASE w.at \in Ordinary /\ w.at \in beyond
  <2>1. v.links = Without(w.at, w.links) /\ v.out = w.out \cup {w.at}
    BY <1>2 DEF Stepped
  <2>2. w.at \in Places /\ w.out \in SUBSET Places
    BY <1>2 DEF Ordinary, WalkStates
  <2>3. Cut(links, Without(w.at, w.links), w.out \cup {w.at})
    BY <2>2, CutOne DEF WalkCuts
  <2> QED BY <1>2, <2>1, <2>3 DEF WalkCuts
<1>3. CASE w.at \in Ordinary /\ w.at \notin beyond
  BY <1>3 DEF Stepped, WalkCuts
<1> QED BY <1>1, <1>2, <1>3

LEMMA StartCuts ==
  ASSUME Usable(links), NEW beyond
  PROVE  WalkCuts(WalkStart, beyond)
BY DEF WalkCuts, WalkStart, Cut

\* What holds at the start of a walk and is kept by its steps holds at its end.
LEMMA WalkInduction ==
  ASSUME NEW beyond, NEW saved \in BOOLEAN, NEW g, WalkSteps(g, beyond, saved), NEW G,
         <<0, WalkStart>> \in G,
         \A k \in 1..Len(Layout) : \A w, v \in WalkStates :
             <<k - 1, w>> \in G /\ Stepped(w, v, beyond, saved) => <<k, v>> \in G
  PROVE  <<Len(Layout), Walked(beyond, saved)>> \in G
<1> DEFINE n == Len(Layout)
           H == {k \in Nat : k \in 0..n => <<k, g[k]>> \in G}
<1>1. n \in Nat
  BY PlacesAre
<1>2. 0 \in H
  BY DEF WalkSteps
<1>3. ASSUME NEW k \in Nat, k \in H PROVE k + 1 \in H
  <2> SUFFICES ASSUME k + 1 \in 0..n PROVE <<k + 1, g[k + 1]>> \in G
    OBVIOUS
  <2> DEFINE i == k + 1
  <2>1. i \in 1..n /\ i \in 0..n /\ i - 1 = k /\ k \in 0..n
    BY <1>1
  <2>2. <<k, g[k]>> \in G
    BY <1>3, <2>1
  <2> HIDE DEF i
  <2>3. g[k] \in WalkStates /\ g[i] \in WalkStates /\ Stepped(g[k], g[i], beyond, saved)
    BY <2>1 DEF WalkSteps
  <2>4. <<i, g[i]>> \in G
    BY <2>1, <2>2, <2>3
  <2> QED BY <2>4 DEF i
<1> HIDE DEF H
<1>4. n \in H
  BY <1>1, <1>2, <1>3, NumberInduction
<1> QED BY <1>1, <1>4 DEF H, WalkSteps

LEMMA WalkedCuts ==
  ASSUME Timed, Usable(links), EndsLeft # {}, NEW beyond, NEW saved \in BOOLEAN
  PROVE  /\ Walked(beyond, saved) \in WalkStates
         /\ WalkCuts(Walked(beyond, saved), beyond)
<1> DEFINE G == {u \in Nat \X WalkStates : WalkCuts(u[2], beyond)}
<1>1. PICK g : WalkSteps(g, beyond, saved)
  BY WalkedSteps
<1>2. WalkStart \in WalkStates /\ Walked(beyond, saved) \in WalkStates
  BY <1>1, PlacesAre DEF WalkSteps
<1>3. <<0, WalkStart>> \in G
  BY <1>2, StartCuts
<1>4. ASSUME NEW k \in 1..Len(Layout), NEW w \in WalkStates, NEW v \in WalkStates,
             <<k - 1, w>> \in G, Stepped(w, v, beyond, saved)
      PROVE  <<k, v>> \in G
  <2>1. WalkCuts(w, beyond) /\ k \in Nat
    BY <1>4, PlacesAre
  <2>2. WalkCuts(v, beyond)
    BY <1>4, <2>1, StepCuts
  <2> QED BY <2>1, <2>2
<1> HIDE DEF G
<1>5. <<Len(Layout), Walked(beyond, saved)>> \in G
  BY <1>1, <1>3, <1>4, WalkInduction
<1> QED BY <1>2, <1>5 DEF G

\* A walk that follows the links it found gets to every detection of the chain:
\* what it has not been to is still linked as it was.
Rest(w) == IF w.at = 0 THEN {} ELSE Members(links, w.at)

WalkGoesOn(w, beyond, k) ==
    /\ Rest(w) \subseteq Members(links, End)
    /\ Members(links, End) \subseteq w.out \cup w.kept \cup Rest(w)
    /\ w.kept \cap beyond = {}
    /\ \A p \in Rest(w) : w.links.prev[p] = links.prev[p]
    /\ \A p \in Members(links, End) : w.links.next[p] \in {0} \cup Members(links, End)
    /\ w.at \in Ordinary => Depth(w.at) + k < Cardinality(Places)

LEMMA DepthBelow ==
  ASSUME Timed, NEW p \in Places
  PROVE  Depth(p) \in Nat /\ Depth(p) < Cardinality(Places) /\ Cardinality(Places) = Len(Layout)
<1> DEFINE earlier == {q \in Places : Before(q, p)}
<1>1. earlier \subseteq Places /\ p \notin earlier
  BY BeforeOrder
<1>2. Depth(p) = Cardinality(earlier)
  BY DEF Depth
<1> HIDE DEF earlier
<1>3. /\ Cardinality(earlier) <= Cardinality(Places)
      /\ Cardinality(Places) = Cardinality(earlier) => earlier = Places
  BY <1>1, PlacesAre, FS_Subset
<1>4. Cardinality(Places) = Len(Layout)
  <2>1. Places = 1..Len(Layout) /\ Len(Layout) \in Nat
    BY PlacesAre
  <2>2. Cardinality(1..Len(Layout)) = IF 1 > Len(Layout) THEN 0 ELSE Len(Layout) - 1 + 1
    BY <2>1, FS_Interval
  <2> QED BY <2>1, <2>2
<1>5. Depth(p) \in Nat
  BY DepthGrows
<1> QED BY <1>1, <1>2, <1>3, <1>4, <1>5, PlacesAre

LEMMA WalkBegins ==
  ASSUME Timed, Usable(links), EndsLeft # {}, NEW beyond
  PROVE  WalkGoesOn(WalkStart, beyond, 0)
<1>1. End \in Places /\ links.next[End] = 0 /\ End # 0
  BY EndIsPlace, PlacesAre DEF IsEnd
<1>2. Depth(End) + 0 < Cardinality(Places)
  BY <1>1, DepthBelow
<1>3. Rest(WalkStart) = Members(links, End)
  BY <1>1 DEF Rest, WalkStart
<1>4. \A p \in Members(links, End) : links.next[p] \in {0} \cup Members(links, End)
  <2>1. Members(links, End) = {End} \cup Past(links, End)
    BY <1>1, MembersStep
  <2>2. \A p \in Past(links, End) : links.next[p] \in Members(links, End)
    BY <1>1, PastLinked
  <2> QED BY <1>1, <2>1, <2>2
<1> QED BY <1>2, <1>3, <1>4 DEF WalkGoesOn, WalkStart

LEMMA WalkContinues ==
  ASSUME Timed, Usable(links), EndsLeft # {}, NEW beyond, NEW k \in 1..Len(Layout),
         NEW w \in WalkStates, NEW v \in WalkStates, Stepped(w, v, beyond, TRUE),
         WalkCuts(w, beyond), WalkGoesOn(w, beyond, k - 1)
  PROVE  WalkGoesOn(v, beyond, k)
<1> DEFINE q == w.at
           all == Members(links, End)
<1>1. CASE q \notin Ordinary
  BY <1>1 DEF Stepped, WalkGoesOn
<1>2. ASSUME q \in Ordinary
      PROVE  WalkGoesOn(v, beyond, k)
  <2>1. q \in Places /\ q # 0 /\ 0 \notin Places
    BY <1>2, PlacesAre DEF Ordinary
  <2>2. Rest(w) = {q} \cup Past(links, q)
    BY <2>1, MembersStep DEF Rest
  <2>3. w.links.prev[q] = links.prev[q]
    BY <2>2 DEF WalkGoesOn
  <2>4. v.at = links.prev[q]
    BY <1>2, <2>3 DEF Stepped
  <2>5. Rest(v) = Past(links, q)
    <3>1. Past(links, q) = IF links.prev[q] = 0 THEN {} ELSE Members(links, links.prev[q])
      BY <2>1, MembersStep
    <3> QED BY <2>4, <3>1 DEF Rest
  <2>6. /\ Past(links, q) \subseteq Places /\ q \notin Past(links, q)
        /\ \A p \in Past(links, q) : Before(p, q)
    BY <2>1, PastIsEarlier
  <2>7. v.at \in Ordinary => Depth(v.at) + k < Cardinality(Places)
    <3> SUFFICES ASSUME v.at \in Ordinary PROVE Depth(v.at) + k < Cardinality(Places)
      OBVIOUS
    <3>1. v.at \in Places /\ v.at # 0
      BY PlacesAre DEF Ordinary
    <3>2. Before(v.at, q)
      BY <2>1, <2>4, <3>1, EarlierLink
    <3>3. Depth(v.at) < Depth(q) /\ Depth(v.at) \in Nat /\ Depth(q) \in Nat
      BY <2>1, <3>1, <3>2, DepthGrows
    <3>4. Depth(q) + (k - 1) < Cardinality(Places)
      BY <1>2 DEF WalkGoesOn
    <3>5. Cardinality(Places) \in Nat /\ k \in Nat
      BY <2>1, DepthBelow, PlacesAre
    <3> HIDE DEF q
    <3> QED BY <3>3, <3>4, <3>5
  <2>8. /\ Past(links, q) \subseteq all /\ q \in all
        /\ all \subseteq w.out \cup w.kept \cup {q} \cup Past(links, q)
        /\ w.kept \cap beyond = {}
        /\ \A p \in Past(links, q) : w.links.prev[p] = links.prev[p]
        /\ \A p \in all : w.links.next[p] \in {0} \cup all
    BY <2>2 DEF WalkGoesOn
  <2>9. CASE q \in beyond
    <3>1. v.links = Without(q, w.links) /\ v.out = w.out \cup {q} /\ v.kept = w.kept
      BY <1>2, <2>9 DEF Stepped
    <3>2. \A p \in Places :
             /\ v.links.next[p] = IF p = q THEN 0
                        ELSE IF w.links.next[p] = q THEN w.links.next[q] ELSE w.links.next[p]
             /\ v.links.prev[p] = IF p = q THEN 0
                        ELSE IF w.links.prev[p] = q THEN w.links.prev[q] ELSE w.links.prev[p]
      BY <2>1, <3>1, WithoutLinks DEF WalkCuts, Cut
    <3>3. all \subseteq Places
      BY EndIsPlace, PastIsEarlier
    <3> HIDE DEF all, q
    <3>4. \A p \in all : v.links.next[p] \in {0} \cup all
      BY <2>8, <3>2, <3>3
    <3>5. ASSUME NEW p \in Past(links, q) PROVE v.links.prev[p] = links.prev[p]
      <4>1. p \in Places /\ p # q /\ Before(p, q) /\ w.links.prev[p] = links.prev[p]
        BY <2>6, <2>8
      <4>2. links.prev[p] # q
        <5> SUFFICES ASSUME links.prev[p] = q PROVE FALSE
          OBVIOUS
        <5>1. Before(q, p)
          BY <2>1, <4>1, EarlierLink
        <5> QED BY <2>1, <4>1, <5>1, BeforeOrder
      <4> QED BY <3>2, <4>1, <4>2
    <3> QED BY <2>5, <2>7, <2>8, <3>1, <3>4, <3>5 DEF WalkGoesOn, all
  <2>10. CASE q \notin beyond
    <3>1. v.links = w.links /\ v.out = w.out /\ v.kept = w.kept \cup {q}
      BY <1>2, <2>10 DEF Stepped
    <3> HIDE DEF q
    <3> QED BY <2>5, <2>7, <2>8, <2>10, <3>1 DEF WalkGoesOn
  <2> QED BY <2>9, <2>10
<1> QED BY <1>1, <1>2

LEMMA WalkedAll ==
  ASSUME Timed, Usable(links), EndsLeft # {}, NEW beyond
  PROVE  /\ Detections(End) \subseteq Walked(beyond, TRUE).out \cup Walked(beyond, TRUE).kept
         /\ Walked(beyond, TRUE).kept \cap beyond = {}
         /\ \A p \in Members(links, End) :
               Walked(beyond, TRUE).links.next[p] \in {0} \cup Members(links, End)
<1> DEFINE w == Walked(beyond, TRUE)
           n == Len(Layout)
           G == {u \in Nat \X WalkStates : WalkCuts(u[2], beyond) /\ WalkGoesOn(u[2], beyond, u[1])}
<1>1. PICK g : WalkSteps(g, beyond, TRUE)
  BY WalkedSteps
<1>2. WalkStart \in WalkStates /\ w \in WalkStates
  <2>1. n \in Nat /\ 0 \in 0..n /\ n \in 0..n
    BY PlacesAre
  <2>2. g[0] \in WalkStates /\ g[n] \in WalkStates /\ g[0] = WalkStart /\ w = g[n]
    BY <1>1, <2>1 DEF WalkSteps
  <2> QED BY <2>2
<1>3. <<0, WalkStart>> \in G
  BY <1>2, StartCuts, WalkBegins
<1>4. ASSUME NEW k \in 1..n, NEW u \in WalkStates, NEW v \in WalkStates,
             <<k - 1, u>> \in G, Stepped(u, v, beyond, TRUE)
      PROVE  <<k, v>> \in G
  <2>1. WalkCuts(u, beyond) /\ WalkGoesOn(u, beyond, k - 1) /\ k \in Nat
    BY <1>4, PlacesAre
  <2>2. WalkCuts(v, beyond)
    BY <1>4, <2>1, StepCuts
  <2>3. WalkGoesOn(v, beyond, k)
    BY <1>4, <2>1, WalkContinues
  <2> QED BY <2>1, <2>2, <2>3
<1> HIDE DEF G
<1>5. <<n, w>> \in G
  BY <1>1, <1>3, <1>4, WalkInduction
<1> HIDE DEF w
<1>6. WalkGoesOn(w, beyond, n)
  BY <1>5 DEF G
<1>7. w.at \notin Ordinary
  <2> SUFFICES ASSUME w.at \in Ordinary PROVE FALSE
    OBVIOUS
  <2>1. w.at \in Places
    BY DEF Ordinary
  <2>2. Depth(w.at) \in Nat /\ Cardinality(Places) = n /\ n \in Nat
    BY <2>1, DepthBelow, PlacesAre
  <2>3. Depth(w.at) + n < Cardinality(Places)
    BY <1>6 DEF WalkGoesOn
  <2> QED BY <2>2, <2>3
<1>8. \A p \in Rest(w) : IsRef(p)
  <2>1. CASE w.at = 0
    BY <2>1 DEF Rest
  <2>2. CASE w.at # 0
    <3>1. w.at \in Places /\ IsRef(w.at)
      BY <1>2, <1>7, <2>2 DEF WalkStates, Ordinary
    <3>2. Rest(w) = {w.at} \cup Past(links, w.at) /\ Past(links, w.at) = {}
      BY <2>2, <3>1, MembersStep, PastIsEarlier DEF Rest, Before
    <3> QED BY <3>1, <3>2
  <2> QED BY <2>1, <2>2
<1>9. Detections(End) \subseteq Members(links, End) /\ \A p \in Detections(End) : ~IsRef(p)
  BY EndIsPlace, ChainPlaces DEF Detections
<1>10. Detections(End) \subseteq w.out \cup w.kept
  BY <1>6, <1>8, <1>9 DEF WalkGoesOn
<1> QED BY <1>6, <1>10 DEF WalkGoesOn, w

\* A visit of a chain takes detections out of it.
LEMMA ClipUnlinks ==
  ASSUME Timed, Usable(links), AstrClip \/ PhotClip
  PROVE  visit'.out \in SUBSET Places /\ Cut(links, links', visit'.out)
<1>1. CASE AstrClip
  <2> DEFINE c == Detections(End)
             good == {q \in c : who[q] \notin input.flags.astr}
             value == [q \in Places |-> x[who[q]]]
             beyond == Outliers(c, good, value, clip.int)
             w == Walked(beyond, TRUE)
             meant == IF Cardinality(good) < 2 THEN good ELSE w.kept
             tested == {r \in References(End) : good # {} /\ w.links.next[r] # 0}
             far == {r \in tested : Beyond(value[r], Cardinality(meant),
                                           SumOver(value, meant), clip.ref)}
  <2>1. /\ EndsLeft # {} /\ links' = FoldSet(Without, w.links, far)
        /\ visit'.out = w.out \cup far
    BY <1>1 DEF AstrClip, Visiting
  <2> HIDE DEF beyond
  <2>2. w \in WalkStates /\ WalkCuts(w, beyond)
    BY <2>1, WalkedCuts
  <2>3. far \in SUBSET Places
    <3>1. References(End) \subseteq Places
      BY <2>1, EndIsPlace, ChainPlaces DEF References
    <3> QED BY <3>1
  <2> HIDE DEF w, far
  <2>4. w.out \in SUBSET Places /\ Cut(links, w.links, w.out)
    BY <2>2 DEF WalkStates, WalkCuts
  <2>5. Cut(links, FoldSet(Without, w.links, far), w.out \cup far)
    BY <2>3, <2>4, UnlinkFold
  <2> QED BY <2>1, <2>3, <2>4, <2>5
<1>2. CASE PhotClip
  <2> DEFINE c == {q \in Detections(End) : input.labels.photom[Layout[q]] = instru}
             good == {q \in c : who[q] \notin input.flags.phot}
             value == [q \in Places |-> mag[who[q]]]
             beyond == Outliers(c, good, value, clip.int)
             w == Walked(beyond, FALSE)
  <2>1. EndsLeft # {} /\ links' = w.links /\ visit'.out = w.out
    BY <1>2 DEF PhotClip, Visiting
  <2> HIDE DEF beyond
  <2>2. w \in WalkStates /\ WalkCuts(w, beyond)
    BY <2>1, WalkedCuts
  <2> HIDE DEF w
  <2> QED BY <2>1, <2>2 DEF WalkStates, WalkCuts
<1> QED BY <1>1, <1>2

\* The links are those of the arrays as they are by now.
Linkable == ~Stale /\ ~Doing("cross")
LinksMade == Linkable => Usable(links)

\* Arrays that are in order are not changed by a sort.
LEMMA SortedAlready ==
  ASSUME Arranged, InOrder, NEW T, NEW array \in [Places -> T]
  PROVE  Sorted(array) = array
<1>1. \A p \in Places : (IF IsRef(p) THEN array[p] ELSE array[SortedFrom(p)]) = array[p]
  BY SortedFromItself
<1> QED BY <1>1 DEF Sorted

LEMMA LastSort ==
  ASSUME Ordered, LinksMade, Reproject, at = "reproj3"
  PROVE  links' = links /\ who' = who /\ x' = sky /\ at' = "write"
<1>1. at' = "write" /\ InOrder /\ Arranged /\ Usable(links)
  BY Successors, DoingStep DEF Reproject, Ordered, LinksMade, Linkable, Stale
<1>2. who' = who
  BY <1>1, SortedAlready DEF Reproject, Arranged
<1>3. links.next \in [Places -> {0} \cup Places] /\ links.prev \in [Places -> {0} \cup Places]
  BY <1>1 DEF Usable
<1>4. Sorted(links.next) = links.next /\ Sorted(links.prev) = links.prev
  BY <1>1, <1>3, SortedAlready
<1>5. links' = [next |-> links.next, prev |-> links.prev]
  BY <1>4 DEF Reproject
<1>6. links = [next |-> links.next, prev |-> links.prev]
  BY <1>1 DEF Usable
<1> QED BY <1>1, <1>2, <1>5, <1>6 DEF Reproject

LEMMA NextLinks == Ordered /\ LinksMade /\ [Next]_vars => LinksMade'
<1> SUFFICES ASSUME Ordered, LinksMade, [Next]_vars PROVE LinksMade'
  OBVIOUS
<1>1. input' = input /\ Timed
  BY NextOrdered DEF Ordered
<1>2. ASSUME Usable(links') PROVE LinksMade'
  <2>1. \A p, q \in Places : Before(p, q)' <=> Before(p, q)
    BY <1>1 DEF Before
  <2>2. Usable(links)'
    BY <1>2, <2>1 DEF Usable
  <2> QED BY <2>2 DEF LinksMade
<1>3. ASSUME UNCHANGED links, Linkable' => Linkable PROVE LinksMade'
  <2>1. CASE Linkable
    BY <1>2, <1>3, <2>1 DEF LinksMade
  <2>2. CASE ~Linkable
    BY <1>3, <2>2 DEF LinksMade
  <2> QED BY <2>1, <2>2
<1>4. CASE Reproject
  <2>1. CASE at = "reproj3"
    BY <1>2, <1>4, <2>1, LastSort, DoingStep DEF LinksMade, Linkable, Stale
  <2>2. CASE at # "reproj3"
    <3>1. at' \in {"cross0", "cross1", "cross2"}
      BY <1>4, <2>2, DoingStep, Successors DEF Reproject
    <3>2. Doing("cross")'
      BY <3>1 DEF Doing, Steps
    <3> QED BY <3>2 DEF LinksMade, Linkable
  <2> QED BY <2>1, <2>2
<1>5. CASE CrossIdentify
  BY <1>1, <1>2, <1>5, LinkingUsable DEF CrossIdentify
<1>7. CASE Solve
  BY <1>3, <1>7, DoingStep DEF Solve, Linkable, Stale
<1>8. CASE Magnitudes
  BY <1>3, <1>8, DoingStep DEF Magnitudes, Linkable, Stale
<1>9. CASE StartPass
  BY <1>3, <1>9 DEF StartPass, Linkable, Stale, Doing
<1>10. CASE AstrClip \/ PhotClip
  <2>1. Linkable
    BY <1>10, DoingStep DEF AstrClip, PhotClip, Visiting, Linkable, Stale
  <2>2. Usable(links)
    BY <2>1 DEF LinksMade
  <2>3. Cut(links, links', visit'.out)
    BY <1>1, <1>10, <2>2, ClipUnlinks
  <2> QED BY <1>2, <2>3 DEF Cut
<1>11. CASE EndPass
  BY <1>3, <1>11, DoingStep DEF EndPass, Clipping, Linkable, Stale
<1>12. CASE PhotSolve
  BY <1>3, <1>12, DoingStep DEF PhotSolve, Linkable, Stale
<1>13. CASE Merge
  BY <1>3, <1>13, DoingStep DEF Merge, Linkable, Stale
<1>14. CASE ProperMotions
  BY <1>3, <1>14, DoingStep DEF ProperMotions, Linkable, Stale
<1>15. CASE WriteFull
  BY <1>3, <1>15, DoingStep DEF WriteFull, Linkable, Stale
<1>16. CASE UNCHANGED vars
  BY <1>3, <1>16 DEF vars, Linkable, Stale, Doing
<1> QED BY <1>4, <1>5, <1>7, <1>8, <1>9, <1>10, <1>11, <1>12, <1>13, <1>14, <1>15, <1>16 DEF Next

LEMMA InitLinks == Init => LinksMade
  BY DEF Init, LinksMade, Linkable, Stale

\* Whenever links are followed they are mutual, lead forwards in time, and
\* nothing comes before a reference: the clippings and the last sort leave them
\* so.
THEOREM LinksUsableHolds == Spec => []LinksUsable
<1>1. Ordered /\ LinksMade => LinksUsable
  <2> SUFFICES ASSUME LinksMade, ~Doing("reproj"), ~Doing("cross") PROVE LinksUsable
    BY DEF LinksUsable
  <2>1. Usable(links)
    BY DoingStep DEF LinksMade, Linkable, Stale
  <2> QED BY <2>1 DEF LinksUsable, Usable, Before
<1>2. Spec => []Ordered
  BY InitOrdered, NextOrdered, PTL DEF Spec
<1> QED BY <1>1, <1>2, InitLinks, NextLinks, PTL DEF Spec

---------------------------------------------------------------------------
(* What a clipping pass does to the chains *)

LEMMA LinkedPast == Linked = {pq \in Ordinary \X Ordinary : pq[2] \in Past(links, pq[1])}
  BY DEF Linked, Chain, Past

LEMMA ClipCuts ==
  ASSUME Ordered, LinksMade, AtRest, Next, Clipping
  PROVE  /\ Linked' \subseteq Linked
         /\ \A pq \in Linked \ Linked' : Range(pq) \cap visit'.out # {}
         /\ \A p \in visit'.out : links'.next[p] = 0 /\ links'.prev[p] = 0
<1>1. Linked' = {pq \in Ordinary \X Ordinary : pq[2] \in Past(links', pq[1])}
  BY DEF Linked, Chain, Past
<1>2. CASE AstrClip \/ PhotClip
  <2>1. Timed /\ Usable(links)
    BY <1>2, DoingStep DEF AstrClip, PhotClip, Visiting, Ordered, LinksMade, Linkable, Stale
  <2> DEFINE out == visit'.out
  <2>2. out \in SUBSET Places /\ Cut(links, links', out)
    BY <1>2, <2>1, ClipUnlinks
  <2> HIDE DEF out
  <2>3. /\ \A p \in out : links'.next[p] = 0 /\ links'.prev[p] = 0
        /\ \A p \in Places : Past(links', p) = IF p \in out THEN {} ELSE Past(links, p) \ out
    BY <2>2 DEF Cut
  <2>4. Ordinary \subseteq Places
    BY DEF Ordinary
  <2>5. Linked' \subseteq Linked
    BY <1>1, <2>3, <2>4, LinkedPast
  <2>6. ASSUME NEW pq \in Linked \ Linked' PROVE Range(pq) \cap out # {}
    <3>1. pq \in Ordinary \X Ordinary /\ pq[2] \in Past(links, pq[1]) /\ pq[2] \notin Past(links', pq[1])
      BY <1>1, <2>6, LinkedPast
    <3>2. pq[1] \in out \/ pq[2] \in out
      BY <2>3, <2>4, <3>1
    <3>3. pq[1] \in Range(pq) /\ pq[2] \in Range(pq)
      BY <3>1 DEF Range
    <3> QED BY <3>2, <3>3
  <2> QED BY <2>3, <2>5, <2>6 DEF out
<1>3. ASSUME UNCHANGED links, visit'.out = {}
      PROVE  /\ Linked' \subseteq Linked
             /\ \A pq \in Linked \ Linked' : Range(pq) \cap visit'.out # {}
             /\ \A p \in visit'.out : links'.next[p] = 0 /\ links'.prev[p] = 0
  <2>1. Linked' = Linked
    BY <1>1, <1>3, LinkedPast
  <2> QED BY <1>3, <2>1
<1>4. CASE StartPass
  <2>1. visit' = visit /\ links' = links /\ visit = NoVisit
    BY <1>4 DEF StartPass, AtRest
  <2> QED BY <1>3, <2>1 DEF NoVisit
<1>5. CASE EndPass
  BY <1>3, <1>5 DEF EndPass, NoVisit
<1>6. ~Reproject /\ ~CrossIdentify /\ ~Solve /\ ~Magnitudes
  BY DoingStep DEF Clipping, Reproject, CrossIdentify, Solve, Magnitudes
<1>7. ~PhotSolve /\ ~Merge /\ ~ProperMotions /\ ~WriteFull
  BY DoingStep DEF Clipping, PhotSolve, Merge, ProperMotions, WriteFull
<1> QED BY <1>2, <1>4, <1>5, <1>6, <1>7 DEF Next

LEMMA InitInvariants == Init => Ordered /\ LinksMade /\ AtRest
  BY InitOrdered, InitLinks, InitVisit

LEMMA NextInvariants ==
  Ordered /\ LinksMade /\ AtRest /\ [Next]_vars
     => (Ordered /\ LinksMade /\ AtRest)'
  BY NextOrdered, NextLinks, NextVisit

\* "Removes outliers from cross-identification linked lists": a detection is
\* taken out of its chain or stays with the others that stay; no chain is cut
\* in two, none joined.
THEOREM ClipOnlyCutsHolds == Spec => ClipOnlyCuts
<1>1. Spec => [](Ordered /\ LinksMade /\ AtRest)
  BY InitInvariants, NextInvariants, PTL DEF Spec
<1>2. Ordered /\ LinksMade /\ AtRest /\ [Next]_vars
         => [Clipping => /\ Linked' \subseteq Linked
                         /\ \A pq \in Linked \ Linked' : Range(pq) \cap visit'.out # {}
                         /\ \A p \in visit'.out : links'.next[p] = 0 /\ links'.prev[p] = 0]_vars
  BY ClipCuts
<1> QED BY <1>1, <1>2, PTL DEF Spec, ClipOnlyCuts

---------------------------------------------------------------------------
(* The mean a reference detection is compared with *)

KeptSome == visit.kept \in Nat \ {0}

LEMMA NextKept == Ordered /\ LinksMade /\ KeptSome /\ [Next]_vars => KeptSome'
<1> SUFFICES ASSUME Ordered, LinksMade, KeptSome, [Next]_vars PROVE KeptSome'
  OBVIOUS
<1>1. ASSUME UNCHANGED visit PROVE KeptSome'
  BY <1>1 DEF KeptSome
<1>2. CASE AstrClip
  <2>1. End \in Places
    BY <1>2, EndIsPlace DEF AstrClip, Visiting
  <2>2. Timed /\ Usable(links)
    BY <1>2, DoingStep DEF AstrClip, Visiting, Ordered, LinksMade, Linkable, Stale
  <2> DEFINE c == Detections(End)
             good == {q \in c : who[q] \notin input.flags.astr}
             value == [q \in Places |-> x[who[q]]]
             beyond == Outliers(c, good, value, clip.int)
             w == Walked(beyond, TRUE)
             meant == IF Cardinality(good) < 2 THEN good ELSE w.kept
             tested == {r \in References(End) : good # {} /\ w.links.next[r] # 0}
  <2>3. visit'.kept = IF tested = {} THEN 1 ELSE Cardinality(meant)
    BY <1>2 DEF AstrClip
  <2>4. c \subseteq Places /\ good \subseteq c /\ EndsLeft # {}
    BY <1>2, <2>1, <2>2, ChainPlaces DEF Detections, AstrClip, Visiting
  <2> HIDE DEF beyond
  <2>5. /\ w \in WalkStates /\ Cut(links, w.links, w.out)
        /\ c \subseteq w.out \cup w.kept
        /\ \A p \in Members(links, End) : w.links.next[p] \in {0} \cup Members(links, End)
    BY <2>2, <2>4, WalkedCuts, WalkedAll DEF WalkCuts
  <2> HIDE DEF w
  <2>6. ASSUME NEW r \in tested PROVE w.kept # {}
    <3> DEFINE q == w.links.next[r]
    <3>1. r \in Members(links, End) /\ r \in Places /\ q # 0
      BY <2>1, <2>2, ChainPlaces DEF References
    <3>2. q \in Members(links, End) /\ q \in Places
      BY <2>5, <3>1, <2>1, <2>2, PastIsEarlier
    <3>3. Before(r, q) /\ w.links.prev[q] = r
      BY <2>5, <3>1, <3>2, LaterLink DEF Cut
    <3>4. q \in c
      BY <2>1, <2>2, <3>2, <3>3, ChainPlaces DEF Detections, Before
    <3>5. q \notin w.out
      BY <2>5, <3>1, <3>3, PlacesAre DEF Cut
    <3> QED BY <2>5, <3>4, <3>5
  <2>7. meant \subseteq Places
    BY <2>4, <2>5 DEF WalkStates
  <2> HIDE DEF c, good
  <2>8. ASSUME tested # {} PROVE Cardinality(meant) \in Nat \ {0}
    <3>1. meant # {}
      BY <2>6, <2>8
    <3> HIDE DEF meant
    <3>2. IsFiniteSet(meant)
      BY <2>7, PlacesAre, FS_Subset
    <3> QED BY <3>1, <3>2, FS_EmptySet, FS_CardinalityType
  <2> HIDE DEF meant, tested
  <2> QED BY <2>3, <2>8 DEF KeptSome
<1>3. CASE PhotClip
  BY <1>3 DEF PhotClip, KeptSome
<1>4. CASE EndPass
  BY <1>4 DEF EndPass, KeptSome, NoVisit
<1>5. CASE StartPass
  BY <1>1, <1>5 DEF StartPass
<1>6. CASE Reproject \/ CrossIdentify \/ Solve \/ Magnitudes
  BY <1>1, <1>6 DEF Reproject, CrossIdentify, Solve, Magnitudes, pass
<1>7. CASE PhotSolve \/ Merge \/ ProperMotions \/ WriteFull
  BY <1>1, <1>7 DEF PhotSolve, Merge, ProperMotions, WriteFull, pass
<1>8. CASE UNCHANGED vars
  BY <1>1, <1>8 DEF vars, pass
<1> QED BY <1>2, <1>3, <1>4, <1>5, <1>6, <1>7, <1>8 DEF Next

\* The mean a reference detection is compared with is that of at least one
\* detection: what it is still linked to after the walk, if anything, is one the
\* walk has kept; when a chain loses all of them it is linked to nothing.
THEOREM ClipDefinedHolds == Spec => []ClipDefined
<1>1. Init => KeptSome
  BY DEF Init, KeptSome, NoVisit
<1>2. KeptSome => ClipDefined
  BY DEF KeptSome, ClipDefined
<1> QED BY <1>1, <1>2, InitInvariants, NextInvariants, NextKept, PTL DEF Spec

---------------------------------------------------------------------------
(* What a visit leaves of the outliers *)

Gone == ~Doing("photclip") =>
            \A q \in visit.beyond : links.next[q] = 0 /\ links.prev[q] = 0

LEMMA NextGone == Ordered /\ LinksMade /\ AtRest /\ Gone /\ [Next]_vars => Gone'
<1> SUFFICES ASSUME Ordered, LinksMade, AtRest, Gone, [Next]_vars PROVE Gone'
  OBVIOUS
<1>1. ASSUME visit'.beyond = {} PROVE Gone'
  BY <1>1 DEF Gone
<1>2. ASSUME UNCHANGED visit, ~Clipping PROVE Gone'
  BY <1>1, <1>2 DEF AtRest, NoVisit
<1>3. CASE AstrClip
  <2>1. Timed /\ Usable(links)
    BY <1>3, DoingStep DEF AstrClip, Visiting, Ordered, LinksMade, Linkable, Stale
  <2> DEFINE c == Detections(End)
             good == {q \in c : who[q] \notin input.flags.astr}
             value == [q \in Places |-> x[who[q]]]
             beyond == Outliers(c, good, value, clip.int)
             w == Walked(beyond, TRUE)
             meant == IF Cardinality(good) < 2 THEN good ELSE w.kept
             tested == {r \in References(End) : good # {} /\ w.links.next[r] # 0}
             far == {r \in tested : Beyond(value[r], Cardinality(meant),
                                           SumOver(value, meant), clip.ref)}
  <2>2. EndsLeft # {} /\ visit'.out = w.out \cup far /\ visit'.beyond = beyond \cup far
    BY <1>3 DEF AstrClip, Visiting
  <2>3. beyond \subseteq c
    BY DEF Outliers
  <2> HIDE DEF beyond
  <2>4. c \subseteq w.out \cup w.kept /\ w.kept \cap beyond = {}
    BY <2>1, <2>2, WalkedAll
  <2> HIDE DEF c, w, far
  <2>5. visit'.beyond \subseteq visit'.out
    BY <2>2, <2>3, <2>4
  <2>6. \A q \in visit'.out : links'.next[q] = 0 /\ links'.prev[q] = 0
    BY <1>3, <2>1, ClipUnlinks DEF Cut
  <2> QED BY <2>5, <2>6 DEF Gone
<1>4. CASE PhotClip
  BY <1>4 DEF PhotClip, Visiting, Gone, Doing
<1>5. CASE EndPass
  BY <1>1, <1>5 DEF EndPass, NoVisit
<1>6. CASE StartPass
  BY <1>1, <1>6 DEF StartPass, AtRest, NoVisit
<1>7. CASE Reproject \/ CrossIdentify \/ Solve \/ Magnitudes
  BY <1>2, <1>7, DoingStep DEF Reproject, CrossIdentify, Solve, Magnitudes, pass, Clipping
<1>8. CASE PhotSolve \/ Merge \/ ProperMotions \/ WriteFull
  BY <1>2, <1>8, DoingStep DEF PhotSolve, Merge, ProperMotions, WriteFull, pass, Clipping
<1>9. CASE UNCHANGED vars
  BY <1>9 DEF vars, pass, Gone, Doing
<1> QED BY <1>3, <1>4, <1>5, <1>6, <1>7, <1>8, <1>9 DEF Next

\* A visit of a chain by astrclip_fgroup gets to every detection of it, although
\* it unlinks outliers as it goes: none of them is linked to anything afterwards.
THEOREM AstrOutliersGoneHolds == Spec => []AstrOutliersGone
<1>1. Init => Gone
  BY DEF Init, Gone, NoVisit
<1>2. Gone => AstrOutliersGone
  BY DoingStep DEF Gone, AstrOutliersGone, Doing, Steps
<1> QED BY <1>1, <1>2, InitInvariants, NextInvariants, NextGone, PTL DEF Spec

---------------------------------------------------------------------------
(* The ends of the chains *)

\* The induction along a chain, forwards.
LEMMA LaterInduction ==
  ASSUME NEW l, Timed, Usable(l), NEW G,
         \A p \in Places : (l.next[p] # 0 => l.next[p] \in G) => p \in G
  PROVE  \A p \in Places : p \in G
<1> DEFINE n == Cardinality(Places)
           d == [q \in Places |-> n - Depth(q)]
<1>1. n \in Nat
  BY PlacesAre, FS_CardinalityType
<1>2. \A p \in Places : Depth(p) \in Nat /\ Depth(p) <= n
  BY DepthGrows
<1>3. \A p \in Places : d[p] \in Nat
  <2> HIDE DEF n
  <2> QED BY <1>1, <1>2
<1>4. ASSUME NEW p \in Places, \A q \in Places : d[q] < d[p] => q \in G PROVE p \in G
  <2>1. ASSUME l.next[p] # 0 PROVE l.next[p] \in G
    <3> DEFINE q == l.next[p]
    <3>1. q \in Places /\ Before(p, q)
      BY <2>1, LaterLink
    <3> HIDE DEF q
    <3>2. Depth(p) < Depth(q)
      BY <3>1, DepthGrows
    <3>3. d[q] < d[p]
      <4> HIDE DEF n
      <4> QED BY <1>1, <1>2, <3>1, <3>2
    <3>4. q \in G
      BY <1>4, <3>1, <3>3
    <3> QED BY <3>4 DEF q
  <2> QED BY <1>4, <2>1
<1> HIDE DEF d
<1> QED BY <1>3, <1>4, DepthInduction

\* The detections that follow p.
Future(l, p) == Range(Tail(ChainOf(l.next, p)))

LEMMA FutureStep ==
  ASSUME NEW l, Timed, Usable(l), NEW p \in Places
  PROVE  /\ Tail(ChainOf(l.next, p)) \in Seq(Places)
         /\ Future(l, p) = IF l.next[p] = 0 THEN {} ELSE {l.next[p]} \cup Future(l, l.next[p])
<1> DEFINE n == Cardinality(Places)
           d == [q \in Places |-> n - Depth(q)]
<1>1. n \in Nat /\ \A q \in Places : Depth(q) \in Nat /\ Depth(q) <= n
  BY PlacesAre, FS_CardinalityType, DepthGrows
<1>2. l.next \in [Places -> {0} \cup Places]
  BY DEF Usable
<1>3. \A q \in Places : l.next[q] # 0 => l.next[q] \in Places /\ Depth(q) < Depth(l.next[q])
  BY LaterLink, DepthGrows
<1>4. d \in [Places -> Nat] /\ \A q \in Places : l.next[q] # 0 => d[l.next[q]] < d[q]
  <2> HIDE DEF n
  <2>1. \A q \in Places : d[q] = n - Depth(q) /\ d[q] \in Nat
    BY <1>1
  <2>2. ASSUME NEW q \in Places, l.next[q] # 0 PROVE d[l.next[q]] < d[q]
    BY <1>1, <1>3, <2>1, <2>2
  <2> QED BY <2>1, <2>2
<1> HIDE DEF d
<1>5. \A q \in Places : /\ ChainOf(l.next, q) \in Seq(Places)
                        /\ ChainOf(l.next, q) = IF l.next[q] = 0 THEN <<q>>
                                                ELSE <<q>> \o ChainOf(l.next, l.next[q])
  BY <1>2, <1>4, WalkStep
<1>6. CASE l.next[p] = 0
  <2>1. ChainOf(l.next, p) = <<p>>
    BY <1>5, <1>6
  <2>2. Tail(<<p>>) = <<>> /\ <<>> \in Seq(Places) /\ Range(<<>>) = {}
    BY DEF Range
  <2> QED BY <1>6, <2>1, <2>2 DEF Future
<1>7. CASE l.next[p] # 0
  <2> DEFINE r == l.next[p]
  <2>1. r \in Places
    BY <1>3, <1>7
  <2> HIDE DEF r
  <2>2. ChainOf(l.next, p) = <<p>> \o ChainOf(l.next, r)
    BY <1>5, <1>7 DEF r
  <2>3. ChainOf(l.next, r) \in Seq(Places)
    BY <1>5, <2>1
  <2>4. Tail(ChainOf(l.next, p)) = ChainOf(l.next, r)
    BY <2>2, <2>3, RangeCons
  <2>5. Range(ChainOf(l.next, r)) = {r} \cup Future(l, r)
    <3>1. CASE l.next[r] = 0
      <4>1. ChainOf(l.next, r) = <<r>>
        BY <1>5, <2>1, <3>1
      <4>2. Range(<<r>>) = {r} /\ Range(Tail(<<r>>)) = {}
        BY DEF Range
      <4> QED BY <4>1, <4>2 DEF Future
    <3>2. CASE l.next[r] # 0
      <4>1. /\ l.next[r] \in Places /\ ChainOf(l.next, l.next[r]) \in Seq(Places)
            /\ ChainOf(l.next, r) = <<r>> \o ChainOf(l.next, l.next[r])
        BY <1>3, <1>5, <2>1, <3>2
      <4>2. /\ Range(<<r>> \o ChainOf(l.next, l.next[r]))
                  = {r} \cup Range(ChainOf(l.next, l.next[r]))
            /\ Tail(<<r>> \o ChainOf(l.next, l.next[r])) = ChainOf(l.next, l.next[r])
        BY <2>1, <4>1, RangeCons
      <4> QED BY <4>1, <4>2 DEF Future
    <3> QED BY <3>1, <3>2
  <2> QED BY <1>7, <2>3, <2>4, <2>5 DEF Future, r
<1> QED BY <1>6, <1>7

\* They are those p is before.
LEMMA FutureIsPast ==
  ASSUME NEW l, Timed, Usable(l)
  PROVE  \A p, q \in Places : q \in Future(l, p) <=> p \in Past(l, q)
<1> DEFINE Good(p) == \A q \in Places : q \in Future(l, p) <=> p \in Past(l, q)
           G == {p \in Places : Good(p)}
<1>1. ASSUME NEW p \in Places, l.next[p] # 0 => l.next[p] \in G PROVE p \in G
  <2>1. CASE l.next[p] = 0
    <3>1. Future(l, p) = {}
      BY <2>1, FutureStep
    <3>2. \A q \in Places : p \notin Past(l, q)
      BY <2>1, PastLinked
    <3> QED BY <3>1, <3>2
  <2>2. CASE l.next[p] # 0
    <3> DEFINE r == l.next[p]
    <3>1. r \in Places /\ l.prev[r] = p /\ Good(r) /\ p # 0
      BY <1>1, <2>2, LaterLink, PlacesAre
    <3>2. Future(l, p) = {r} \cup Future(l, r)
      BY <2>2, FutureStep
    <3>3. p \in Members(l, r)
      <4>1. Past(l, r) = Members(l, p) /\ Members(l, r) = {r} \cup Past(l, r)
        BY <3>1, MembersStep
      <4>2. p \in Members(l, p)
        BY MembersStep
      <4> QED BY <4>1, <4>2
    <3>4. ASSUME NEW q \in Places, p \in Past(l, q) PROVE r \in Members(l, q)
      BY <3>4, PastLinked
    <3> HIDE DEF r
    <3>5. ASSUME NEW q \in Places, r \in Members(l, q) PROVE p \in Past(l, q)
      <4>1. CASE r = q
        <5>1. Past(l, r) = Members(l, p) /\ p \in Members(l, p)
          BY <3>1, MembersStep
        <5> QED BY <4>1, <5>1
      <4>2. CASE r # q
        <5>1. r \in Past(l, q)
          BY <3>5, <4>2, MembersStep
        <5>2. l.prev[q] # 0 /\ Past(l, q) = Members(l, l.prev[q])
          BY <5>1, MembersStep
        <5>3. l.prev[q] \in Places /\ r \in Members(l, l.prev[q])
          BY <5>1, <5>2, EarlierLink
        <5>4. Members(l, r) \subseteq Members(l, l.prev[q])
          BY <5>3, PastLinked
        <5> QED BY <3>3, <5>2, <5>4
      <4> QED BY <4>1, <4>2
    <3>6. \A q \in Places : Members(l, q) = {q} \cup Past(l, q)
      BY MembersStep
    <3>7. Good(p)
      BY <3>1, <3>2, <3>4, <3>5, <3>6
    <3> QED BY <3>7
  <2> QED BY <2>1, <2>2
<1> HIDE DEF G
<1>2. \A p \in Places : p \in G
  BY <1>1, LaterInduction
<1> QED BY <1>2 DEF G

\* Every detection is in the chain of one end, and one only.
LEMMA OneEnd ==
  ASSUME NEW l, Timed, Usable(l), NEW r \in Places
  PROVE  /\ \E p \in Places : l.next[p] = 0 /\ r \in Members(l, p)
         /\ \A p, q \in Places : /\ l.next[p] = 0 /\ l.next[q] = 0
                                 /\ r \in Members(l, p) /\ r \in Members(l, q)
                                 => p = q
<1> DEFINE Good(s) ==
               /\ \E p \in Places : l.next[p] = 0 /\ s \in Members(l, p)
               /\ \A p, q \in Places : /\ l.next[p] = 0 /\ l.next[q] = 0
                                       /\ s \in Members(l, p) /\ s \in Members(l, q)
                                       => p = q
           G == {s \in Places : Good(s)}
<1>1. \A p \in Places :
         /\ Members(l, p) = {p} \cup Past(l, p)
         /\ \A s \in Past(l, p) : l.next[s] # 0 /\ l.next[s] \in Members(l, p)
         /\ \A s \in Members(l, p) : Members(l, s) \subseteq Members(l, p)
  BY MembersStep, PastLinked
<1>2. ASSUME NEW s \in Places, l.next[s] # 0 => l.next[s] \in G PROVE s \in G
  <2>1. CASE l.next[s] = 0
    <3>1. \A p \in Places : s \in Members(l, p) => s = p
      BY <1>1, <2>1
    <3>2. s \in Members(l, s)
      BY <1>1
    <3> QED BY <2>1, <3>1, <3>2
  <2>2. CASE l.next[s] # 0
    <3> DEFINE t == l.next[s]
    <3>1. t \in Places /\ l.prev[t] = s /\ Good(t) /\ s # 0
      BY <1>2, <2>2, LaterLink, PlacesAre
    <3>2. s \in Members(l, t)
      <4>1. Past(l, t) = Members(l, s) /\ Members(l, t) = {t} \cup Past(l, t)
        BY <3>1, MembersStep
      <4> QED BY <1>1, <4>1
    <3>3. \A p \in Places : s \in Members(l, p) /\ l.next[p] = 0 => t \in Members(l, p)
      BY <1>1, <2>2
    <3> HIDE DEF t
    <3>4. \E p \in Places : l.next[p] = 0 /\ s \in Members(l, p)
      <4>1. PICK p \in Places : l.next[p] = 0 /\ t \in Members(l, p)
        BY <3>1
      <4> QED BY <1>1, <3>2, <4>1
    <3> QED BY <3>1, <3>3, <3>4
  <2> QED BY <2>1, <2>2
<1> HIDE DEF G
<1>3. \A s \in Places : s \in G
  BY <1>2, LaterInduction
<1>4. Good(r)
  BY <1>3 DEF G
<1> QED BY <1>4

---------------------------------------------------------------------------
(* Sources *)

\* The detections in the places of s.
Whose(s) == [j \in DOMAIN s |-> who[s[j]]]

LEMMA WhoseRange ==
  ASSUME NEW s \in Seq(Places)
  PROVE  Range(Whose(s)) = {who[q] : q \in Range(s)}
  BY DEF Whose, Range

LEMMA WhoseCardinality ==
  ASSUME Arranged, NEW S \in SUBSET Places
  PROVE  Cardinality({who[q] : q \in S}) = Cardinality(S)
<1> DEFINE D == {who[q] : q \in S}
           f == [q \in S |-> who[q]]
<1>1. f \in [S -> D] /\ \A d \in D : \E q \in S : f[q] = d
  OBVIOUS
<1> HIDE DEF D
<1>2. \A q, r \in S : f[q] = f[r] => q = r
  BY DEF Arranged
<1>3. ExistsBijection(S, D)
  BY <1>1, <1>2 DEF ExistsBijection, Bijection, Injection, Surjection, IsInjective
<1>4. IsFiniteSet(S)
  BY PlacesAre, FS_Interval, FS_Subset
<1>5. Cardinality(D) = Cardinality(S)
  BY <1>3, <1>4, FS_Bijection
<1> QED BY <1>5 DEF D

\* Those of the members of a source that are counted.
CountedOf(members) == {d \in Range(members) : ~IsRef(d) \/ input.refflag}

SourcesSound ==
    /\ DOMAIN msample \subseteq Ordinary
    /\ msamp \in [Places -> {0} \cup Places]
    /\ \A i \in DOMAIN msample :
          /\ {"members", "npos_tot"} \subseteq DOMAIN msample[i]
          /\ msample[i].npos_tot = Cardinality(CountedOf(msample[i].members))
    /\ \A i, j \in DOMAIN msample :
          i # j => Range(msample[i].members) \cap Range(msample[j].members) = {}
    /\ \A p \in Places : \A i \in DOMAIN msample :
          msamp[p] = i <=> who[p] \in Range(msample[i].members)
    /\ \A p \in Places : msamp[p] = 0 => IsRef(p) \/ who[p] \in input.flags.astr

LEMMA SourceOf ==
  ASSUME Ordered, Usable(links), NEW p \in Places
  PROVE  /\ Source(p).npos_tot = Cardinality(CountedOf(Source(p).members))
         /\ Source(p).members = Whose(Chain(p))
         /\ Range(Source(p).members) = {who[q] : q \in Members(links, p)}
         /\ {"members", "npos_tot"} \subseteq DOMAIN Source(p)
<1>1. /\ Source(p).members = Whose(Chain(p))
      /\ Source(p).npos_tot = Cardinality(Counted(p))
      /\ {"members", "npos_tot"} \subseteq DOMAIN Source(p)
  BY DEF Source, Whose
<1>2. /\ Chain(p) \in Seq(Places) /\ Range(Chain(p)) = Members(links, p)
      /\ Members(links, p) \subseteq Places
  BY ChainStep, ChainPlaces DEF Chain, Ordered
<1>3. Range(Source(p).members) = {who[q] : q \in Members(links, p)}
  BY <1>1, <1>2, WhoseRange
<1>4. Counted(p) = {q \in Members(links, p) : ~IsRef(q) \/ input.refflag}
  BY <1>2 DEF Counted
<1>5. \A q \in Places : IsRef(who[q]) <=> IsRef(q)
  BY DEF Ordered, Arranged, IsRef
<1>6. CountedOf(Source(p).members) = {who[q] : q \in Counted(p)}
  BY <1>2, <1>3, <1>4, <1>5 DEF CountedOf
<1>7. Counted(p) \in SUBSET Places
  BY <1>2, <1>4
<1>8. Cardinality({who[q] : q \in Counted(p)}) = Cardinality(Counted(p))
  BY <1>7, WhoseCardinality DEF Ordered
<1> QED BY <1>1, <1>3, <1>6, <1>8

LEMMA MergeSound ==
  ASSUME Ordered, Usable(links), Merge, bad = {}
  PROVE  SourcesSound' /\ \A i \in DOMAIN msample' : msample'[i].members = Whose(Chain(i))
<1>1. /\ msample' = [p \in Tails |-> Source(p)]
      /\ msamp' = [q \in Places |-> IF \E p \in Tails : q \in Range(Chain(p))
                                    THEN CHOOSE p \in Tails : q \in Range(Chain(p))
                                    ELSE 0]
      /\ who' = who /\ input' = input
  BY DEF Merge, data
<1>2. Tails \subseteq Ordinary /\ Tails \subseteq Places /\ 0 \notin Tails
  BY PlacesAre DEF Tails, Ordinary
<1>3. \A p \in Tails : /\ links.next[p] = 0
                       /\ Range(Chain(p)) = Members(links, p)
                       /\ Members(links, p) \subseteq Places
  BY <1>2, ChainPlaces DEF Tails, Ordered
<1>4. \A p \in Tails : /\ msample'[p].npos_tot = Cardinality(CountedOf(msample'[p].members))
                       /\ msample'[p].members = Whose(Chain(p))
                       /\ Range(msample'[p].members) = {who[q] : q \in Members(links, p)}
                       /\ {"members", "npos_tot"} \subseteq DOMAIN msample'[p]
  BY <1>1, <1>2, SourceOf
<1>5. \A q \in Places : \A i, j \in Tails :
         q \in Members(links, i) /\ q \in Members(links, j) => i = j
  BY <1>2, <1>3, OneEnd DEF Ordered
<1>6. ASSUME NEW q \in Places, NEW i \in Tails
      PROVE  who[q] \in Range(msample'[i].members) <=> q \in Members(links, i)
  <2>1. \A r \in Places : who[r] = who[q] => r = q
    BY DEF Ordered, Arranged
  <2> QED BY <1>3, <1>4, <2>1
<1>7. ASSUME NEW i \in Tails, NEW j \in Tails, i # j
      PROVE  Range(msample'[i].members) \cap Range(msample'[j].members) = {}
  <2> SUFFICES ASSUME NEW d \in Range(msample'[i].members), d \in Range(msample'[j].members)
               PROVE  FALSE
    OBVIOUS
  <2>1. PICK q \in Members(links, i) : d = who[q]
    BY <1>4
  <2>2. q \in Places
    BY <1>3, <2>1
  <2>3. q \in Members(links, j)
    BY <1>6, <2>1, <2>2
  <2> QED BY <1>5, <1>7, <2>1, <2>2, <2>3
<1>8. ASSUME NEW q \in Places
      PROVE  /\ msamp'[q] \in {0} \cup Tails
             /\ \A i \in Tails : msamp'[q] = i <=> q \in Members(links, i)
             /\ msamp'[q] = 0 => ~ \E p \in Tails : q \in Members(links, p)
  <2>1. CASE \E p \in Tails : q \in Range(Chain(p))
    <3> DEFINE t == CHOOSE p \in Tails : q \in Range(Chain(p))
    <3>1. t \in Tails /\ q \in Range(Chain(t))
      BY <2>1
    <3>2. msamp'[q] = t
      BY <1>1, <2>1
    <3> HIDE DEF t
    <3>3. q \in Members(links, t)
      BY <1>3, <3>1
    <3> QED BY <1>2, <1>5, <3>1, <3>2, <3>3
  <2>2. CASE ~ \E p \in Tails : q \in Range(Chain(p))
    <3>1. msamp'[q] = 0
      BY <1>1, <2>2
    <3> QED BY <1>2, <1>3, <2>2, <3>1
  <2> QED BY <2>1, <2>2
<1>9. ASSUME NEW q \in Places, msamp'[q] = 0, ~IsRef(q) PROVE who[q] \in input.flags.astr
  <2>1. PICK t \in Places : links.next[t] = 0 /\ q \in Members(links, t)
    BY OneEnd DEF Ordered
  <2>2. ~IsRef(t)
    <3>1. q = t \/ q \in Past(links, t)
      BY <2>1, MembersStep DEF Ordered
    <3>2. q \in Past(links, t) => Before(q, t)
      BY PastIsEarlier DEF Ordered
    <3> QED BY <1>9, <3>1, <3>2 DEF Before
  <2>3. t \notin Tails
    BY <1>8, <1>9, <2>1
  <2>4. Used(t) = {}
    BY <2>1, <2>2, <2>3 DEF Tails, Ordinary
  <2>5. q \in Counted(t)
    BY <1>9, <2>1, ChainPlaces DEF Counted, Ordered
  <2> QED BY <2>4, <2>5 DEF Used
<1>10. DOMAIN msample' = Tails
  BY <1>1
<1>11. msamp' \in [Places -> {0} \cup Places]
  <2>1. msamp' = [q \in Places |-> msamp'[q]]
    BY <1>1
  <2> QED BY <1>2, <1>8, <2>1
<1>12. who' = who /\ input' = input
  BY <1>1
<1>13. SourcesSound'
  <2>1. DOMAIN msample' \subseteq Ordinary
    BY <1>2, <1>10
  <2>2. ASSUME NEW i \in DOMAIN msample'
        PROVE  /\ {"members", "npos_tot"} \subseteq DOMAIN msample'[i]
               /\ msample'[i].npos_tot = Cardinality(CountedOf(msample'[i].members))
    BY <1>4, <1>10
  <2>3. \A i \in DOMAIN msample' : CountedOf(msample[i].members)' = CountedOf(msample'[i].members)
    BY <1>12 DEF CountedOf
  <2>4. \A i, j \in DOMAIN msample' :
           i # j => Range(msample'[i].members) \cap Range(msample'[j].members) = {}
    BY <1>7, <1>10
  <2>5. ASSUME NEW p \in Places, NEW i \in DOMAIN msample'
        PROVE  msamp'[p] = i <=> who'[p] \in Range(msample'[i].members)
    BY <1>6, <1>8, <1>10, <1>12
  <2>6. ASSUME NEW p \in Places, msamp'[p] = 0
        PROVE  IsRef(p) \/ who'[p] \in input'.flags.astr
    BY <1>9, <1>12, <2>6
  <2> QED BY <1>11, <2>1, <2>2, <2>3, <2>4, <2>5, <2>6 DEF SourcesSound
<1> QED BY <1>4, <1>10, <1>13

\* Nothing is flagged before the motions are looked at.
NoneBad == at \notin {"reproj3", "write", "end"} => bad = {}

SourcesMade == Merged => SourcesSound

\* From the last merge on the chains are those the sources were made of.
Listed == at \in {"motions", "reproj3", "write"} =>
    \A i \in DOMAIN msample : msample[i].members = Whose(Chain(i))

Written == at = "end" => \A i \in DOMAIN msample : rows[i] = msample[i].members

LEMMA SourcesKept ==
  ASSUME SourcesSound, UNCHANGED <<input, who, msamp>>, DOMAIN msample' = DOMAIN msample,
         \A i \in DOMAIN msample : /\ msample'[i].members = msample[i].members
                                   /\ msample'[i].npos_tot = msample[i].npos_tot
                                   /\ DOMAIN msample'[i] = DOMAIN msample[i]
  PROVE  SourcesSound'
<1>1. input' = input /\ who' = who /\ msamp' = msamp
  OBVIOUS
<1>2. \A i \in DOMAIN msample : CountedOf(msample[i].members)' = CountedOf(msample[i].members)
  BY <1>1 DEF CountedOf
<1> QED BY <1>1, <1>2 DEF SourcesSound

LEMMA MotionsKept ==
  ASSUME SourcesSound, ProperMotions
  PROVE  /\ UNCHANGED <<input, who, links, msamp>> /\ at' = "reproj3"
         /\ DOMAIN msample' = DOMAIN msample
         /\ \A i \in DOMAIN msample : /\ msample'[i].members = msample[i].members
                                      /\ msample'[i].npos_tot = msample[i].npos_tot
                                      /\ DOMAIN msample'[i] = DOMAIN msample[i]
<1>1. PICK rounding \in Roundings :
         LET motion == [p \in DOMAIN msample |->
                 IF links.prev[p] = 0
                 THEN [bad |-> {}, flagged |-> FALSE, fit |-> {}]
                 ELSE Motion(Seen(p, rounding), msample[p].npos_ok)]
         IN  msample' = [p \in DOMAIN msample |->
                [msample[p] EXCEPT !.flagged = motion[p].flagged, !.fit = motion[p].fit]]
  BY DEF ProperMotions
<1> DEFINE motion == [p \in DOMAIN msample |->
                 IF links.prev[p] = 0
                 THEN [bad |-> {}, flagged |-> FALSE, fit |-> {}]
                 ELSE Motion(Seen(p, rounding), msample[p].npos_ok)]
<1>2. msample' = [p \in DOMAIN msample |->
          [msample[p] EXCEPT !.flagged = motion[p].flagged, !.fit = motion[p].fit]]
  BY <1>1
<1> HIDE DEF motion
<1>3. DOMAIN msample' = DOMAIN msample
  BY <1>2
<1>4. ASSUME NEW i \in DOMAIN msample
      PROVE  /\ msample'[i].members = msample[i].members
             /\ msample'[i].npos_tot = msample[i].npos_tot
             /\ DOMAIN msample'[i] = DOMAIN msample[i]
  <2>1. "members" \in DOMAIN msample[i] /\ "npos_tot" \in DOMAIN msample[i]
    BY DEF SourcesSound
  <2>2. msample'[i] = [msample[i] EXCEPT !.flagged = motion[i].flagged, !.fit = motion[i].fit]
    BY <1>2
  <2> QED BY <2>1, <2>2
<1>5. at' = "reproj3"
  BY DoingStep, Successors DEF ProperMotions
<1> QED BY <1>3, <1>4, <1>5 DEF ProperMotions, data

LEMMA NextSources ==
  ASSUME Ordered, LinksMade, NoneBad, SourcesMade, Listed, Written, [Next]_vars
  PROVE  NoneBad' /\ SourcesMade' /\ Listed' /\ Written'
<1> DEFINE early == {"cross0", "cross1", "cross2", "solve1", "reproj1", "reproj2", "astrclip1",
                     "solve2", "astrclip2", "photsolve1", "mags0", "mags1", "photclip1",
                     "photsolve2", "mags2", "photclip2", "merge1"}
<1>1. ASSUME UNCHANGED bad, at' \in early, at \notin {"reproj3", "write", "end"}
      PROVE  NoneBad' /\ SourcesMade' /\ Listed' /\ Written'
  BY <1>1 DEF NoneBad, SourcesMade, Listed, Written, Merged
<1>2. CASE Reproject
  <2>1. CASE at = "reproj3"
    <3>1. links' = links /\ who' = who /\ at' = "write"
      BY <1>2, <2>1, LastSort
    <3>2. SourcesSound
      BY <2>1 DEF SourcesMade, Merged
    <3>3. msamp' = msamp
      <4>1. Arranged /\ InOrder
        BY <2>1 DEF Ordered, Stale
      <4>2. Sorted(msamp) = msamp
        BY <3>2, <4>1, SortedAlready DEF SourcesSound
      <4> QED BY <1>2, <4>2 DEF Reproject
    <3>4. input' = input /\ msample' = msample
      BY <1>2 DEF Reproject
    <3>5. SourcesSound'
      BY <3>1, <3>2, <3>3, <3>4, SourcesKept
    <3>6. Listed'
      BY <2>1, <3>1, <3>4 DEF Listed, Whose, Chain
    <3> QED BY <3>1, <3>5, <3>6 DEF NoneBad, SourcesMade, Written
  <2>2. CASE at # "reproj3"
    <3>1. at \in {"reproj0", "reproj1", "reproj2"} /\ at' \in early /\ bad' = bad
      BY <1>2, <2>2, DoingStep, Successors DEF Reproject
    <3> QED BY <1>1, <3>1
  <2> QED BY <2>1, <2>2
<1>3. CASE CrossIdentify
  <2>1. CASE at = "cross3"
    <3>1. at' = "merge2"
      BY <1>3, <2>1, Successors DEF CrossIdentify
    <3>2. SourcesSound
      BY <2>1 DEF SourcesMade, Merged
    <3>3. UNCHANGED <<input, who, msamp, msample, bad>>
      BY <1>3 DEF CrossIdentify, data
    <3>4. SourcesSound'
      BY <3>2, <3>3, SourcesKept
    <3> QED BY <2>1, <3>1, <3>3, <3>4 DEF NoneBad, SourcesMade, Listed, Written
  <2>2. CASE at # "cross3"
    <3>1. at \in {"cross0", "cross1", "cross2"} /\ at' \in early /\ bad' = bad
      BY <1>3, <2>2, DoingStep, Successors DEF CrossIdentify
    <3> QED BY <1>1, <3>1
  <2> QED BY <2>1, <2>2
<1>4. CASE Merge
  <2>1. at \in {"merge1", "merge2"} /\ at' \in {"cross3", "write", "motions"}
    BY <1>4, DoingStep, Successors DEF Merge
  <2>2. Usable(links) /\ bad = {} /\ bad' = bad
    BY <1>4, <2>1, DoingStep DEF Merge, LinksMade, Linkable, Stale, NoneBad
  <2>3. SourcesSound' /\ \A i \in DOMAIN msample' : msample'[i].members = Whose(Chain(i))
    BY <1>4, <2>2, MergeSound
  <2>4. who' = who /\ links' = links
    BY <1>4 DEF Merge, data
  <2>5. Listed'
    BY <2>3, <2>4 DEF Listed, Whose, Chain
  <2> QED BY <2>1, <2>2, <2>3, <2>5 DEF NoneBad, SourcesMade, Written
<1>5. CASE ProperMotions
  <2>1. at = "motions" /\ SourcesSound
    BY <1>5, DoingStep DEF ProperMotions, SourcesMade, Merged
  <2>2. /\ UNCHANGED <<input, who, links, msamp>> /\ at' = "reproj3"
        /\ DOMAIN msample' = DOMAIN msample
        /\ \A i \in DOMAIN msample : /\ msample'[i].members = msample[i].members
                                     /\ msample'[i].npos_tot = msample[i].npos_tot
                                     /\ DOMAIN msample'[i] = DOMAIN msample[i]
    BY <1>5, <2>1, MotionsKept
  <2>3. SourcesSound'
    BY <2>1, <2>2, SourcesKept
  <2>4. Listed'
    BY <2>1, <2>2 DEF Listed, Whose, Chain
  <2> QED BY <2>2, <2>3, <2>4 DEF NoneBad, SourcesMade, Written
<1>6. CASE WriteFull
  <2>1. at = "write" /\ at' = "end" /\ SourcesSound
    BY <1>6, DoingStep, Successors DEF WriteFull, SourcesMade, Merged
  <2>2. /\ rows' = [p \in DOMAIN msample |-> Whose(Chain(p))]
        /\ UNCHANGED <<input, who, msamp, msample>>
    BY <1>6 DEF WriteFull, data, Whose
  <2>3. SourcesSound'
    BY <2>1, <2>2, SourcesKept
  <2>4. \A i \in DOMAIN msample : rows'[i] = msample[i].members
    BY <2>1, <2>2 DEF Listed
  <2> QED BY <2>1, <2>2, <2>3, <2>4 DEF NoneBad, SourcesMade, Listed, Written
<1>7. CASE Solve
  BY <1>1, <1>7, DoingStep, Successors DEF Solve
<1>8. CASE Magnitudes
  BY <1>1, <1>8, DoingStep, Successors DEF Magnitudes
<1>9. CASE PhotSolve
  BY <1>1, <1>9, DoingStep, Successors DEF PhotSolve
<1>10. CASE StartPass
  BY <1>1, <1>10, DoingStep DEF StartPass, Clipping
<1>11. CASE AstrClip
  BY <1>1, <1>11, DoingStep DEF AstrClip, Visiting
<1>12. CASE PhotClip
  BY <1>1, <1>12, DoingStep DEF PhotClip, Visiting
<1>13. CASE EndPass
  BY <1>1, <1>13, DoingStep, Successors DEF EndPass, Clipping
<1>14. CASE UNCHANGED vars
  <2>1. UNCHANGED <<input, who, links, msamp, msample, at, bad, rows>>
    BY <1>14 DEF vars, data
  <2>2. SourcesSound => SourcesSound'
    BY <2>1, SourcesKept
  <2>3. Listed'
    BY <2>1 DEF Listed, Whose, Chain
  <2> QED BY <2>1, <2>2, <2>3 DEF NoneBad, SourcesMade, Written, Merged
<1> QED BY <1>2, <1>3, <1>4, <1>5, <1>6, <1>7, <1>8, <1>9, <1>10, <1>11, <1>12, <1>13,
           <1>14 DEF Next

LEMMA SourcesAlways ==
  Spec => [](NoneBad /\ SourcesMade /\ Listed /\ Written)
<1>1. Init => NoneBad /\ SourcesMade /\ Listed /\ Written
  BY DEF Init, NoneBad, SourcesMade, Listed, Written, Merged
<1>2. Ordered /\ LinksMade /\ NoneBad /\ SourcesMade /\ Listed /\ Written /\ [Next]_vars
         => (NoneBad /\ SourcesMade /\ Listed /\ Written)'
  BY NextSources
<1> QED BY <1>1, <1>2, InitInvariants, NextInvariants, PTL DEF Spec

\* A detection is a member of one source at most, of one at least unless it is
\* flagged, and points to that one -- not to a source of an earlier merge.
THEOREM MergedOnceHolds == Spec => []MergedOnce
<1>1. SourcesMade => MergedOnce
  BY DEF SourcesMade, SourcesSound, MergedOnce
<1> QED BY <1>1, SourcesAlways, PTL

\* The full catalogue lists under a source the chain merge_fgroup has made it of,
\* and as many detections as the merged catalogue says there are.
THEOREM CatalogueAgreesHolds == Spec => []CatalogueAgrees
<1>1. SourcesMade /\ Written => CatalogueAgrees
  <2> SUFFICES ASSUME SourcesMade, Written, at = "end", NEW i \in DOMAIN msample
               PROVE  /\ rows[i] = msample[i].members
                      /\ msample[i].npos_tot = Cardinality({d \in Range(rows[i]) :
                                                               ~IsRef(d) \/ input.refflag})
    BY DoingStep DEF CatalogueAgrees
  <2>1. rows[i] = msample[i].members
    BY DEF Written
  <2>2. msample[i].npos_tot = Cardinality(CountedOf(msample[i].members))
    BY DEF SourcesMade, SourcesSound, Merged
  <2> QED BY <2>1, <2>2 DEF CountedOf
<1> QED BY <1>1, SourcesAlways, PTL

---------------------------------------------------------------------------
(* Bad detections: one trial, one turn, the loop *)

\* What the search may make its choices from.
Sighted(c) == c.good \in SUBSET Places /\ c.chain \in Seq(Places)

Chi2s(c) == {Chi2(c, fit, rounding) : fit \in SUBSET c.good,
                                      rounding \in {0} \cup {c.rounding[d] : d \in c.good}}
NFrees(c) == {NFree(c, fit) : fit \in SUBSET c.good}

Marks(c) == [bad : SUBSET c.good, chi2min : Chi2s(c), nfreemin : NFrees(c),
             solved : SUBSET c.good, slowest : SUBSET c.good, sampmin : {0} \cup c.good,
             samppropmod : {0} \cup c.good, flagged : BOOLEAN]

LEMMA NotedMarks ==
  ASSUME NEW c, NEW m \in Marks(c), NEW d \in c.good, NEW fit \in SUBSET c.good,
         NEW chi2 \in Chi2s(c), NEW nfree \in NFrees(c),
         NEW better \in BOOLEAN, NEW slower \in BOOLEAN
  PROVE  LET n == Noted(m, d, fit, chi2, nfree, better, slower)
         IN  /\ n \in Marks(c)
             /\ n.bad = m.bad /\ n.flagged = m.flagged
             /\ better => n.nfreemin = nfree /\ n.sampmin = d
             /\ ~better => n.nfreemin = m.nfreemin /\ n.sampmin = m.sampmin
             /\ n.samppropmod \in {m.samppropmod, d}
BY DEF Noted, Marks

\* What a turn that starts with s may have noted before it ends: nothing is
\* flagged yet, and the best fit has as many degrees of freedom as that of s, or
\* goes through all but one.
Trials(c, s) ==
    {m \in Marks(c) :
        /\ m.bad = s.bad /\ m.flagged = s.flagged
        /\ m.sampmin = 0 => m.nfreemin = s.nfreemin
        /\ m.sampmin # 0 => /\ m.sampmin \in c.good \ s.bad
                            /\ m.nfreemin = NFree(c, (c.good \ s.bad) \ {m.sampmin})
        /\ m.samppropmod \in {0} \cup (c.good \ s.bad)}

LEMMA TriedKeeps ==
  ASSUME NEW c, Sighted(c), NEW s \in Marks(c),
         NEW m \in Trials(c, s), NEW d \in Places
  PROVE  Tried(c, m, d) \in Trials(c, s)
<1> DEFINE fit == (c.good \ m.bad) \ {d}
           chi2 == Chi2(c, fit, c.rounding[d])
           nfree == NFree(c, fit)
           better == Better(chi2, nfree, m)
           slower == Slower(c, fit, m.slowest)
<1>1. m \in Marks(c)
  BY DEF Trials
<1>2. CASE d \notin c.good \ m.bad
  BY <1>2 DEF Tried
<1>3. CASE d \in c.good \ m.bad
  <2>1. better \in BOOLEAN /\ slower \in BOOLEAN
    <3>1. \A u, v : Less(u, v) \in BOOLEAN
      BY DEF Less
    <3>2. better \in BOOLEAN
      BY <3>1, Zenon DEF Better
    <3>3. slower \in BOOLEAN
      BY <3>1, Zenon DEF Slower
    <3> QED BY <3>2, <3>3
  <2>2. fit \in SUBSET c.good /\ d \in c.good
    BY <1>3
  <2>a. chi2 \in Chi2s(c) /\ nfree \in NFrees(c)
    BY <2>2 DEF Chi2s, NFrees
  <2>3. Tried(c, m, d) = Noted(m, d, fit, chi2, nfree, better, slower)
    BY <1>3 DEF Tried
  <2>4. d # 0
    BY PlacesAre
  <2>5. m.bad = s.bad
    BY DEF Trials
  <2>b. nfree = NFree(c, (c.good \ s.bad) \ {d})
    BY <2>5
  <2> DEFINE n == Noted(m, d, fit, chi2, nfree, better, slower)
  <2> HIDE DEF better, slower, chi2, nfree
  <2>6. /\ n \in Marks(c) /\ n.bad = m.bad /\ n.flagged = m.flagged
        /\ better => n.nfreemin = nfree /\ n.sampmin = d
        /\ ~better => n.nfreemin = m.nfreemin /\ n.sampmin = m.sampmin
        /\ n.samppropmod \in {m.samppropmod, d}
    BY <1>1, <2>1, <2>2, <2>a, NotedMarks
  <2> HIDE DEF n
  <2>7. n \in Marks(c) /\ n.bad = s.bad /\ n.flagged = s.flagged
    BY <2>5, <2>6 DEF Trials
  <2>8. n.samppropmod \in {0} \cup (c.good \ s.bad)
    BY <1>3, <2>5, <2>6 DEF Trials
  <2>9. ASSUME better PROVE n \in Trials(c, s)
    BY <1>3, <2>4, <2>5, <2>6, <2>7, <2>8, <2>9, <2>b DEF Trials
  <2>10. ASSUME ~better PROVE n \in Trials(c, s)
    BY <2>6, <2>7, <2>8, <2>10 DEF Trials
  <2> QED BY <2>1, <2>3, <2>9, <2>10 DEF n
<1> QED BY <1>2, <1>3

\* All detections of the chain, one after the other.
TriedAll(c, s) == FoldLeft(LAMBDA n, d : Tried(c, n, d), s, c.chain)

LEMMA TriedAllKeeps ==
  ASSUME NEW c, Sighted(c), NEW s \in Marks(c), s \in Trials(c, s)
  PROVE  TriedAll(c, s) \in Trials(c, s)
<1> DEFINE n == Len(c.chain)
           A == Trials(c, s)
           step == [u \in (1..n) \X A |-> Tried(c, u[2], c.chain[u[1]])]
           next(g, T) == IF T = {} THEN s
                         ELSE Tried(c, g[T \ {Max(T)}], c.chain[Max(T)])
           all == CHOOSE g : g = [T \in SUBSET (1..n) |-> next(g, T)]
<1>1. n \in Nat /\ DOMAIN c.chain = 1..n /\ \A i \in 1..n : c.chain[i] \in Places
  BY DEF Sighted
<1> HIDE DEF n, A
<1>2. ASSUME NEW a \in A, NEW i \in 1..n
      PROVE  /\ step[<<i, a>>] \in A
             /\ step[<<i, a>>] = Tried(c, a, c.chain[i])
  <2>1. Tried(c, a, c.chain[i]) \in A
    BY <1>1, TriedKeeps DEF A
  <2> QED BY <2>1
<1> HIDE DEF step
<1>3. PICK g : /\ g = [T \in SUBSET (1..n) |->
                       IF T = {} THEN s ELSE step[<<Max(T), g[T \ {Max(T)}]>>]]
               /\ \A T \in SUBSET (1..n) : g[T] \in A
  <2>1. \A i \in 1..n : \A a \in A : step[<<i, a>>] \in A
    BY <1>2
  <2>2. PICK h : FoldRecursion(n, s, step, h) /\ \A T \in SUBSET (1..n) : h[T] \in A
    BY <1>1, <2>1, FoldDefined DEF A
  <2> QED BY <2>2, Zenon DEF FoldRecursion
<1>4. ASSUME NEW T \in SUBSET (1..n)
      PROVE  (IF T = {} THEN s ELSE step[<<Max(T), g[T \ {Max(T)}]>>]) = next(g, T)
  <2>1. CASE T = {}
    BY <2>1
  <2>2. CASE T # {}
    <3>1. Max(T) \in 1..n /\ T \ {Max(T)} \in SUBSET (1..n)
      BY <1>1, <2>2, MaxInSet
    <3> QED BY <1>2, <1>3, <2>2, <3>1
  <2> QED BY <2>1, <2>2
<1>5. g = [T \in SUBSET (1..n) |-> next(g, T)]
  <2> HIDE DEF next
  <2> QED BY <1>3, <1>4
<1>6. all = [T \in SUBSET (1..n) |-> next(all, T)]
  <2> HIDE DEF next
  <2> QED BY <1>5
<1>7. TriedAll(c, s) = all[1..n]
  BY <1>1 DEF TriedAll, FoldLeft, MapThenFoldSet, n
<1> HIDE DEF all
<1> DEFINE acc == [m \in 0..n |-> all[1..m]]
           Good == {m \in Nat : m \in 0..n => acc[m] \in A}
<1>8. acc[0] = s /\ TriedAll(c, s) = acc[n]
  <2>1. 1..0 = {} /\ 0 \in 0..n /\ n \in 0..n
    BY <1>1
  <2>2. all[{}] = s
    BY <1>6
  <2> QED BY <1>7, <2>1, <2>2
<1>9. ASSUME NEW m \in 1..n PROVE acc[m] = Tried(c, acc[m - 1], c.chain[m])
  <2>1. /\ 1..m \in SUBSET (1..n) /\ 1..m # {} /\ Max(1..m) = m
        /\ (1..m) \ {Max(1..m)} = 1..m - 1 /\ m - 1 \in 0..n /\ m \in 0..n
    BY <1>1, FoldPrefix
  <2>2. all[1..m] = Tried(c, all[1..m - 1], c.chain[m])
    BY <1>6, <2>1
  <2> QED BY <2>1, <2>2
<1> HIDE DEF acc
<1>10. 0 \in Good
  BY <1>8 DEF A
<1>11. ASSUME NEW m \in Nat, m \in Good PROVE m + 1 \in Good
  <2> SUFFICES ASSUME m + 1 \in 0..n PROVE acc[m + 1] \in A
    OBVIOUS
  <2>1. m \in 0..n /\ m + 1 \in 1..n /\ (m + 1) - 1 = m
    BY <1>1
  <2>2. acc[m] \in A /\ c.chain[m + 1] \in Places
    BY <1>1, <1>11, <2>1
  <2>3. acc[m + 1] = Tried(c, acc[m], c.chain[m + 1])
    BY <1>9, <2>1
  <2> QED BY <2>2, <2>3, TriedKeeps DEF A
<1>12. n \in Good
  <2> HIDE DEF Good
  <2> QED BY <1>1, <1>10, <1>11, NumberInduction
<1> QED BY <1>1, <1>8, <1>12 DEF A

\* What the search may have come to after k turns: whatever is flagged, two
\* detections at least are left, and as long as the fit can be improved the best
\* one has the degrees of freedom of that through what is not flagged.
Searched(c, k) ==
    {m \in Marks(c) :
        /\ m.flagged <=> m.bad # {}
        /\ m.bad # {} => Cardinality(c.good \ m.bad) >= 2
        /\ m.nfreemin >= 2 => m.nfreemin = NFree(c, c.good \ m.bad)
        /\ Cardinality(m.bad) <= k}

LEMMA AllGoodSearched ==
  ASSUME NEW c, Sighted(c)
  PROVE  AllGood(c) \in Searched(c, 0)
<1>1. AllGood(c) \in Marks(c)
  <2>1. Chi2(c, c.good, 0) \in Chi2s(c) /\ NFree(c, c.good) \in NFrees(c)
    BY DEF Chi2s, NFrees
  <2> QED BY <2>1 DEF AllGood, Marks
<1>2. /\ AllGood(c).bad = {} /\ AllGood(c).nfreemin = NFree(c, c.good)
      /\ AllGood(c).flagged = FALSE
      /\ c.good \ {} = c.good /\ Cardinality({}) = 0
  BY FS_EmptySet DEF AllGood
<1> QED BY <1>1, <1>2 DEF Searched

\* A detection taken away from three at least.
LEMMA OneLess ==
  ASSUME NEW c, Sighted(c), NEW rest \in SUBSET c.good, NEW d \in rest
  PROVE  /\ Cardinality(rest) \in Nat
         /\ Cardinality(rest \ {d}) = Cardinality(rest) - 1
         /\ NFree(c, rest) >= 2 => Cardinality(rest) >= 3
<1>1. IsFiniteSet(rest)
  BY PlacesAre, FS_Interval, FS_Subset DEF Sighted
<1>2. Cardinality(rest) \in Nat
  BY <1>1, FS_CardinalityType
<1>3. Cardinality(rest \ {d}) = Cardinality(rest) - 1
  BY <1>1, FS_RemoveElement
<1>4. NFree(c, rest) \in {-4, 2 * Cardinality(rest) - 4}
  BY DEF NFree
<1> QED BY <1>2, <1>3, <1>4

LEMMA FlaggedSearched ==
  ASSUME NEW c, Sighted(c), NEW k \in Nat, NEW s \in Searched(c, k), NEW m \in Trials(c, s),
         s.nfreemin >= 2
  PROVE  Flagged(m) \in Searched(c, k + 1)
<1> DEFINE rest == c.good \ s.bad
           culprit == IF m.nfreemin <= 0 /\ m.samppropmod # 0
                      THEN m.samppropmod ELSE m.sampmin
<1>1. /\ m \in Marks(c) /\ s \in Marks(c) /\ m.bad = s.bad /\ m.flagged = s.flagged
      /\ m.samppropmod \in {0} \cup rest
  BY DEF Trials, Searched
<1>2. /\ s.flagged <=> s.bad # {}
      /\ s.bad # {} => Cardinality(rest) >= 2
      /\ s.nfreemin = NFree(c, rest)
      /\ Cardinality(s.bad) <= k
  BY DEF Searched
<1>3. IsFiniteSet(s.bad) /\ Cardinality(s.bad) \in Nat
  <2>1. s.bad \subseteq Places
    BY <1>1 DEF Marks, Sighted
  <2>2. IsFiniteSet(s.bad)
    BY <2>1, PlacesAre, FS_Interval, FS_Subset
  <2> QED BY <2>2, FS_CardinalityType
<1>4. CASE m.sampmin = 0
  <2>1. Flagged(m) = m
    BY <1>4 DEF Flagged
  <2>2. m.nfreemin = NFree(c, rest)
    BY <1>2, <1>4 DEF Trials
  <2>3. Cardinality(m.bad) <= k + 1
    BY <1>1, <1>2, <1>3
  <2> QED BY <1>1, <1>2, <2>1, <2>2, <2>3 DEF Searched
<1>5. CASE m.sampmin # 0
  <2>1. m.sampmin \in rest /\ m.nfreemin = NFree(c, rest \ {m.sampmin})
    BY <1>5 DEF Trials
  <2>2. culprit \in rest
    BY <1>1, <2>1
  <2>3. Flagged(m) = [m EXCEPT !.bad = @ \cup {culprit}, !.flagged = TRUE]
    BY <1>5 DEF Flagged
  <2>4. m.nfreemin >= 2 => culprit = m.sampmin
    <3> DEFINE fit == rest \ {m.sampmin}
    <3>1. m.nfreemin \in {-4, 2 * Cardinality(fit) - 4}
      BY <2>1 DEF NFree
    <3>2. Cardinality(fit) \in Nat
      BY PlacesAre, FS_Interval, FS_Subset, FS_CardinalityType DEF Sighted
    <3> HIDE DEF fit, rest
    <3> QED BY <3>1, <3>2
  <2> HIDE DEF culprit
  <2> DEFINE n == Flagged(m)
  <2>5. rest \in SUBSET c.good /\ culprit \in c.good
    BY <2>2
  <2>6. /\ n \in Marks(c) /\ n.bad = s.bad \cup {culprit} /\ n.flagged = TRUE
        /\ n.nfreemin = m.nfreemin
    <3> HIDE DEF rest, n
    <3>1. n = [m EXCEPT !.bad = @ \cup {culprit}, !.flagged = TRUE]
      BY <2>3 DEF n
    <3>2. /\ n \in Marks(c) /\ n.bad = m.bad \cup {culprit} /\ n.flagged = TRUE
          /\ n.nfreemin = m.nfreemin
      <4>1. m \in Marks(c) /\ culprit \in c.good
        BY <1>1, <2>5
      <4>2. n \in Marks(c)
        BY ONLY <4>1, <3>1 DEF Marks
      <4>3. /\ n.bad = m.bad \cup {culprit} /\ n.flagged = TRUE
            /\ n.nfreemin = m.nfreemin
        BY ONLY <4>1, <3>1 DEF Marks
      <4> QED BY <4>2, <4>3
    <3> QED BY <1>1, <3>2
  <2>7. c.good \ n.bad = rest \ {culprit}
    BY <2>6
  <2>8. Cardinality(c.good \ n.bad) >= 2
    <3>1. /\ Cardinality(rest) \in Nat /\ Cardinality(rest) >= 3
          /\ Cardinality(rest \ {culprit}) = Cardinality(rest) - 1
      <4> HIDE DEF rest
      <4> QED BY <1>2, <2>2, <2>5, OneLess
    <3>2. Cardinality(rest \ {culprit}) >= 2
      <4> HIDE DEF rest
      <4> QED BY <3>1
    <3> QED BY <2>7, <3>2
  <2>9. n.nfreemin >= 2 => n.nfreemin = NFree(c, c.good \ n.bad)
    BY <2>1, <2>4, <2>6, <2>7
  <2>10. Cardinality(n.bad) <= k + 1
    <3>1. culprit \notin s.bad
      BY <2>2
    <3>2. Cardinality(s.bad \cup {culprit}) = Cardinality(s.bad) + 1
      BY <1>3, <3>1, FS_AddElement
    <3> QED BY <1>2, <1>3, <2>6, <3>2
  <2>11. n.bad # {}
    BY <2>6
  <2> HIDE DEF n
  <2>12. n \in Searched(c, k + 1)
    BY <2>6, <2>8, <2>9, <2>10, <2>11 DEF Searched
  <2> QED BY <2>12 DEF n
<1> QED BY <1>4, <1>5

LEMMA TurnSearched ==
  ASSUME NEW c, Sighted(c), NEW k \in Nat, NEW m \in Searched(c, k)
  PROVE  Turn(c, m) \in Searched(c, k + 1)
<1>1. m \in Marks(c)
  BY DEF Searched
<1>2. CASE Settled(m)
  <2>1. Turn(c, m) = m
    BY <1>2 DEF Turn
  <2>2. m.bad \subseteq Places
    BY <1>1 DEF Marks, Sighted
  <2>3. Cardinality(m.bad) \in Nat
    BY <2>2, PlacesAre, FS_Interval, FS_Subset, FS_CardinalityType
  <2>4. Cardinality(m.bad) <= k + 1
    BY <2>3 DEF Searched
  <2> QED BY <2>1, <2>4 DEF Searched
<1>3. CASE ~Settled(m)
  <2> DEFINE s == [m EXCEPT !.sampmin = 0, !.samppropmod = 0]
  <2>1. Turn(c, m) = Flagged(TriedAll(c, s))
    BY <1>3, Zenon DEF Turn, TriedAll
  <2>2. /\ s \in Marks(c) /\ s.bad = m.bad /\ s.nfreemin = m.nfreemin /\ s.flagged = m.flagged
        /\ s.sampmin = 0 /\ s.samppropmod = 0
    BY <1>1 DEF Marks
  <2> HIDE DEF s
  <2>3. s \in Searched(c, k)
    BY <2>2 DEF Searched
  <2>4. s \in Trials(c, s)
    BY <2>2 DEF Trials
  <2>5. TriedAll(c, s) \in Trials(c, s)
    BY <2>2, <2>4, TriedAllKeeps
  <2>6. s.nfreemin >= 2
    <3>1. PICK fit \in SUBSET c.good : m.nfreemin = NFree(c, fit)
      BY <1>1 DEF Marks, NFrees
    <3>2. m.nfreemin \in {-4, 2 * Cardinality(fit) - 4}
      BY <3>1 DEF NFree
    <3>3. Cardinality(fit) \in Nat
      BY <3>1, PlacesAre, FS_Interval, FS_Subset, FS_CardinalityType DEF Sighted
    <3> QED BY <1>3, <2>2, <3>2, <3>3 DEF Settled
  <2> QED BY <2>1, <2>3, <2>5, <2>6, FlaggedSearched
<1> QED BY <1>2, <1>3

\* The loop makes as many turns as PROPER_MAXNBAD, or one for five detections.
Turns(n) == Max({n \div 5, MaxNBad})

LEMMA TurnsNat ==
  ASSUME NEW n \in Nat
  PROVE  Turns(n) \in Nat
<1>1. n \div 5 \in Nat /\ MaxNBad \in Nat
  BY MaxNBadType
<1>2. \E a \in {n \div 5, MaxNBad} : \A b \in {n \div 5, MaxNBad} : a >= b
  BY <1>1
<1> QED BY <1>1, <1>2 DEF Turns, Max

LEMMA MotionSearched ==
  ASSUME NEW c, Sighted(c), NEW n \in Nat
  PROVE  \E m \in Searched(c, Turns(n)) :
             Motion(c, n).bad = m.bad /\ Motion(c, n).flagged = m.flagged
<1> DEFINE t == Turns(n)
           next(g, k) == IF k = 0 THEN AllGood(c) ELSE Turn(c, g[k - 1])
           after == CHOOSE g : g = [k \in 0..t |-> next(g, k)]
           A == UNION {Searched(c, k) : k \in Nat}
           step == [u \in (1..t) \X A |-> Turn(c, u[2])]
<1>1. t \in Nat
  BY TurnsNat
<1>2. Motion(c, n) = Outcome(c, after[t])
  BY Zenon DEF Motion, Turns
<1> HIDE DEF t, A
<1>3. AllGood(c) \in A
  BY AllGoodSearched DEF A
<1>4. ASSUME NEW a \in A, NEW i \in 1..t
      PROVE  step[<<i, a>>] \in A /\ step[<<i, a>>] = Turn(c, a)
  <2>1. PICK k \in Nat : a \in Searched(c, k)
    BY DEF A
  <2>2. Turn(c, a) \in Searched(c, k + 1)
    BY <2>1, TurnSearched
  <2>3. Turn(c, a) \in A
    BY <2>1, <2>2 DEF A
  <2> QED BY <2>3
<1> HIDE DEF step
<1>5. PICK g : /\ g = [k \in 0..t |-> IF k = 0 THEN AllGood(c) ELSE step[<<k, g[k - 1]>>]]
               /\ \A k \in 0..t : g[k] \in A
  <2>1. \A i \in 1..t : \A a \in A : step[<<i, a>>] \in A
    BY <1>4
  <2>2. PICK h : StepsRecursion(t, AllGood(c), step, h) /\ \A k \in 0..t : h[k] \in A
    BY <1>1, <1>3, <2>1, StepsDefined
  <2> QED BY <2>2, Zenon DEF StepsRecursion
<1>6. ASSUME NEW k \in 0..t
      PROVE  (IF k = 0 THEN AllGood(c) ELSE step[<<k, g[k - 1]>>]) = next(g, k)
  <2>1. CASE k = 0
    BY <2>1
  <2>2. CASE k # 0
    <3>1. k \in 1..t /\ k - 1 \in 0..t
      BY <1>1, <2>2
    <3> QED BY <1>4, <1>5, <2>2, <3>1
  <2> QED BY <2>1, <2>2
<1>7. g = [k \in 0..t |-> next(g, k)]
  <2> HIDE DEF next
  <2> QED BY <1>5, <1>6
<1>8. after = [k \in 0..t |-> next(after, k)]
  <2> HIDE DEF next
  <2> QED BY <1>7
<1> HIDE DEF after
<1> DEFINE Good == {k \in Nat : k \in 0..t => after[k] \in Searched(c, k)}
<1>9. 0 \in Good
  BY <1>1, <1>8, AllGoodSearched
<1>10. ASSUME NEW k \in Nat, k \in Good PROVE k + 1 \in Good
  <2> SUFFICES ASSUME k + 1 \in 0..t PROVE after[k + 1] \in Searched(c, k + 1)
    OBVIOUS
  <2>1. k \in 0..t /\ (k + 1) - 1 = k /\ k + 1 # 0
    BY <1>1
  <2>2. after[k + 1] = Turn(c, after[k])
    BY <1>8, <2>1
  <2> QED BY <1>10, <2>1, <2>2, TurnSearched
<1>11. after[t] \in Searched(c, t)
  <2> HIDE DEF Good
  <2>1. t \in Good /\ t \in 0..t
    BY <1>1, <1>9, <1>10, NumberInduction
  <2> QED BY <2>1 DEF Good
<1>12. Outcome(c, after[t]).bad = after[t].bad /\ Outcome(c, after[t]).flagged = after[t].flagged
  BY DEF Outcome
<1> QED BY <1>2, <1>11, <1>12 DEF t

---------------------------------------------------------------------------
(* Bad detections of a source *)

\* The detections of a source that are not flagged in its catalogue.
GoodOf(members) == CountedOf(members) \ input.flags.astr

\* What the search needs to know of the sources.
Weighed == Merged => \A i \in DOMAIN msample :
    /\ {"npos_ok", "flagged"} \subseteq DOMAIN msample[i]
    /\ msample[i].npos_ok = Cardinality(GoodOf(msample[i].members))

Labelled == input.labels \in Labels

\* The good detections of a chain, by their places.
LEMMA GoodPlaces ==
  ASSUME Ordered, Usable(links), NEW p \in Places
  PROVE  /\ Whose(Chain(p)) \in Seq(Places)
         /\ Range(Chain(p)) \subseteq Places
         /\ GoodOf(Whose(Chain(p))) \in SUBSET Places
         /\ GoodOf(Whose(Chain(p))) =
               {who[q] : q \in {r \in Range(Chain(p)) : /\ who[r] \notin input.flags.astr
                                                        /\ input.refflag \/ ~IsRef(r)}}
<1>1. /\ Chain(p) \in Seq(Places) /\ Range(Chain(p)) = Members(links, p)
      /\ Members(links, p) \subseteq Places
  BY ChainStep, ChainPlaces DEF Chain, Ordered
<1>2. who \in [Places -> Places] /\ \A q \in Places : IsRef(who[q]) <=> IsRef(q)
  BY DEF Ordered, Arranged, IsRef
<1>3. Whose(Chain(p)) \in Seq(Places)
  BY <1>1, <1>2 DEF Whose
<1>4. Range(Whose(Chain(p))) = {who[q] : q \in Range(Chain(p))}
  BY <1>1, WhoseRange
<1>5. GoodOf(Whose(Chain(p))) = {d \in {who[q] : q \in Range(Chain(p))} :
                                    /\ d \notin input.flags.astr
                                    /\ input.refflag \/ ~IsRef(d)}
  BY <1>4 DEF GoodOf, CountedOf
<1> QED BY <1>1, <1>2, <1>3, <1>5

LEMMA SourceWeighed ==
  ASSUME Ordered, Usable(links), bad = {}, NEW p \in Places
  PROVE  /\ {"npos_ok", "flagged"} \subseteq DOMAIN Source(p)
         /\ Source(p).npos_ok = Cardinality(GoodOf(Source(p).members))
<1>1. /\ {"npos_ok", "flagged"} \subseteq DOMAIN Source(p)
      /\ Source(p).members = Whose(Chain(p))
      /\ Source(p).npos_ok = Cardinality(Used(p))
  BY DEF Source, Whose
<1>2. Used(p) = {r \in Range(Chain(p)) : /\ who[r] \notin input.flags.astr
                                         /\ input.refflag \/ ~IsRef(r)}
  BY DEF Used, Counted
<1>3. Used(p) \in SUBSET Places
  BY <1>2, GoodPlaces
<1>4. GoodOf(Whose(Chain(p))) = {who[q] : q \in Used(p)}
  BY <1>2, GoodPlaces
<1>5. Cardinality({who[q] : q \in Used(p)}) = Cardinality(Used(p))
  BY <1>3, WhoseCardinality DEF Ordered
<1> QED BY <1>1, <1>4, <1>5

LEMMA SeenSighted ==
  ASSUME Ordered, Usable(links), Labelled, NEW p \in Places, NEW rounding
  PROVE  Sighted(Seen(p, rounding)) /\ Seen(p, rounding).good = GoodOf(Whose(Chain(p)))
<1>1. /\ Seen(p, rounding).chain = Whose(Chain(p))
      /\ Seen(p, rounding).good = {who[q] : q \in {r \in Range(Chain(p)) :
                                            /\ who[r] \notin input.flags.astr
                                            /\ input.refflag \/ AstromLabel(r) >= 0}}
  BY DEF Seen, Whose
<1>2. ASSUME NEW r \in Places PROVE AstromLabel(r) >= 0 <=> ~IsRef(r)
  <2>1. CASE IsRef(r)
    BY <2>1 DEF AstromLabel
  <2>2. CASE ~IsRef(r)
    <3>1. Layout[r] \in Fields
      BY <2>2 DEF Fields, IsRef, Places, Range
    <3>2. input.labels.astrom[Layout[r]] \in Nat
      BY <3>1, LabelsType DEF Labelled
    <3> QED BY <2>2, <3>2 DEF AstromLabel
  <2> QED BY <2>1, <2>2
<1>3. Range(Chain(p)) \subseteq Places
  BY GoodPlaces
<1>4. Seen(p, rounding).good = GoodOf(Whose(Chain(p)))
  BY <1>1, <1>2, <1>3, GoodPlaces
<1> QED BY <1>1, <1>4, GoodPlaces DEF Sighted

LEMMA InitWeighed == Init => Weighed /\ Labelled
  BY DEF Init, Weighed, Labelled, Merged

LEMMA NextWeighed ==
  ASSUME Ordered, LinksMade, NoneBad, SourcesMade, Weighed, Labelled, [Next]_vars
  PROVE  Weighed' /\ Labelled'
<1>1. input' = input
  BY NextOrdered
<1>2. Labelled'
  BY <1>1 DEF Labelled
<1>3. ASSUME UNCHANGED msample, Merged' => Merged PROVE Weighed'
  BY <1>1, <1>3 DEF Weighed, GoodOf, CountedOf
<1>4. CASE Merge
  <2>1. /\ msample' = [p \in Tails |-> Source(p)] /\ Tails \subseteq Places
        /\ at \in {"merge1", "merge2"}
    BY <1>4, DoingStep, PlacesAre DEF Merge, Tails, Ordinary
  <2>2. Usable(links) /\ bad = {}
    BY <2>1, DoingStep DEF LinksMade, Linkable, Stale, NoneBad
  <2>3. ASSUME NEW i \in DOMAIN msample'
        PROVE  /\ {"npos_ok", "flagged"} \subseteq DOMAIN msample'[i]
               /\ msample'[i].npos_ok = Cardinality(GoodOf(msample'[i].members))
    BY <2>1, <2>2, SourceWeighed
  <2> QED BY <1>1, <1>2, <2>3 DEF Weighed, GoodOf, CountedOf
<1>5. CASE ProperMotions
  <2>1. at = "motions"
    BY <1>5, DoingStep DEF ProperMotions
  <2> DEFINE fitted(rounding) == [p \in DOMAIN msample |->
                IF links.prev[p] = 0
                THEN [bad |-> {}, flagged |-> FALSE, fit |-> {}]
                ELSE Motion(Seen(p, rounding), msample[p].npos_ok)]
  <2>a. PICK rounding \in Roundings : msample' = [p \in DOMAIN msample |->
            [msample[p] EXCEPT !.flagged = fitted(rounding)[p].flagged, !.fit = fitted(rounding)[p].fit]]
    BY <1>5 DEF ProperMotions
  <2> DEFINE motion == fitted(rounding)
  <2>2. msample' = [p \in DOMAIN msample |->
            [msample[p] EXCEPT !.flagged = motion[p].flagged, !.fit = motion[p].fit]]
    BY <2>a
  <2> HIDE DEF motion
  <2>3. ASSUME NEW i \in DOMAIN msample'
        PROVE  /\ {"npos_ok", "flagged"} \subseteq DOMAIN msample'[i]
               /\ msample'[i].npos_ok = Cardinality(GoodOf(msample'[i].members))
    <3>1. i \in DOMAIN msample
      BY <2>2
    <3>2. /\ "npos_ok" \in DOMAIN msample[i] /\ "flagged" \in DOMAIN msample[i]
          /\ msample[i].npos_ok = Cardinality(GoodOf(msample[i].members))
      BY <2>1, <3>1 DEF Weighed, Merged
    <3>3. msample'[i] = [msample[i] EXCEPT !.flagged = motion[i].flagged,
                                           !.fit = motion[i].fit]
      BY <2>2, <3>1
    <3>4. DOMAIN msample'[i] = DOMAIN msample[i] /\ msample'[i].npos_ok = msample[i].npos_ok
      BY <3>2, <3>3
    <3>5. msample'[i].members = msample[i].members
      BY <1>5, <2>1, <3>1, MotionsKept DEF SourcesMade, Merged
    <3> QED BY <3>2, <3>4, <3>5
  <2> QED BY <1>1, <1>2, <2>3 DEF Weighed, GoodOf, CountedOf
<1>6. CASE Reproject
  <2>1. Merged' => Merged
    BY <1>6, DoingStep, Successors DEF Reproject, Merged
  <2> QED BY <1>2, <1>3, <1>6, <2>1 DEF Reproject
<1>7. CASE CrossIdentify
  <2>1. Merged' => Merged
    BY <1>7, DoingStep, Successors DEF CrossIdentify, Merged
  <2> QED BY <1>2, <1>3, <1>7, <2>1 DEF CrossIdentify
<1>8. CASE Solve
  <2>1. Merged' => Merged
    BY <1>8, DoingStep, Successors DEF Solve, Merged
  <2> QED BY <1>2, <1>3, <1>8, <2>1 DEF Solve
<1>9. CASE Magnitudes
  <2>1. Merged' => Merged
    BY <1>9, DoingStep, Successors DEF Magnitudes, Merged
  <2> QED BY <1>2, <1>3, <1>9, <2>1 DEF Magnitudes
<1>10. CASE PhotSolve
  <2>1. Merged' => Merged
    BY <1>10, DoingStep, Successors DEF PhotSolve, Merged
  <2> QED BY <1>2, <1>3, <1>10, <2>1 DEF PhotSolve
<1>11. CASE WriteFull
  <2>1. Merged
    BY <1>11, DoingStep DEF WriteFull, Merged
  <2> QED BY <1>2, <1>3, <1>11, <2>1 DEF WriteFull
<1>12. CASE StartPass
  BY <1>2, <1>3, <1>12 DEF StartPass, Merged
<1>13. CASE AstrClip
  BY <1>2, <1>3, <1>13 DEF AstrClip, Visiting, Merged
<1>14. CASE PhotClip
  BY <1>2, <1>3, <1>14 DEF PhotClip, Visiting, Merged
<1>15. CASE EndPass
  <2>1. Merged' => Merged
    BY <1>15, DoingStep, Successors DEF EndPass, Clipping, Merged
  <2> QED BY <1>2, <1>3, <1>15, <2>1 DEF EndPass
<1>16. CASE UNCHANGED vars
  BY <1>2, <1>3, <1>16 DEF vars, Merged
<1> QED BY <1>2, <1>4, <1>5, <1>6, <1>7, <1>8, <1>9, <1>10, <1>11, <1>12, <1>13, <1>14, <1>15,
           <1>16 DEF Next

\* What is said of a source when the motions are done.
ProperOf(source) ==
    LET lost == Range(source.members) \cap bad
    IN  /\ source.flagged <=> lost # {}
        /\ lost \cap input.flags.astr = {}
        /\ lost # {} => /\ Cardinality(lost) <= Max({MaxNBad, source.npos_ok \div 5})
                        /\ source.npos_ok - Cardinality(lost) >= 2

\* What the search comes to for one source.
Settles(motion, source) ==
    /\ motion.bad \subseteq GoodOf(source.members)
    /\ motion.flagged <=> motion.bad # {}
    /\ motion.bad # {} => /\ Cardinality(motion.bad) <= Turns(source.npos_ok)
                          /\ source.npos_ok - Cardinality(motion.bad) >= 2

LEMMA MotionSettles ==
  ASSUME Ordered, Usable(links), Labelled, NEW p \in Places, NEW source, NEW rounding,
         source.members = Whose(Chain(p)),
         source.npos_ok = Cardinality(GoodOf(source.members))
  PROVE  Settles(Motion(Seen(p, rounding), source.npos_ok), source)
<1> DEFINE c == Seen(p, rounding)
           n == source.npos_ok
           motion == Motion(c, n)
<1>1. Sighted(c) /\ c.good = GoodOf(source.members)
  BY SeenSighted
<1> HIDE DEF c
<1>2. c.good \subseteq Places /\ IsFiniteSet(c.good)
  BY <1>1, PlacesAre, FS_Interval, FS_Subset DEF Sighted
<1>3. n \in Nat /\ n = Cardinality(c.good)
  BY <1>1, <1>2, FS_CardinalityType
<1> HIDE DEF n
<1>4. PICK m \in Searched(c, Turns(n)) : motion.bad = m.bad /\ motion.flagged = m.flagged
  BY <1>1, <1>3, MotionSearched
<1> HIDE DEF motion
<1>5. /\ m.bad \subseteq c.good
      /\ m.flagged <=> m.bad # {}
      /\ m.bad # {} => Cardinality(c.good \ m.bad) >= 2
      /\ Cardinality(m.bad) <= Turns(n)
  BY DEF Searched, Marks
<1>6. Cardinality(c.good \ m.bad) = n - Cardinality(m.bad) /\ Cardinality(m.bad) \in Nat
  <2>1. IsFiniteSet(m.bad) /\ c.good \cap m.bad = m.bad
    BY <1>2, <1>5, FS_Subset
  <2>2. Cardinality(c.good \ m.bad) = Cardinality(c.good) - Cardinality(c.good \cap m.bad)
    BY <1>2, FS_Difference
  <2> QED BY <1>3, <2>1, <2>2, FS_CardinalityType
<1>7. Settles(motion, source)
  BY <1>1, <1>4, <1>5, <1>6 DEF Settles, n
<1> QED BY <1>7 DEF motion, c, n

LEMMA MotionsProper ==
  ASSUME Ordered, LinksMade, NoneBad, SourcesMade, Listed, Weighed, Labelled, ProperMotions
  PROVE  \A i \in DOMAIN msample' : ProperOf(msample[i])'
<1>1. at = "motions" /\ Usable(links) /\ SourcesSound
  BY DoingStep DEF ProperMotions, LinksMade, Linkable, Stale, SourcesMade, Merged
<1>2. PICK rounding \in Roundings :
         LET motion == [p \in DOMAIN msample |->
                 IF links.prev[p] = 0
                 THEN [bad |-> {}, flagged |-> FALSE, fit |-> {}]
                 ELSE Motion(Seen(p, rounding), msample[p].npos_ok)]
         IN  /\ msample' = [p \in DOMAIN msample |->
                    [msample[p] EXCEPT !.flagged = motion[p].flagged, !.fit = motion[p].fit]]
             /\ bad' = UNION {motion[p].bad : p \in DOMAIN msample}
  BY DEF ProperMotions
<1> DEFINE motion == [p \in DOMAIN msample |->
                 IF links.prev[p] = 0
                 THEN [bad |-> {}, flagged |-> FALSE, fit |-> {}]
                 ELSE Motion(Seen(p, rounding), msample[p].npos_ok)]
<1>3. /\ msample' = [p \in DOMAIN msample |->
             [msample[p] EXCEPT !.flagged = motion[p].flagged, !.fit = motion[p].fit]]
      /\ bad' = UNION {motion[p].bad : p \in DOMAIN msample}
  BY <1>2
<1>4. ASSUME NEW p \in DOMAIN msample PROVE Settles(motion[p], msample[p])
  <2>1. p \in Places
    BY <1>1 DEF SourcesSound, Ordinary
  <2>2. /\ msample[p].members = Whose(Chain(p))
        /\ msample[p].npos_ok = Cardinality(GoodOf(msample[p].members))
    BY <1>1 DEF Listed, Weighed, Merged
  <2>3. CASE links.prev[p] = 0
    <3>1. motion[p].bad = {} /\ motion[p].flagged = FALSE
      BY <2>3
    <3> HIDE DEF motion
    <3> QED BY <3>1 DEF Settles
  <2>4. CASE links.prev[p] # 0
    <3>1. motion[p] = Motion(Seen(p, rounding), msample[p].npos_ok)
      BY <2>4
    <3> HIDE DEF motion
    <3> QED BY <1>1, <2>1, <2>2, <3>1, MotionSettles
  <2> QED BY <2>3, <2>4
<1> HIDE DEF motion
<1>5. /\ input' = input /\ DOMAIN msample' = DOMAIN msample
      /\ \A i \in DOMAIN msample : msample'[i].members = msample[i].members
  BY <1>1, MotionsKept
<1>6. ASSUME NEW i \in DOMAIN msample'
      PROVE  ProperOf(msample[i])'
  <2>1. i \in DOMAIN msample
    BY <1>5
  <2>2. "npos_ok" \in DOMAIN msample[i] /\ "flagged" \in DOMAIN msample[i]
    BY <1>1, <2>1 DEF Weighed, Merged
  <2>3. msample'[i] = [msample[i] EXCEPT !.flagged = motion[i].flagged, !.fit = motion[i].fit]
    BY <1>3, <2>1
  <2>4. msample'[i].npos_ok = msample[i].npos_ok /\ msample'[i].flagged = motion[i].flagged
    BY <2>2, <2>3
  <2>5. \A p \in DOMAIN msample : motion[p].bad \subseteq Range(msample[p].members)
    BY <1>4 DEF Settles, GoodOf, CountedOf
  <2>6. \A p \in DOMAIN msample :
           p # i => Range(msample[p].members) \cap Range(msample[i].members) = {}
    BY <1>1, <2>1 DEF SourcesSound
  <2>7. Range(msample'[i].members) \cap bad' = motion[i].bad
    <3>1. Range(msample[i].members) \cap bad' = motion[i].bad
      BY <1>3, <2>1, <2>5, <2>6
    <3> QED BY <1>5, <2>1, <3>1
  <2>8. Settles(motion[i], msample[i])
    BY <1>4, <2>1
  <2>9. Turns(msample[i].npos_ok) = Max({MaxNBad, msample[i].npos_ok \div 5})
    <3>1. {MaxNBad, msample[i].npos_ok \div 5} = {msample[i].npos_ok \div 5, MaxNBad}
      OBVIOUS
    <3> QED BY <3>1 DEF Turns
  <2>10. motion[i].bad \cap input'.flags.astr = {}
    BY <1>5, <2>8 DEF Settles, GoodOf
  <2>11. msample'[i].flagged <=> motion[i].bad # {}
    BY <2>4, <2>8 DEF Settles
  <2>12. motion[i].bad # {} =>
            /\ Cardinality(motion[i].bad) <= Max({MaxNBad, msample'[i].npos_ok \div 5})
            /\ msample'[i].npos_ok - Cardinality(motion[i].bad) >= 2
    BY <2>4, <2>8, <2>9 DEF Settles
  <2> QED BY <2>7, <2>10, <2>11, <2>12 DEF ProperOf
<1> QED BY <1>6

ProperSources == at = "reproj3" => \A i \in DOMAIN msample : ProperOf(msample[i])

LEMMA NextProper ==
  ASSUME Ordered, LinksMade, NoneBad, SourcesMade, Listed, Weighed, Labelled, ProperSources,
         [Next]_vars
  PROVE  ProperSources'
<1>1. CASE ProperMotions
  BY <1>1, MotionsProper DEF ProperSources
<1>2. CASE UNCHANGED vars
  <2>1. UNCHANGED <<input, msample, bad, at>>
    BY <1>2 DEF vars
  <2> QED BY <2>1 DEF ProperSources, ProperOf
<1>3. ASSUME at' # "reproj3" PROVE ProperSources'
  BY <1>3 DEF ProperSources
<1>4. CASE Reproject
  BY <1>3, <1>4, DoingStep, Successors DEF Reproject
<1>5. CASE CrossIdentify
  BY <1>3, <1>5, DoingStep, Successors DEF CrossIdentify
<1>6. CASE Solve
  BY <1>3, <1>6, DoingStep, Successors DEF Solve
<1>7. CASE Magnitudes
  BY <1>3, <1>7, DoingStep, Successors DEF Magnitudes
<1>8. CASE PhotSolve
  BY <1>3, <1>8, DoingStep, Successors DEF PhotSolve
<1>9. CASE WriteFull
  BY <1>3, <1>9, DoingStep, Successors DEF WriteFull
<1>10. CASE Merge
  BY <1>3, <1>10, DoingStep, Successors DEF Merge
<1>11. CASE StartPass
  BY <1>3, <1>11, DoingStep DEF StartPass, Clipping
<1>12. CASE AstrClip
  BY <1>3, <1>12, DoingStep DEF AstrClip, Visiting
<1>13. CASE PhotClip
  BY <1>3, <1>13, DoingStep DEF PhotClip, Visiting
<1>14. CASE EndPass
  BY <1>3, <1>14, DoingStep, Successors DEF EndPass, Clipping
<1> QED BY <1>1, <1>2, <1>4, <1>5, <1>6, <1>7, <1>8, <1>9, <1>10, <1>11, <1>12, <1>13, <1>14
        DEF Next

\* When the motions are done, a detection is flagged only if its source is, with
\* no more than the few it may lose, and the others still determine the motion.
THEOREM BadProperHolds == Spec => []BadProper
<1>1. Init => ProperSources
  BY DEF Init, ProperSources
<1>2. Ordered /\ LinksMade /\ NoneBad /\ SourcesMade /\ Listed /\ Weighed /\ Labelled
         /\ ProperSources /\ [Next]_vars
         => Weighed' /\ Labelled' /\ ProperSources'
  BY NextWeighed, NextProper
<1>3. ProperSources => BadProper
  BY DEF ProperSources, BadProper, ProperOf
<1> QED BY <1>1, <1>2, <1>3, InitWeighed, SourcesAlways, InitInvariants, NextInvariants, PTL
        DEF Spec

---------------------------------------------------------------------------
(* Photometric fields *)

\* Do two fields share a chain?
Touch(f, g) == \E pq \in Linked : {Layout[pq[1]], Layout[pq[2]]} = {f, g}

\* The photometric fields a field is linked to.
Partners(flag, f) ==
    {g \in Fields \ {f} : /\ flag[g] # 0 /\ Touch(f, g)
                          /\ input.labels.photom[g] = input.labels.photom[f]}

LEMMA NeighboursOf ==
  ASSUME Timed, Usable(links), NEW p \in Places
  PROVE  /\ Neighbours(p) \in Seq(Places)
         /\ Range(Neighbours(p)) = {q \in Places : q \in Past(links, p) \/ p \in Past(links, q)}
<1>1. Later(p) \in Seq(Places) /\ Range(Later(p)) = Future(links, p)
  BY FutureStep DEF Later, Future
<1>2. Tail(Chain(p)) \in Seq(Places) /\ Range(Tail(Chain(p))) = Past(links, p)
  <2>1. Chain(p) \in Seq(Places) /\ Chain(p) # <<>>
    <3>1. CASE links.prev[p] = 0
      <4>1. Chain(p) = <<p>>
        BY <3>1, ChainStep DEF Chain
      <4> QED BY <4>1
    <3>2. CASE links.prev[p] # 0
      <4>1. ChainOf(links.prev, links.prev[p]) \in Seq(Places)
        BY <3>2, EarlierLink, ChainStep
      <4>2. Chain(p) = <<p>> \o ChainOf(links.prev, links.prev[p])
        BY <3>2, ChainStep DEF Chain
      <4>3. <<p>> \in Seq(Places)
        OBVIOUS
      <4> QED BY <4>1, <4>2, <4>3
    <3> QED BY <3>1, <3>2
  <2>2. Tail(Chain(p)) \in Seq(Places)
    BY <2>1
  <2> QED BY <2>2 DEF Past, Chain
<1>3. /\ Neighbours(p) \in Seq(Places)
      /\ Range(Neighbours(p)) = Future(links, p) \cup Past(links, p)
  <2> DEFINE a == Later(p)
             b == Tail(Chain(p))
  <2>1. a \in Seq(Places) /\ b \in Seq(Places) /\ Neighbours(p) = a \o b
    BY <1>1, <1>2 DEF Neighbours
  <2>2. Range(a) = Future(links, p) /\ Range(b) = Past(links, p)
    BY <1>1, <1>2
  <2> HIDE DEF a, b
  <2>3. a \o b \in Seq(Places) /\ Range(a \o b) = Range(a) \cup Range(b)
    BY <2>1, RangeConcat
  <2> QED BY <2>1, <2>2, <2>3
<1>4. Past(links, p) \subseteq Places
  BY PastIsEarlier
<1>5. Future(links, p) \subseteq Places
  BY <1>1 DEF Range
<1> QED BY <1>3, <1>4, <1>5, FutureIsPast

LEMMA TouchLinks ==
  ASSUME NEW f \in Fields, NEW g \in Fields
  PROVE  /\ Touch(f, g) <=> Touch(g, f)
         /\ Touch(f, g) <=> \E p, q \in Ordinary : /\ q \in Past(links, p)
                                                   /\ \/ Layout[p] = f /\ Layout[q] = g
                                                      \/ Layout[p] = g /\ Layout[q] = f
<1>1. Touch(f, g) <=> Touch(g, f)
  BY DEF Touch
<1>2. ASSUME Touch(f, g)
      PROVE  \E p, q \in Ordinary : /\ q \in Past(links, p)
                                    /\ \/ Layout[p] = f /\ Layout[q] = g
                                       \/ Layout[p] = g /\ Layout[q] = f
  <2>1. PICK pq \in Linked : {Layout[pq[1]], Layout[pq[2]]} = {f, g}
    BY <1>2 DEF Touch
  <2>2. pq[1] \in Ordinary /\ pq[2] \in Ordinary /\ pq[2] \in Past(links, pq[1])
    BY LinkedPast
  <2> QED BY <2>1, <2>2
<1>3. ASSUME NEW p \in Ordinary, NEW q \in Ordinary, q \in Past(links, p),
             \/ Layout[p] = f /\ Layout[q] = g
             \/ Layout[p] = g /\ Layout[q] = f
      PROVE  Touch(f, g)
  <2>1. <<p, q>> \in Linked
    BY <1>3, LinkedPast
  <2>2. {Layout[<<p, q>>[1]], Layout[<<p, q>>[2]]} = {f, g}
    BY <1>3
  <2> QED BY <2>1, <2>2 DEF Touch
<1> QED BY <1>1, <1>2, <1>3

\* check_fieldphotomoverlap finds a field if there is one.
LEMMA OverlapFinds ==
  ASSUME Timed, Usable(links), NEW flag \in [Fields -> 0..2], NEW f \in Fields
  PROVE  Overlap(flag, f) \in 0..2 /\ (Overlap(flag, f) = 0 <=> Partners(flag, f) = {})
<1> DEFINE linked == {p \in Ordinary : /\ Layout[p] = f
                                       /\ \E q \in Range(Neighbours(p)) : Photometric(flag, f, q)}
           seen == Neighbours(Min(linked))
           hits == {i \in DOMAIN seen : Photometric(flag, f, seen[i])}
<1>1. Overlap(flag, f) = IF linked = {} THEN 0 ELSE flag[Layout[seen[Min(hits)]]]
  BY DEF Overlap
<1>2. Ordinary \subseteq Places /\ \A q \in Places : ~IsRef(q) <=> q \in Ordinary
  BY DEF Ordinary
<1>3. \A q \in Ordinary : Layout[q] \in Fields
  BY DEF Ordinary, Fields, IsRef, Places, Range
<1>4. ASSUME linked # {} PROVE Overlap(flag, f) \in {1, 2}
  <2>1. Min(linked) \in linked
    <3>1. linked \subseteq Nat
      BY <1>2, PlacesAre
    <3> HIDE DEF linked
    <3> QED BY <1>4, <3>1, MinInSet
  <2>2. seen \in Seq(Places)
    BY <1>2, <2>1, NeighboursOf
  <2>3. hits # {}
    <3>1. \E q \in Range(seen) : Photometric(flag, f, q)
      BY <2>1
    <3> HIDE DEF seen
    <3> QED BY <3>1 DEF Range
  <2> HIDE DEF seen, linked
  <2>4. Min(hits) \in hits
    <3>1. hits \subseteq Nat
      BY <2>2
    <3> HIDE DEF hits
    <3> QED BY <2>3, <3>1, MinInSet
  <2>5. seen[Min(hits)] \in Places /\ Photometric(flag, f, seen[Min(hits)])
    BY <2>2, <2>4
  <2> HIDE DEF hits
  <2>6. Layout[seen[Min(hits)]] \in Fields /\ flag[Layout[seen[Min(hits)]]] # 0
    BY <1>2, <1>3, <2>5 DEF Photometric
  <2> QED BY <1>1, <1>4, <2>6
<1>5. ASSUME NEW p \in Ordinary, NEW q \in Ordinary, q \in Past(links, p)
      PROVE  Layout[p] # Layout[q]
  <2>1. Before(q, p)
    BY <1>2, <1>5, PastIsEarlier
  <2>2. Older(input.time, q, p) /\ ~IsRef(p) /\ ~IsRef(q)
    BY <1>2, <2>1 DEF Before
  <2>3. input.time[Layout[q]] < input.time[Layout[p]]
    BY <2>2 DEF Older, EpochAt
  <2>4. input.time[Layout[q]] \in Int
    BY <1>3, TimesType DEF Timed
  <2> QED BY <2>3, <2>4
<1>6. ASSUME linked # {} PROVE Partners(flag, f) # {}
  <2>1. PICK p \in Ordinary : /\ Layout[p] = f
                              /\ \E q \in Range(Neighbours(p)) : Photometric(flag, f, q)
    BY <1>6
  <2>2. PICK q \in Range(Neighbours(p)) : Photometric(flag, f, q)
    BY <2>1
  <2>3. q \in Places /\ (q \in Past(links, p) \/ p \in Past(links, q))
    BY <1>2, <2>2, NeighboursOf
  <2>4. q \in Ordinary
    BY <1>2, <2>2, <2>3 DEF Photometric
  <2>5. Touch(f, Layout[q]) /\ Layout[q] # f
    BY <1>3, <1>5, <2>1, <2>3, <2>4, TouchLinks
  <2>6. Layout[q] \in Partners(flag, f)
    BY <1>3, <2>2, <2>4, <2>5 DEF Partners, Photometric
  <2> QED BY <2>6
<1>7. ASSUME NEW g \in Partners(flag, f) PROVE linked # {}
  <2>1. /\ g \in Fields /\ flag[g] # 0 /\ Touch(f, g)
        /\ input.labels.photom[g] = input.labels.photom[f]
    BY DEF Partners
  <2>2. \E p, q \in Ordinary : /\ q \in Past(links, p) \/ p \in Past(links, q)
                               /\ Layout[p] = f /\ Layout[q] = g
    BY <2>1, TouchLinks
  <2>3. PICK p \in Ordinary, q \in Ordinary : /\ q \in Past(links, p) \/ p \in Past(links, q)
                                              /\ Layout[p] = f /\ Layout[q] = g
    BY <2>2
  <2>4. q \in Range(Neighbours(p)) /\ Photometric(flag, f, q)
    BY <1>2, <2>1, <2>3, NeighboursOf DEF Photometric
  <2> QED BY <2>3, <2>4
<1> HIDE DEF linked
<1>8. CASE linked = {}
  BY <1>1, <1>7, <1>8
<1>9. CASE linked # {}
  BY <1>4, <1>6, <1>9
<1> QED BY <1>8, <1>9

LEMMA FieldsFinite == IsFiniteSet(Fields)
<1> DEFINE a == [p \in Places |-> Layout[p]]
           R == Range(Layout)
<1>1. a \in Surjection(Places, R)
  BY DEF Surjection, Range, Places
<1>2. IsFiniteSet(Places)
  BY PlacesAre, FS_Interval
<1>3. IsFiniteSet(R)
  <2> HIDE DEF a, R
  <2> QED BY <1>1, <1>2, FS_Surjection
<1> QED BY <1>3, FS_Subset DEF Fields

\* Dummies are linked to no photometric field; of the first k fields the others
\* are linked to one.
Anchored(flag, k) ==
    /\ \A f \in Fields : flag[f] = 2 => Partners(flag, f) = {}
    /\ \A f \in Fields : f <= k /\ flag[f] = 0 => Partners(flag, f) # {}

PhotStates == [flag : [Fields -> 0..2], link : [Fields -> BOOLEAN]]

LEMMA VisitedAnchors ==
  ASSUME Timed, Usable(links), NEW ph \in PhotStates, NEW f \in Fields
  PROVE  /\ Visited(ph, f) \in PhotStates
         /\ Anchored(ph.flag, f - 1) => Anchored(Visited(ph, f).flag, f)
<1> DEFINE photcode == IF ph.flag[f] = 1 THEN 1 ELSE Overlap(ph.flag, f)
           flag == IF photcode = 0 THEN [ph.flag EXCEPT ![f] = 2] ELSE ph.flag
<1>1. ph.flag \in [Fields -> 0..2] /\ ph.link \in [Fields -> BOOLEAN]
  BY DEF PhotStates
<1>2. /\ Overlap(ph.flag, f) \in 0..2
      /\ Overlap(ph.flag, f) = 0 <=> Partners(ph.flag, f) = {}
  BY <1>1, OverlapFinds
<1>3. /\ Visited(ph, f).flag = flag
      /\ Visited(ph, f) = [flag |-> flag, link |-> [ph.link EXCEPT ![f] = photcode = 1]]
  BY DEF Visited
<1>4. flag \in [Fields -> 0..2]
  BY <1>1
<1>5. Visited(ph, f) \in PhotStates
  <2>1. (photcode = 1) \in BOOLEAN
    OBVIOUS
  <2>2. [ph.link EXCEPT ![f] = photcode = 1] \in [Fields -> BOOLEAN]
    <3> HIDE DEF photcode
    <3> QED BY <1>1, <2>1
  <2> HIDE DEF photcode, flag
  <2> QED BY <1>3, <1>4, <2>2 DEF PhotStates
<1>6. Fields = 1..NFields /\ NFields \in Int
  BY LayoutType, FieldsFinite, FS_CardinalityType DEF NFields
<1>7. ASSUME Anchored(ph.flag, f - 1) PROVE Anchored(flag, f)
  <2>1. \A g \in Fields : g <= f => g = f \/ g <= f - 1
    BY <1>6
  <2>2. \A g \in Fields : Touch(f, g) <=> Touch(g, f)
    BY TouchLinks
  <2>3. CASE ph.flag[f] = 1
    <3>1. flag = ph.flag
      BY <2>3
    <3> HIDE DEF flag
    <3> QED BY <1>7, <2>1, <2>3, <3>1 DEF Anchored
  <2>4. CASE ph.flag[f] # 1 /\ Partners(ph.flag, f) # {}
    <3>1. flag = ph.flag
      BY <1>2, <2>4
    <3> HIDE DEF flag
    <3> QED BY <1>7, <2>1, <2>4, <3>1 DEF Anchored
  <2>5. CASE ph.flag[f] # 1 /\ Partners(ph.flag, f) = {}
    <3>1. flag = [ph.flag EXCEPT ![f] = 2]
      BY <1>2, <2>5
    <3> HIDE DEF flag
    <3>2. flag[f] = 2 /\ \A g \in Fields : g # f => flag[g] = ph.flag[g]
      BY <1>1, <3>1
    <3>3. Partners(flag, f) = {}
      BY <2>5, <3>2 DEF Partners
    <3>4. \A g \in Fields : Partners(ph.flag, g) \subseteq Partners(flag, g)
      BY <3>2 DEF Partners
    <3>5. ASSUME NEW g \in Fields, g # f, flag[g] = 2 PROVE Partners(flag, g) = {}
      <4>1. ph.flag[g] = 2 /\ Partners(ph.flag, g) = {}
        BY <1>7, <3>2, <3>5 DEF Anchored
      <4>2. ~(/\ Touch(g, f) /\ input.labels.photom[g] = input.labels.photom[f])
        BY <2>2, <2>5, <3>5, <4>1 DEF Partners
      <4> QED BY <3>2, <4>1, <4>2 DEF Partners
    <3>6. ASSUME NEW g \in Fields, g <= f, flag[g] = 0 PROVE Partners(flag, g) # {}
      <4>1. g <= f - 1 /\ ph.flag[g] = 0
        BY <2>1, <3>2, <3>6
      <4> QED BY <1>7, <3>4, <4>1 DEF Anchored
    <3> QED BY <3>3, <3>5, <3>6 DEF Anchored
  <2> QED BY <2>3, <2>4, <2>5
<1> QED BY <1>3, <1>5, <1>7

LEMMA PhotSolveAnchors ==
  ASSUME Timed, Usable(links), PhotSolve,
         photomflag \in [Fields -> 0..2], photomlink \in [Fields -> BOOLEAN],
         \A f \in Fields : photomflag[f] = 2 => Partners(photomflag, f) = {}
  PROVE  /\ photomflag' \in [Fields -> 0..2] /\ photomlink' \in [Fields -> BOOLEAN]
         /\ \A f \in Fields : photomflag'[f] = 2 => Partners(photomflag', f) = {}
         /\ \A f \in Fields : photomflag'[f] = 0 => Partners(photomflag', f) # {}
<1> DEFINE n == NFields
           base == [flag |-> photomflag, link |-> photomlink]
           next(g, f) == IF f = 0 THEN base ELSE Visited(g[f - 1], f)
           after == CHOOSE g : g = [f \in 0..n |-> next(g, f)]
           step == [u \in (1..n) \X PhotStates |-> Visited(u[2], u[1])]
<1>1. photomflag' = after[n].flag /\ photomlink' = after[n].link
  BY DEF PhotSolve
<1>2. base \in PhotStates /\ base.flag = photomflag
  BY DEF PhotStates
<1>3. Fields = 1..n
  BY LayoutType
<1>4. n \in Nat
  BY FieldsFinite, FS_CardinalityType DEF NFields
<1> HIDE DEF n, base
<1>5. ASSUME NEW a \in PhotStates, NEW f \in 1..n
      PROVE  step[<<f, a>>] \in PhotStates /\ step[<<f, a>>] = Visited(a, f)
  <2>1. Visited(a, f) \in PhotStates
    BY <1>3, VisitedAnchors
  <2> QED BY <2>1
<1> HIDE DEF step
<1>6. PICK g : /\ g = [f \in 0..n |-> IF f = 0 THEN base ELSE step[<<f, g[f - 1]>>]]
               /\ \A f \in 0..n : g[f] \in PhotStates
  <2>1. \A i \in 1..n : \A a \in PhotStates : step[<<i, a>>] \in PhotStates
    BY <1>5
  <2>2. PICK h : StepsRecursion(n, base, step, h) /\ \A k \in 0..n : h[k] \in PhotStates
    BY <1>2, <1>4, <2>1, StepsDefined
  <2> QED BY <2>2, Zenon DEF StepsRecursion
<1>7. ASSUME NEW f \in 0..n
      PROVE  (IF f = 0 THEN base ELSE step[<<f, g[f - 1]>>]) = next(g, f)
  <2>1. CASE f = 0
    BY <2>1
  <2>2. CASE f # 0
    <3>1. f \in 1..n /\ f - 1 \in 0..n
      BY <1>4, <2>2
    <3> QED BY <1>5, <1>6, <2>2, <3>1
  <2> QED BY <2>1, <2>2
<1>8. g = [f \in 0..n |-> next(g, f)]
  <2> HIDE DEF next
  <2> QED BY <1>6, <1>7
<1>9. after = [f \in 0..n |-> next(after, f)]
  <2> HIDE DEF next
  <2> QED BY <1>8
<1> HIDE DEF after
<1> DEFINE Good == {k \in Nat : k \in 0..n => /\ after[k] \in PhotStates
                                              /\ Anchored(after[k].flag, k)}
<1>10. 0 \in Good
  <2>1. after[0] = base
    BY <1>4, <1>9
  <2>2. \A f \in Fields : ~(f <= 0)
    BY <1>3, <1>4
  <2>3. Anchored(photomflag, 0)
    BY <2>2 DEF Anchored
  <2> QED BY <1>2, <2>1, <2>3
<1>11. ASSUME NEW k \in Nat, k \in Good PROVE k + 1 \in Good
  <2> SUFFICES ASSUME k + 1 \in 0..n
               PROVE  after[k + 1] \in PhotStates /\ Anchored(after[k + 1].flag, k + 1)
    OBVIOUS
  <2>1. k \in 0..n /\ (k + 1) - 1 = k /\ k + 1 # 0 /\ k + 1 \in 1..n
    BY <1>4
  <2>2. after[k + 1] = Visited(after[k], k + 1)
    BY <1>9, <2>1
  <2>3. after[k] \in PhotStates /\ Anchored(after[k].flag, (k + 1) - 1)
    BY <1>11, <2>1
  <2> QED BY <1>3, <2>1, <2>2, <2>3, VisitedAnchors
<1>12. after[n] \in PhotStates /\ Anchored(after[n].flag, n)
  <2> HIDE DEF Good
  <2>1. n \in Good /\ n \in 0..n
    BY <1>4, <1>10, <1>11, NumberInduction
  <2> QED BY <2>1 DEF Good
<1>13. \A f \in Fields : f <= n
  BY <1>3, <1>4
<1> QED BY <1>1, <1>12, <1>13 DEF PhotStates, Anchored

LEMMA ClippingActions ==
  ASSUME Clipping, Next
  PROVE  /\ UNCHANGED photom
         /\ at \in {"photclip1", "photclip2", "astrclip1", "astrclip2"}
         /\ at = "photclip1" => at' \in {"photclip1", "photsolve2"}
         /\ at = "photclip2" => at' \in {"photclip2", "merge1"}
         /\ at = "astrclip1" => at' \in {"astrclip1", "solve2"}
         /\ at = "astrclip2" => at' \in {"astrclip2", "photsolve1", "mags0"}
<1>1. at \in {"photclip1", "photclip2", "astrclip1", "astrclip2"}
  BY DoingStep DEF Clipping
<1>2. StartPass \/ AstrClip \/ PhotClip \/ EndPass
  BY <1>1, DoingStep DEF Next, Reproject, CrossIdentify, Solve, Magnitudes, PhotSolve, Merge,
     ProperMotions, WriteFull
<1>3. ASSUME UNCHANGED photom, at' = at \/ Done
      PROVE  /\ UNCHANGED photom
             /\ at = "photclip1" => at' \in {"photclip1", "photsolve2"}
             /\ at = "photclip2" => at' \in {"photclip2", "merge1"}
             /\ at = "astrclip1" => at' \in {"astrclip1", "solve2"}
             /\ at = "astrclip2" => at' \in {"astrclip2", "photsolve1", "mags0"}
  BY <1>3, Successors
<1>4. UNCHANGED photom /\ (at' = at \/ Done)
  BY <1>2 DEF StartPass, AstrClip, PhotClip, Visiting, EndPass
<1> QED BY <1>1, <1>3, <1>4

\* The flags: none is a dummy before the first choice; from then on dummies are
\* linked to no photometric field, and right after a choice the others are.
PhotFlags ==
    /\ photomflag \in [Fields -> 0..2] /\ photomlink \in [Fields -> BOOLEAN]
    /\ at \in {"reproj0", "cross0", "solve1", "reproj1", "cross1", "astrclip1", "solve2",
               "reproj2", "cross2", "astrclip2", "photsolve1"}
          => \A f \in Fields : photomflag[f] # 2
    /\ at \in {"mags1", "photclip1", "photsolve2", "mags2"}
          => \A f \in Fields : photomflag[f] = 2 => Partners(photomflag, f) = {}
    /\ at \in {"mags1", "mags2"}
          => \A f \in Fields : photomflag[f] = 0 => Partners(photomflag, f) # {}

LEMMA InitPhot == Init => PhotFlags
<1> SUFFICES ASSUME Init PROVE PhotFlags
  OBVIOUS
<1>1. PICK fields \in Photoms : photomflag = [f \in Fields |-> IF f \in fields THEN 1 ELSE 0]
  BY DEF Init
<1>2. photomlink = [f \in Fields |-> FALSE] /\ at = "reproj0"
  BY DEF Init
<1> QED BY <1>1, <1>2 DEF PhotFlags

\* Fewer links leave fewer partners.
LEMMA FewerPartners ==
  ASSUME input' = input, photomflag' = photomflag, Linked' \subseteq Linked, NEW f \in Fields
  PROVE  Partners(photomflag, f)' \subseteq Partners(photomflag, f)
  BY DEF Partners, Touch

LEMMA SamePartners ==
  ASSUME input' = input, links' = links
  PROVE  \A f \in Fields : Partners(photomflag, f)' = Partners(photomflag', f)
  BY DEF Partners, Touch, Linked, Chain

LEMMA NextPhot ==
  ASSUME Ordered, LinksMade, AtRest, PhotFlags, [Next]_vars
  PROVE  PhotFlags'
<1> DEFINE early == {"reproj0", "cross0", "solve1", "reproj1", "cross1", "astrclip1", "solve2",
                     "reproj2", "cross2", "astrclip2", "photsolve1"}
           late == {"mags1", "photclip1", "photsolve2", "mags2"}
<1>1. input' = input
  BY NextOrdered
<1>2. ASSUME UNCHANGED photom, at' \in early => at \in early, at' \notin late PROVE PhotFlags'
  BY <1>2 DEF PhotFlags, photom
<1>3. CASE PhotSolve
  <2>1. at \in {"photsolve1", "photsolve2"} /\ at' \in {"mags1", "mags2"}
    BY <1>3, DoingStep, Successors DEF PhotSolve
  <2>2. Timed /\ Usable(links)
    BY <2>1, DoingStep DEF Ordered, LinksMade, Linkable, Stale
  <2>3. \A f \in Fields : photomflag[f] = 2 => Partners(photomflag, f) = {}
    BY <2>1 DEF PhotFlags
  <2>4. /\ photomflag' \in [Fields -> 0..2] /\ photomlink' \in [Fields -> BOOLEAN]
        /\ \A f \in Fields : photomflag'[f] = 2 => Partners(photomflag', f) = {}
        /\ \A f \in Fields : photomflag'[f] = 0 => Partners(photomflag', f) # {}
    BY <1>3, <2>2, <2>3, PhotSolveAnchors DEF PhotFlags
  <2>5. \A f \in Fields : Partners(photomflag, f)' = Partners(photomflag', f)
    BY <1>1, <1>3, SamePartners DEF PhotSolve
  <2> QED BY <2>1, <2>4, <2>5 DEF PhotFlags
<1>4. CASE Magnitudes
  <2>1. CASE at \in {"mags1", "mags2"}
    <3>1. /\ at = "mags1" => at' = "photclip1"
          /\ at = "mags2" => at' = "photclip2"
      BY <1>4, Successors DEF Magnitudes
    <3>2. links' = links /\ photomflag' = photomflag /\ photomlink' = photomlink
      BY <1>4 DEF Magnitudes, photom
    <3>3. \A f \in Fields : Partners(photomflag, f)' = Partners(photomflag, f)
      BY <1>1, <3>2, SamePartners
    <3> QED BY <2>1, <3>1, <3>2, <3>3 DEF PhotFlags
  <2>2. CASE at \notin {"mags1", "mags2"}
    <3>1. at = "mags0" /\ at' = "photclip2"
      BY <1>4, <2>2, DoingStep, Successors DEF Magnitudes
    <3> QED BY <1>2, <1>4, <3>1 DEF Magnitudes
  <2> QED BY <2>1, <2>2
<1>5. CASE Clipping /\ Next
  <2>1. Linked' \subseteq Linked
    BY <1>5, ClipCuts
  <2>2. UNCHANGED photom
    BY <1>5, ClippingActions
  <2>3. photomflag' = photomflag /\ photomlink' = photomlink
    BY <2>2 DEF photom
  <2>4. /\ at = "photclip1" => at' \in {"photclip1", "photsolve2"}
        /\ at = "photclip2" => at' \in {"photclip2", "merge1"}
        /\ at = "astrclip1" => at' \in {"astrclip1", "solve2"}
        /\ at = "astrclip2" => at' \in {"astrclip2", "photsolve1", "mags0"}
        /\ at \in {"photclip1", "photclip2", "astrclip1", "astrclip2"}
    BY <1>5, ClippingActions
  <2>5. CASE at = "photclip1"
    <3>1. \A f \in Fields : photomflag[f] = 2 => Partners(photomflag, f) = {}
      BY <2>5 DEF PhotFlags
    <3>2. \A f \in Fields : Partners(photomflag, f)' \subseteq Partners(photomflag, f)
      BY <1>1, <2>1, <2>3, FewerPartners
    <3>3. \A f \in Fields : photomflag'[f] = 2 => Partners(photomflag, f)' = {}
      BY <2>3, <3>1, <3>2
    <3> QED BY <2>3, <2>4, <2>5, <3>3 DEF PhotFlags
  <2>6. CASE at # "photclip1"
    BY <1>2, <2>2, <2>4, <2>6
  <2> QED BY <2>5, <2>6
<1>6. CASE Reproject
  BY <1>2, <1>6, DoingStep, Successors DEF Reproject
<1>7. CASE CrossIdentify
  BY <1>2, <1>7, DoingStep, Successors DEF CrossIdentify
<1>8. CASE Solve
  BY <1>2, <1>8, DoingStep, Successors DEF Solve
<1>9. CASE Merge
  BY <1>2, <1>9, DoingStep, Successors DEF Merge
<1>10. CASE ProperMotions
  BY <1>2, <1>10, DoingStep, Successors DEF ProperMotions
<1>11. CASE WriteFull
  BY <1>2, <1>11, DoingStep, Successors DEF WriteFull
<1>12. CASE UNCHANGED vars
  <2>1. UNCHANGED <<input, links, photomflag, photomlink, at>>
    BY <1>12 DEF vars, photom
  <2>2. \A f \in Fields : Partners(photomflag, f)' = Partners(photomflag, f)
    BY <2>1, SamePartners
  <2> QED BY <2>1, <2>2 DEF PhotFlags
<1>13. Next /\ ~Clipping => \/ Reproject \/ CrossIdentify \/ Solve \/ Magnitudes
                            \/ PhotSolve \/ Merge \/ ProperMotions \/ WriteFull
  BY DEF Next, StartPass, AstrClip, PhotClip, EndPass, Visiting, Clipping
<1> QED BY <1>3, <1>4, <1>5, <1>6, <1>7, <1>8, <1>9, <1>10, <1>11, <1>12, <1>13

\* Whichever fields are linked, before and after clipping, one that is not
\* photometric is linked to one that is, if only through detections the
\* solution does not use; a dummy is linked to none.
THEOREM PhotAnchoredHolds == Spec => []PhotAnchored
<1>1. PhotFlags => PhotAnchored
  <2> SUFFICES ASSUME PhotFlags, at \in {"mags1", "mags2"}, NEW f \in Fields
               PROVE  LET shared(g) == \E pq \in Linked : {Layout[pq[1]], Layout[pq[2]]} = {f, g}
                          photometric == {g \in Fields \ {f} :
                                             /\ photomflag[g] # 0 /\ shared(g)
                                             /\ input.labels.photom[g] = input.labels.photom[f]}
                      IN  /\ photomflag[f] = 0 => photometric # {}
                          /\ photomflag[f] = 2 => photometric = {}
    BY DEF PhotAnchored
  <2>1. /\ photomflag[f] = 0 => Partners(photomflag, f) # {}
        /\ photomflag[f] = 2 => Partners(photomflag, f) = {}
    BY DEF PhotFlags
  <2> QED BY <2>1 DEF Partners, Touch
<1>2. Ordered /\ LinksMade /\ AtRest /\ PhotFlags /\ [Next]_vars => PhotFlags'
  BY NextPhot
<1> QED BY <1>1, <1>2, InitPhot, InitInvariants, NextInvariants, PTL DEF Spec
=============================================================================
