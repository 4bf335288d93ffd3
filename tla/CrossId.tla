------------------------------ MODULE CrossId ------------------------------
(***************************************************************************)
(* crossid.c: the detections of a group of fields are linked into chains,  *)
(* one chain per source, in the order of their epochs.                     *)
(*                                                                         *)
(* A detection wants to be linked to the nearest epoch and, within one     *)
(* field, to the closest position.  A new link may take a partner away     *)
(* from an earlier one; the detections left alone look again for a         *)
(* partner, which may leave others alone in turn.  The recursion           *)
(* (cross_sample -> try_match -> crossmatch -> cross_sample) is an         *)
(* explicit stack here, so that every call of crossmatch is a step.        *)
(*                                                                         *)
(* The sky is a line.  A HEALPix pixel is a cell of PixelSide units, its   *)
(* neighbours are the cells on either side; a unit is 0.1 arcsec.          *)
(***************************************************************************)
EXTENDS PixelStore

CONSTANTS Skies,       \* the fields, positions and epochs of the detections
          Radius       \* the cross-identification radius

ASSUME RadiusAssumption == Radius \in Nat \ {0}

ASSUME SkiesType == \A sky \in Skies : /\ sky.field \in Seq(Int)
                                       /\ sky.pos \in [DOMAIN sky.field -> Int]
                                       /\ sky.epoch \in [DOMAIN sky.field -> Int]

\* Detections of one field have the epoch of the exposure; those of the
\* reference catalogue have each its own.
ASSUME SkiesAssumption == \A sky \in Skies : \A s, t \in DOMAIN sky.field :
    sky.field[s] = sky.field[t] /\ sky.field[s] >= 0 => sky.epoch[s] = sky.epoch[t]

VARIABLES field,        \* field index of each detection, -1 for the reference
          pos, epoch,   \* its position and epoch
          order,        \* the detections in the order of the main loops
          next, prev,   \* nextsamp and prevsamp, 0 for NULL
          stack,        \* the calls of cross_sample in progress or about to be
                        \* made, innermost first
          turn,         \* detections the current loop has been through
          phase         \* "add", "match", "move" or "done"

sky == <<field, pos, epoch>>
stored == <<store, order>>
vars == <<sky, stored, next, prev, stack, turn, phase>>

\* Detections, in the order of PixelStore_add.
Samples == DOMAIN field

IsRef(s) == field[s] < 0

---------------------------------------------------------------------------
(* Pixels and order *)

\* nsides: the power of two above nrings/4 + 1, "minus 1 nsides power",
\* times two; nrings is a half turn over the radius, 2.1e6 at most.
NSides ==
    LET rings == Min({180 * 36000, 2100000 * Radius})
        power[n \in 0..22] == IF n = 0 THEN 1 ELSE 2 * power[n - 1]
        enough(n) == 4 * Radius * (power[n] - 1) >= rings
        pow == Min({n \in 0..22 : enough(n)})
    IN  2 * power[IF pow > 0 THEN pow - 1 ELSE pow]

\* A pixel covers 1/(12 nsides^2) of the sphere: 58.63 degrees over nsides.
PixelSide == 2110763 \div NSides

PixelOf(s) == pos[s] \div PixelSide

\* A pixel and its neighbours, in the order cross_sample visits them.
Around(p) == <<p, p - 1, p + 1>>

\* PixelStore_compare: epochs first, then field indices, the reference first.
Compare(a, b) ==
    IF epoch[a] # epoch[b] THEN IF epoch[a] < epoch[b] THEN -1 ELSE 1
    ELSE IF field[a] # field[b] THEN IF field[a] < field[b] THEN -1 ELSE 1
    ELSE 0

\* Detections that compare equal are in the same field and interchangeable.
Precedes(a, b) == Compare(a, b) < 0 \/ (Compare(a, b) = 0 /\ a < b)

Dist(a, b) == IF pos[a] < pos[b] THEN pos[b] - pos[a] ELSE pos[a] - pos[b]

---------------------------------------------------------------------------
(* The calls in progress *)

\* What try_match tries in a pixel: the detections above s upwards, or those
\* below s downwards.
Tried(s, dir, p) ==
    LET pixel == PixelStore_get(p)
        higher == Bisect(pixel, {t \in Samples : Compare(s, t) < 0})
        lower == Bisect(pixel, {t \in Samples : Compare(s, t) <= 0})
    IN  IF dir = "up" THEN SubSeq(pixel, higher + 1, Len(pixel))
                      ELSE Reverse(SubSeq(pixel, 1, lower))

\* What is left to try in a pixel, if there is something.
Pending(tries) == IF tries = <<>> THEN <<>> ELSE <<tries>>

\* A call of cross_sample: what is left to try, pixel by pixel, and how many
\* calls of cross_sample it is nested in.
CrossSample(s, dir, nested) ==
    LET around == Around(PixelOf(s))
        pending(i) == Pending(Tried(s, dir, around[i]))
    IN  [of |-> s, dir |-> dir, nested |-> nested,
         left |-> pending(1) \o pending(2) \o pending(3)]

Top == Head(stack)
Trial == Head(Head(Top.left))

\* The call for a partner that has been left alone, if there is one.
Relink(s, dir) == IF s = 0 THEN <<>> ELSE <<CrossSample(s, dir, Top.nested + 1)>>

\* The older and the newer one of the pair crossmatch is called with.
Older == IF Top.dir = "up" THEN Top.of ELSE Trial
Newer == IF Top.dir = "up" THEN Trial ELSE Top.of

\* The top call goes on to the next detection, or to the next pixel.
Advanced == [Top EXCEPT !.left = Pending(Tail(Head(@))) \o Tail(@)]
NextPixel == [Top EXCEPT !.left = Tail(@)]

\* Defect: a tie goes to the newcomer.
VerdictTakingTies(a, b) ==
    IF Dist(a, b) > Radius THEN "refused"
    ELSE IF next[a] # 0 /\ Compare(next[a], b) = -1 THEN "A_HAVE_CLOSEST"
    ELSE IF next[a] # 0 /\ Compare(next[a], b) = 0 /\ Dist(next[a], a) < Dist(a, b)
         THEN "refused"
    ELSE IF prev[b] # 0 /\ Compare(a, prev[b]) = -1 THEN "B_HAVE_CLOSEST"
    ELSE IF prev[b] # 0 /\ Compare(a, prev[b]) = 0 /\ Dist(b, prev[b]) < Dist(a, b)
         THEN "refused"
    ELSE "link"

\* crossmatch's verdict on the pair, ties going to the partner it has.
Verdict(a, b) ==
    IF Dist(a, b) > Radius THEN "refused"
    ELSE IF next[a] # 0 /\ Compare(next[a], b) = -1 THEN "A_HAVE_CLOSEST"
    ELSE IF next[a] # 0 /\ Compare(next[a], b) = 0 /\ Dist(next[a], a) <= Dist(a, b)
         THEN "refused"
    ELSE IF prev[b] # 0 /\ Compare(a, prev[b]) = -1 THEN "B_HAVE_CLOSEST"
    ELSE IF prev[b] # 0 /\ Compare(a, prev[b]) = 0 /\ Dist(b, prev[b]) <= Dist(a, b)
         THEN "refused"
    ELSE "link"

---------------------------------------------------------------------------

Init == /\ \E s \in Skies : field = s.field /\ pos = s.pos /\ epoch = s.epoch
        /\ PixelStore_new /\ order = <<>>
        /\ next = [s \in Samples |-> 0]
        /\ prev = [s \in Samples |-> 0]
        /\ stack = <<>> /\ turn = 0 /\ phase = "add"

\* The detections are added field by field, without links.
AddSample ==
    /\ phase = "add" /\ turn < Len(field)
    /\ turn' = turn + 1
    /\ PixelStore_add(turn', PixelOf(turn'))
    /\ UNCHANGED <<sky, order, next, prev, stack, phase>>

\* The main loops go through the pixels in the order of their creation.
SortPixels ==
    /\ phase = "add" /\ turn = Len(field)
    /\ PixelStore_sort({st \in Samples \X Samples : Precedes(st[1], st[2])})
    /\ order' = FlattenSeq([i \in DOMAIN pixelids |-> samples'[Search(pixelids[i])]])
    /\ phase' = "match" /\ turn' = 0
    /\ UNCHANGED <<sky, next, prev, stack>>

\* Defect: a detection is tried again until it has found a partner.
NextSampleUntilLinked ==
    /\ phase = "match" /\ stack = <<>> /\ turn < Len(field)
    /\ turn' = IF turn > 0 /\ prev[order[turn]] = 0 THEN turn ELSE turn + 1
    /\ stack' = <<CrossSample(order[turn'], "down", 0)>>
    /\ UNCHANGED <<sky, stored, next, prev, phase>>

\* The main loop calls cross_sample for the next detection.
NextSample ==
    /\ phase = "match" /\ stack = <<>> /\ turn < Len(field)
    /\ turn' = turn + 1
    /\ stack' = <<CrossSample(order[turn + 1], "down", 0)>>
    /\ UNCHANGED <<sky, stored, next, prev, phase>>

\* crossmatch does not link; try_match leaves the pixel when the detection it
\* works for has a closer partner in time.
Refuse ==
    /\ stack # <<>> /\ Top.left # <<>>
    /\ Verdict(Older, Newer) # "link"
    /\ stack' = <<IF Verdict(Older, Newer) =
                       (IF Top.dir = "up" THEN "A_HAVE_CLOSEST" ELSE "B_HAVE_CLOSEST")
                  THEN NextPixel ELSE Advanced>> \o Tail(stack)
    /\ UNCHANGED <<sky, stored, next, prev, turn, phase>>

\* Defect: the newer partner that is given up keeps its link backwards.
LinkOneSided ==
    /\ stack # <<>> /\ Top.left # <<>>
    /\ Verdict(Older, Newer) = "link"
    /\ LET a == Older
           b == Newer
           relinkUp == Relink(prev[b], "up")
           relinkDown == Relink(next[a], "down")
       IN  /\ next' = [s \in Samples |-> IF s = a THEN b
                                         ELSE IF s = prev[b] THEN 0 ELSE next[s]]
           /\ prev' = [prev EXCEPT ![b] = a]
           /\ stack' = relinkUp \o relinkDown \o <<Advanced>> \o Tail(stack)
    /\ UNCHANGED <<sky, stored, turn, phase>>

\* Defect: only the older partner looks again (crossid.c:64, case 3).
LinkUpOnly ==
    /\ stack # <<>> /\ Top.left # <<>>
    /\ Verdict(Older, Newer) = "link"
    /\ LET a == Older
           b == Newer
           relinkUp == Relink(prev[b], "up")
       IN  /\ next' = [s \in Samples |-> IF s = a THEN b
                                         ELSE IF s = prev[b] THEN 0 ELSE next[s]]
           /\ prev' = [s \in Samples |-> IF s = b THEN a
                                         ELSE IF s = next[a] THEN 0 ELSE prev[s]]
           /\ stack' = relinkUp \o <<Advanced>> \o Tail(stack)
    /\ UNCHANGED <<sky, stored, turn, phase>>

\* crossmatch links the pair, unlinks the partners they had, and has first the
\* older, then the newer of these look for another one.
Link ==
    /\ stack # <<>> /\ Top.left # <<>>
    /\ Verdict(Older, Newer) = "link"
    /\ LET a == Older
           b == Newer
           relinkUp == Relink(prev[b], "up")
           relinkDown == Relink(next[a], "down")
       IN  /\ next' = [s \in Samples |-> IF s = a THEN b
                                         ELSE IF s = prev[b] THEN 0 ELSE next[s]]
           /\ prev' = [s \in Samples |-> IF s = b THEN a
                                         ELSE IF s = next[a] THEN 0 ELSE prev[s]]
           /\ stack' = relinkUp \o relinkDown \o <<Advanced>> \o Tail(stack)
    /\ UNCHANGED <<sky, stored, turn, phase>>

\* cross_sample returns.
Return ==
    /\ stack # <<>> /\ Top.left = <<>>
    /\ stack' = Tail(stack)
    /\ UNCHANGED <<sky, stored, next, prev, turn, phase>>

Matched ==
    /\ phase = "match" /\ stack = <<>> /\ turn = Len(field)
    /\ phase' = "move" /\ turn' = 0
    /\ UNCHANGED <<sky, stored, next, prev, stack>>

\* The first detection of the chain s is in.
First(s) == LET f[t \in Samples] == IF prev[t] = 0 THEN t ELSE f[prev[t]] IN f[s]

\* Defect: a second reference is put before the first one.
MoveRefTwice ==
    /\ phase = "move" /\ turn < Len(field)
    /\ turn' = turn + 1
    /\ LET s == order[turn + 1]
           p == prev[s]
           n == next[s]
           first == First(s)
           cutNext == [next EXCEPT ![p] = n, ![s] = 0]
           cutPrev == IF n = 0 THEN [prev EXCEPT ![s] = 0]
                      ELSE [prev EXCEPT ![n] = p, ![s] = 0]
       IN  IF ~IsRef(s) \/ p = 0 THEN UNCHANGED <<next, prev>>
           ELSE /\ next' = [cutNext EXCEPT ![s] = first]
                /\ prev' = [cutPrev EXCEPT ![first] = s]
    /\ UNCHANGED <<sky, stored, stack, phase>>

\* Defect: what follows the reference is left behind when it is moved.
MoveRefCutting ==
    /\ phase = "move" /\ turn < Len(field)
    /\ turn' = turn + 1
    /\ LET s == order[turn + 1]
           p == prev[s]
           n == next[s]
           first == First(s)
           cutNext == [next EXCEPT ![p] = 0, ![s] = 0]
           cutPrev == IF n = 0 THEN [prev EXCEPT ![s] = 0]
                      ELSE [prev EXCEPT ![n] = 0, ![s] = 0]
       IN  IF ~IsRef(s) \/ p = 0 THEN UNCHANGED <<next, prev>>
           ELSE IF IsRef(first) THEN next' = cutNext /\ prev' = cutPrev
           ELSE /\ next' = [cutNext EXCEPT ![s] = first]
                /\ prev' = [cutPrev EXCEPT ![first] = s]
    /\ UNCHANGED <<sky, stored, stack, phase>>

\* One turn of move_refsamples.  A reference detection is taken out of its
\* chain and put before the first one -- unless that is a reference already.
MoveRef ==
    /\ phase = "move" /\ turn < Len(field)
    /\ turn' = turn + 1
    /\ LET s == order[turn + 1]
           p == prev[s]
           n == next[s]
           first == First(s)
           cutNext == [next EXCEPT ![p] = n, ![s] = 0]
           cutPrev == IF n = 0 THEN [prev EXCEPT ![s] = 0]
                      ELSE [prev EXCEPT ![n] = p, ![s] = 0]
       IN  IF ~IsRef(s) \/ p = 0 THEN UNCHANGED <<next, prev>>
           ELSE IF IsRef(first) THEN next' = cutNext /\ prev' = cutPrev
           ELSE /\ next' = [cutNext EXCEPT ![s] = first]
                /\ prev' = [cutPrev EXCEPT ![first] = s]
    /\ UNCHANGED <<sky, stored, stack, phase>>

Finish ==
    /\ phase = "move" /\ turn = Len(field)
    /\ phase' = "done"
    /\ UNCHANGED <<sky, stored, next, prev, stack, turn>>

\* What follows once the store is filled.
Match == NextSample \/ Refuse \/ Link \/ Return \/ Matched \/ MoveRef \/ Finish

Next == AddSample \/ SortPixels \/ Match

\* The program runs on.
Spec == Init /\ [][Next]_vars /\ WF_vars(Match)

---------------------------------------------------------------------------
(* Properties *)

\* Links are mutual, through every theft of a partner and every move of a
\* reference: a one-sided link would put a detection in two sources.
LinksMutual == \A a, b \in Samples : next[a] = b <=> prev[b] = a

WantsNext(a, b) == \/ next[a] = 0
                   \/ Compare(b, next[a]) < 0
                   \/ Compare(b, next[a]) = 0 /\ Dist(a, b) < Dist(a, next[a])
WantsPrev(a, b) == \/ prev[b] = 0
                   \/ Compare(prev[b], a) < 0
                   \/ Compare(prev[b], a) = 0 /\ Dist(a, b) < Dist(prev[b], b)

\* Two detections that would both rather be linked to each other.
Blocking(a, b) == /\ Compare(a, b) < 0 /\ Dist(a, b) <= Radius
                  /\ WantsNext(a, b) /\ WantsPrev(a, b)

AllMatched == phase = "move" /\ turn = 0

\* "change and relink many samples until it reaches a stable state"
\* (crossid.c:104): when the main loop is over, no two detections in
\* neighbouring pixels would rather be linked to each other, and all links
\* lead forwards in time over no more than the radius.
Stable == AllMatched => \A a, b \in Samples :
    /\ next[a] = b => Compare(a, b) < 0 /\ Dist(a, b) <= Radius
    /\ PixelOf(b) \in Range(Around(PixelOf(a))) => ~Blocking(a, b)

\* "to be sure to not loss any matches" (crossid.c:191): no two detections
\* within the radius are missed because of the pixels they are in.
NoMatchLost == AllMatched => \A a, b \in Samples : ~Blocking(a, b)

\* "Move every refsample at the begining of the linked samples"
\* (crossid.c:399): in the end nothing precedes a reference detection.
RefsLead == phase = "done" => \A s \in Samples : IsRef(s) => prev[s] = 0

\* The ordinary detections that follow s in its chain.
Followers(s) == LET f[t \in Samples] == IF next[t] = 0 THEN {}
                                        ELSE {next[t]} \cup f[next[t]]
                IN  {t \in f[s] : ~IsRef(t)}

\* Moving a reference detection neither cuts nor joins the chains of ordinary
\* detections.
OrdinaryKept == [][phase = "move" => \A s \in Samples :
                        ~IsRef(s) => Followers(s)' = Followers(s)]_vars

\* Every call of crossmatch that links may call cross_sample again, on the C
\* stack: there are never more calls in each other than detections.
RecursionBounded == \A i \in DOMAIN stack : stack[i].nested < Len(field)

\* The mutual recursion comes to an end: detections do not take partners from
\* each other for ever.
Terminates == phase = "match" ~> phase = "done"
===========================================================================
