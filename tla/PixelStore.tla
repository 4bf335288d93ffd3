------------------------------ MODULE PixelStore ------------------------------
(***************************************************************************)
(* chealpixstore.c: the detections of a group of fields, by HEALPix pixel. *)
(*                                                                         *)
(* The pixels that have detections are the nodes of an AVL tree, ordered   *)
(* by their ids, and pixelids lists these ids in the order of creation.    *)
(* Ids are 64-bit integers, but the tree compares them as values of type   *)
(* long, and pixelids is enlarged as an array of long.                     *)
(***************************************************************************)
EXTENDS Integers, SequencesExt

CONSTANTS NULL,
          IdBytes,      \* the size of a pixel id, 8 in the code
          LongBytes,    \* that of a long
          BaseSize      \* PIXELIDS_BASE_SIZE

ASSUME StoreAssumption == {IdBytes, LongBytes, BaseSize} \subseteq Nat \ {0}
ASSUME NullAssumption == NULL \notin Int

VARIABLES tree,      \* root, and for each node before, after (pBefore, pAfter),
                     \* up, height and imbalance
          samples,   \* the detections of each pixel
          pixelids,  \* the ids of the pixels, oldest first
          size, room \* pixelids_size, and the bytes allocated for pixelids

store == <<tree, samples, pixelids, size, room>>

Nodes == DOMAIN tree.up

---------------------------------------------------------------------------
(* Ids and the search *)

\* What is left of an id when it is converted to long.
Key(id) ==
    LET width == 2^(8 * LongBytes)
        low == id % width
    IN  IF LongBytes >= IdBytes THEN id
        ELSE IF 2 * low >= width THEN low - width ELSE low

\* The side of the node p where an id is to be looked for.
Side(id, p) == IF Key(id) < Key(p) THEN "before" ELSE "after"
Other(side) == IF side = "before" THEN "after" ELSE "before"

\* The node where the search for an id ends, or NULL.
Search(id) ==
    LET from[p \in Nodes \cup {NULL}] ==
            IF p = NULL THEN NULL
            ELSE IF Key(id) = Key(p) THEN p ELSE from[tree[Side(id, p)][p]]
    IN  from[tree.root]

\* The nodes between the place of a new id and the root.
Ancestors(id) ==
    LET from[p \in Nodes \cup {NULL}] ==
            IF p = NULL THEN <<>> ELSE Append(from[tree[Side(id, p)][p]], p)
    IN  from[tree.root]

\* A function that has a value at one more point.
With(f, x, v) == [y \in DOMAIN f \cup {x} |-> IF y = x THEN v ELSE f[y]]

---------------------------------------------------------------------------
(* Balance *)

Recomputed(t, p) ==
    LET h(c) == IF c = NULL THEN 0 ELSE t.height[c]
        before == h(t.before[p])
        after == h(t.after[p])
    IN  [t EXCEPT !.imbalance[p] = before - after, !.height[p] = Max({before, after}) + 1]

\* Defect: the inner grandchild is lost.
RotatedLosing(t, p, side) ==
    LET top == t[side][p]
        moved == [t EXCEPT !.up[top] = t.up[p], !.up[p] = top,
                           ![Other(side)][top] = p, ![side][p] = NULL]
    IN  Recomputed(Recomputed(moved, p), top)

\* The child of p on one side takes the place of p, which becomes its child on
\* the other side.
Rotated(t, p, side) ==
    LET top == t[side][p]
        inner == t[Other(side)][top]
        turned == [t EXCEPT !.up[top] = t.up[p], !.up[p] = top,
                            ![Other(side)][top] = p, ![side][p] = inner]
        moved == IF inner = NULL THEN turned ELSE [turned EXCEPT !.up[inner] = p]
    IN  Recomputed(Recomputed(moved, p), top)

\* What pointed to p, in its parent or as the root, points to top.
Hung(t, p, top) ==
    LET up == t.up[p]
    IN  CASE up = NULL       -> [t EXCEPT !.root = top]
          [] up # NULL /\ t.after[up] = p -> [t EXCEPT !.after[up] = top]
          [] OTHER           -> [t EXCEPT !.before[up] = top]

\* The child of p on the side that is too high; if it leans to the other side
\* it is rotated first.
Lifted(t, p, side) ==
    LET child == t[side][p]
        leansIn == IF side = "before" THEN t.imbalance[child] < 0 ELSE t.imbalance[child] > 0
    IN  IF ~leansIn THEN t
        ELSE [Rotated(t, child, Other(side)) EXCEPT ![side][p] = t[Other(side)][child]]

\* One turn of the loop in pixelAvlBalance.
Rebalanced(t, p) ==
    LET new == Recomputed(t, p)
        rotated(side) == LET l == Lifted(new, p, side)
                         IN  Rotated(Hung(l, p, l[side][p]), p, side)
    IN  CASE new.imbalance[p] >= 2  -> rotated("before")
          [] new.imbalance[p] <= -2 -> rotated("after")
          [] OTHER                  -> new

\* pixelAvlInsert, for an id whose search has failed.
Inserted(id) ==
    LET path == Ancestors(id)
        leaf == [root |-> tree.root,
                 before |-> With(tree.before, id, NULL),
                 after |-> With(tree.after, id, NULL),
                 up |-> With(tree.up, id, NULL),
                 height |-> With(tree.height, id, 1),
                 imbalance |-> With(tree.imbalance, id, 0)]
        parent == Head(path)
    IN  IF path = <<>> THEN [leaf EXCEPT !.root = id]
        ELSE FoldLeft(Rebalanced,
                      [leaf EXCEPT !.up[id] = parent, ![Side(id, parent)][parent] = id],
                      path)

---------------------------------------------------------------------------
(* Operations *)

PixelStore_new ==
    /\ tree = [root |-> NULL, before |-> <<>>, after |-> <<>>, up |-> <<>>,
               height |-> <<>>, imbalance |-> <<>>]
    /\ samples = <<>> /\ pixelids = <<>>
    /\ size = BaseSize /\ room = BaseSize * IdBytes

PixelStore_get(id) == IF Search(id) = NULL THEN <<>> ELSE samples[Search(id)]

\* The detection s is added to the pixel id.
PixelStore_add(s, id) ==
    LET found == Search(id)
    IN  IF found # NULL
        THEN /\ samples' = [samples EXCEPT ![found] = Append(@, s)]
             /\ UNCHANGED <<tree, pixelids, size, room>>
        ELSE /\ tree' = Inserted(id)
             /\ samples' = With(samples, id, <<s>>)
             /\ pixelids' = Append(pixelids, id)
             /\ IF size = Len(pixelids)
                THEN size' = 2 * size /\ room' = 2 * size * LongBytes
                ELSE UNCHANGED <<size, room>>

\* The detections of a pixel in order; before is the set of pairs of which the
\* first comes before the second.
InOrder(pixel, before) ==
    [i \in DOMAIN pixel |-> CHOOSE s \in Range(pixel) :
        Cardinality({t \in Range(pixel) : <<t, s>> \in before}) = i - 1]

\* pixelAvlSort, for every pixel.
PixelStore_sort(before) ==
    /\ samples' = [p \in Nodes |-> InOrder(samples[p], before)]
    /\ UNCHANGED <<tree, pixelids, size, room>>

\* Where the binary searches of PixelStore_getHigherFields and
\* PixelStore_getLowerFields end: before how many detections of a sorted pixel
\* there is one in above.
Bisect(pixel, above) ==
    LET ends == (0..Len(pixel)) \X (0..Len(pixel))
        between[r \in ends] ==
            LET min == r[1]
                max == r[2]
                i == (min + max) \div 2
            IN  CASE min >= max           -> max
                  [] min < max /\ pixel[i + 1] \in above -> between[<<min, i>>]
                  [] OTHER                -> between[<<i + 1, max>>]
    IN  between[<<0, Len(pixel)>>]

---------------------------------------------------------------------------
(* Properties *)

\* A search finds every pixel there is under its own id, whatever rotations
\* have come since its creation; no node is deeper on one side by more than
\* one; pixelids lists every pixel once, in the memory it has.
StoreSound ==
    /\ \A p \in Nodes : Search(p) = p /\ tree.imbalance[p] \in -1..1
    /\ IsInjective(pixelids) /\ Range(pixelids) = Nodes
    /\ Len(pixelids) * IdBytes <= room
=============================================================================
