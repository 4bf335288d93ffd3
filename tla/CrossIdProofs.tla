---------------------------- MODULE CrossIdProofs ----------------------------
(***************************************************************************)
(* What is proved of the store and of cross-identification, for any sky    *)
(* and any radius, when a long has room for a pixel id.                    *)
(*                                                                         *)
(* The tree is sound (Sound) when a function D gives the nodes below each  *)
(* node, those before it on one side and those after it on the other, and  *)
(* the imbalance of each node is the difference of its children's heights, *)
(* at most one.  A new leaf breaks this on the way to the root; Climbed is *)
(* what holds of the loop that repairs it.                                 *)
(*                                                                         *)
(* In the main loop two detections that would rather be linked to each     *)
(* other have yet to be tried: the newer one is still to come, or a call   *)
(* in progress for one of them still lists the other (Covered).  At the    *)
(* end no call and no detection is left, so there is no such pair.         *)
(*                                                                         *)
(* When the references are moved there is a rank that grows along the      *)
(* links (Acyclic), which First and Followers owe their values to.         *)
(***************************************************************************)
EXTENDS CrossId, FoldLemmas

---------------------------------------------------------------------------
(* The shape of the tree *)

Sides == {"before", "after"}

\* What is below a child, if there is one, and how high that is.
Under(D, c) == IF c = NULL THEN {} ELSE D[c]
HeightOf(t, c) == IF c = NULL THEN 0 ELSE t.height[c]

\* On which side of p an id q belongs.
On(side, q, p) == IF side = "before" THEN q < p ELSE p < q

TreeOf(N) == [root : N \cup {NULL}, before : [N -> N \cup {NULL}],
              after : [N -> N \cup {NULL}], up : [N -> N \cup {NULL}],
              height : [N -> Nat], imbalance : [N -> Int]]

\* D[p] are the nodes from p downwards, those before p on one side and those
\* after it on the other; up leads back.
Shaped(t, N, D) ==
    /\ N \in SUBSET Int /\ t \in TreeOf(N) /\ D \in [N -> SUBSET N]
    /\ Under(D, t.root) = N
    /\ t.root # NULL => t.up[t.root] = NULL
    /\ \A p \in N :
          /\ D[p] = {p} \cup Under(D, t.before[p]) \cup Under(D, t.after[p])
          /\ \A side \in Sides : \A q \in Under(D, t[side][p]) : On(side, q, p)
          /\ \A side \in Sides : t[side][p] # NULL => t.up[t[side][p]] = p
          /\ t.up[p] = NULL => t.root = p
          /\ t.up[p] # NULL => \E side \in Sides : t[side][t.up[p]] = p

\* The height and the imbalance of p are what its children make them.
Measured(t, p) ==
    LET b == HeightOf(t, t.before[p])
        a == HeightOf(t, t.after[p])
    IN  t.imbalance[p] = b - a /\ t.height[p] = 1 + (IF b >= a THEN b ELSE a)

\* The child of p on one side has taken the place of p.
Turned(t, u, N, p, side) ==
    LET other == Other(side)
        top == t[side][p]
        inner == t[other][top]
    IN  /\ u \in TreeOf(N)
        /\ u.root = (IF t.root = p THEN top ELSE t.root)
        /\ \A x \in N : u[side][x] = IF x = p THEN inner
                                     ELSE IF t[side][x] = p THEN top ELSE t[side][x]
        /\ \A x \in N : u[other][x] = IF x = top THEN p
                                      ELSE IF t[other][x] = p THEN top ELSE t[other][x]
        /\ \A x \in N : u.up[x] = IF x = top THEN t.up[p] ELSE IF x = p THEN top
                                  ELSE IF x = inner THEN p ELSE t.up[x]
        /\ \A x \in N \ {p, top} : /\ u.height[x] = t.height[x]
                                   /\ u.imbalance[x] = t.imbalance[x]
        /\ Measured(u, p) /\ Measured(u, top)

\* What was below p and its child is below them in another order.
TurnedUnder(t, D, p, side) ==
    LET top == t[side][p]
        inner == t[Other(side)][top]
        outside == t[Other(side)][p]
    IN  [D EXCEPT ![top] = D[p], ![p] = {p} \cup Under(D, inner) \cup Under(D, outside)]

LEMMA OtherSide ==
  ASSUME NEW side \in Sides
  PROVE  Other(side) \in Sides /\ Other(side) # side /\ Other(Other(side)) = side
         /\ \A s \in Sides : s = side \/ s = Other(side)
BY DEF Sides, Other

\* Nodes are pixel numbers; none of them is the empty link.
LEMMA ShapedNodes ==
  ASSUME NEW t, NEW N, NEW D, Shaped(t, N, D)
  PROVE  N \subseteq Int /\ NULL \notin N
<1>1. N \subseteq Int
  BY DEF Shaped
<1> QED BY <1>1, NullAssumption

\* What the shape says of a node and its child on one side.
LEMMA ShapedNode ==
  ASSUME NEW t, NEW N, NEW D, Shaped(t, N, D), NEW p \in N, NEW side \in Sides
  PROVE  /\ p \in Int /\ p # NULL /\ p \in D[p] /\ D[p] \subseteq N
         /\ t[side][p] \in N \cup {NULL} /\ t.up[p] \in N \cup {NULL}
         /\ D[p] = {p} \cup Under(D, t[side][p]) \cup Under(D, t[Other(side)][p])
         /\ \A q \in Under(D, t[side][p]) : q \in D[p] /\ On(side, q, p) /\ q # p
         /\ t[side][p] # NULL => t[side][p] \in Under(D, t[side][p]) /\ t.up[t[side][p]] = p
         /\ t.height[p] \in Nat /\ t.imbalance[p] \in Int
<1>1. p \in Int /\ p # NULL
  BY ShapedNodes
<1>2. /\ t.before \in [N -> N \cup {NULL}] /\ t.after \in [N -> N \cup {NULL}]
      /\ t.up \in [N -> N \cup {NULL}] /\ t.height \in [N -> Nat] /\ t.imbalance \in [N -> Int]
      /\ D \in [N -> SUBSET N]
  BY DEF Shaped, TreeOf
<1>3. t[side] \in [N -> N \cup {NULL}]
  BY <1>2 DEF Sides
<1>4. D[p] = {p} \cup Under(D, t.before[p]) \cup Under(D, t.after[p])
  BY DEF Shaped
<1>5. D[p] = {p} \cup Under(D, t[side][p]) \cup Under(D, t[Other(side)][p])
  BY <1>4 DEF Sides, Other
<1>6. \A q \in Under(D, t[side][p]) : On(side, q, p)
  BY DEF Shaped
<1>7. \A q \in Under(D, t[side][p]) : q \in D[p]
  BY <1>5
<1>8. \A q \in D[p] : q \in Int
  BY <1>2 DEF Shaped
<1>9. \A q \in Under(D, t[side][p]) : q # p
  BY <1>1, <1>6, <1>7, <1>8 DEF On
<1>10. ASSUME t[side][p] # NULL
       PROVE  t[side][p] \in Under(D, t[side][p]) /\ t.up[t[side][p]] = p
  <2>1. t[side][p] \in N
    BY <1>3, <1>10
  <2>2. D[t[side][p]] = {t[side][p]} \cup Under(D, t.before[t[side][p]])
                           \cup Under(D, t.after[t[side][p]])
    BY <2>1 DEF Shaped
  <2>3. t.up[t[side][p]] = p
    BY <1>10 DEF Shaped
  <2> QED BY <1>10, <2>2, <2>3 DEF Under
<1> QED BY <1>1, <1>2, <1>3, <1>5, <1>6, <1>7, <1>9, <1>10

\* A child is on its side of its parent.
LEMMA ChildSide ==
  ASSUME NEW t, NEW N, NEW D, Shaped(t, N, D), NEW p \in N, NEW side \in Sides,
         t[side][p] # NULL
  PROVE  On(side, t[side][p], p) /\ t.up[t[side][p]] = p
BY ShapedNode

\* To be on one side is an order, the reverse of the other side's.
LEMMA OnOrder ==
  ASSUME NEW side \in Sides, NEW a \in Int, NEW b \in Int, NEW c \in Int
  PROVE  /\ On(side, a, b) <=> On(Other(side), b, a)
         /\ On(side, a, b) /\ On(side, b, c) => On(side, a, c)
         /\ ~On(side, a, a)
         /\ a # b /\ ~On(side, a, b) => On(Other(side), a, b)
BY DEF Sides, Other, On

\* The nodes around a child of p that is about to be turned, and what lies under them.
TurnSite(t, N, D, p, side) ==
  LET o == Other(side)
      top == t[side][p]
      inner == t[o][top]
      outer == t[side][top]
      out == t[o][p]
  IN
      /\ top \in N /\ top # p /\ top # NULL /\ p # NULL /\ t.up[top] = p /\ o \in Sides
      /\ {inner, outer, out} \subseteq N \cup {NULL}
      /\ D[p] = {p} \cup D[top] \cup Under(D, out)
      /\ D[top] = {top} \cup Under(D, outer) \cup Under(D, inner)
      /\ D[p] \subseteq N /\ N \subseteq Int
      /\ inner # NULL => t.up[inner] = top /\ inner # p /\ inner # top
      /\ outer # NULL => t.up[outer] = top /\ outer # p /\ outer # top
      /\ out # NULL => t.up[out] = p /\ out # p /\ out # top
      /\ \A q \in Under(D, inner) : On(side, q, p) /\ On(o, q, top) /\ q # p /\ q # top
      /\ \A q \in Under(D, outer) : On(side, q, top) /\ q # p /\ q # top
      /\ \A q \in Under(D, out) : On(o, q, p) /\ On(o, q, top) /\ q # p /\ q # top
      /\ On(o, p, top)

LEMMA TurnNodes ==
  ASSUME NEW t, NEW N, NEW D, Shaped(t, N, D), NEW p \in N, NEW side \in Sides,
         t[side][p] # NULL
  PROVE  TurnSite(t, N, D, p, side)
<1> DEFINE o == Other(side)
           top == t[side][p]
           inner == t[o][top]
           outer == t[side][top]
           out == t[o][p]
<1>0. /\ o = Other(side) /\ top = t[side][p] /\ inner = t[o][top]
      /\ outer = t[side][top] /\ out = t[o][p] /\ top # NULL
  OBVIOUS
<1> HIDE DEF top, inner, outer, out, o
<1>1. o \in Sides /\ Other(o) = side
  BY <1>0, OtherSide
<1>2. /\ p \in Int /\ p # NULL /\ D[p] \subseteq N /\ t[side][p] \in N \cup {NULL}
      /\ D[p] = {p} \cup Under(D, top) \cup Under(D, out)
      /\ \A q \in Under(D, top) : q \in D[p] /\ On(side, q, p) /\ q # p
      /\ top \in Under(D, top) /\ t.up[top] = p
  BY <1>0, ShapedNode
<1>3. top \in N /\ top # NULL /\ Under(D, top) = D[top] /\ top # p
  BY <1>2 DEF Under
<1>4. /\ out \in N \cup {NULL}
      /\ \A q \in Under(D, out) : q \in D[p] /\ On(o, q, p) /\ q # p
      /\ out # NULL => out \in Under(D, out) /\ t.up[out] = p
  BY <1>0, <1>1, ShapedNode
<1>5. /\ top \in Int /\ D[top] \subseteq N /\ outer \in N \cup {NULL}
      /\ D[top] = {top} \cup Under(D, outer) \cup Under(D, inner)
      /\ \A q \in Under(D, outer) : q \in D[top] /\ On(side, q, top) /\ q # top
      /\ outer # NULL => outer \in Under(D, outer) /\ t.up[outer] = top
  BY <1>0, <1>3, ShapedNode
<1>6. /\ inner \in N \cup {NULL}
      /\ \A q \in Under(D, inner) : q \in D[top] /\ On(o, q, top) /\ q # top
      /\ inner # NULL => inner \in Under(D, inner) /\ t.up[inner] = top
  BY <1>0, <1>1, <1>3, ShapedNode
<1>7. N \subseteq Int
  BY DEF Shaped
<1>8. On(side, top, p) /\ On(o, p, top)
  BY <1>1, <1>2, <1>5, OnOrder
<1>9. \A q \in Under(D, out) : On(o, q, top) /\ q # top
  <2> SUFFICES ASSUME NEW q \in Under(D, out) PROVE On(o, q, top) /\ q # top
    OBVIOUS
  <2>1. q \in Int /\ On(o, q, p)
    BY <1>2, <1>4, <1>7
  <2>2. On(o, q, top)
    BY <1>1, <1>2, <1>5, <1>8, <2>1, OnOrder
  <2> QED BY <1>1, <1>5, <2>2, OnOrder
<1> QED BY <1>1, <1>2, <1>3, <1>4, <1>5, <1>6, <1>7, <1>8, <1>9
       DEF TurnSite, o, top, inner, outer, out

\* A turn keeps the order of the tree.
LEMMA TurnShape ==
  ASSUME NEW t, NEW N, NEW D, Shaped(t, N, D), NEW p \in N, NEW side \in Sides,
         t[side][p] # NULL, NEW u, Turned(t, u, N, p, side)
  PROVE  Shaped(u, N, TurnedUnder(t, D, p, side))
<1> DEFINE o == Other(side)
           top == t[side][p]
           inner == t[o][top]
           outer == t[side][top]
           out == t[o][p]
           E == TurnedUnder(t, D, p, side)
<1>0. /\ o = Other(side) /\ top = t[side][p] /\ inner = t[o][top]
      /\ outer = t[side][top] /\ out = t[o][p] /\ top # NULL
  OBVIOUS
<1>1. /\ top \in N /\ top # p /\ top # NULL /\ p # NULL /\ t.up[top] = p /\ o \in Sides
      /\ {inner, outer, out} \subseteq N \cup {NULL}
      /\ D[p] = {p} \cup D[top] \cup Under(D, out)
      /\ D[top] = {top} \cup Under(D, outer) \cup Under(D, inner)
      /\ D[p] \subseteq N /\ N \subseteq Int
      /\ inner # NULL => t.up[inner] = top /\ inner # p /\ inner # top
      /\ outer # NULL => t.up[outer] = top /\ outer # p /\ outer # top
      /\ out # NULL => t.up[out] = p /\ out # p /\ out # top
      /\ \A q \in Under(D, inner) : On(side, q, p) /\ On(o, q, top) /\ q # p /\ q # top
      /\ \A q \in Under(D, outer) : On(side, q, top) /\ q # p /\ q # top
      /\ \A q \in Under(D, out) : On(o, q, p) /\ On(o, q, top) /\ q # p /\ q # top
      /\ On(o, p, top)
  <2>1. TurnSite(t, N, D, p, side)
    BY TurnNodes
  <2> QED BY <2>1 DEF TurnSite
<1> HIDE DEF E, top, inner, outer, out, o
<1>2. /\ u \in TreeOf(N)
      /\ u.root = (IF t.root = p THEN top ELSE t.root)
      /\ \A x \in N : u[side][x] = IF x = p THEN inner
                                   ELSE IF t[side][x] = p THEN top ELSE t[side][x]
      /\ \A x \in N : u[o][x] = IF x = top THEN p
                                ELSE IF t[o][x] = p THEN top ELSE t[o][x]
      /\ \A x \in N : u.up[x] = IF x = top THEN t.up[p] ELSE IF x = p THEN top
                                ELSE IF x = inner THEN p ELSE t.up[x]
  BY <1>0 DEF Turned
<1>3. D \in [N -> SUBSET N] /\ N \in SUBSET Int
  BY DEF Shaped
<1>4. E = [D EXCEPT ![top] = D[p], ![p] = {p} \cup Under(D, inner) \cup Under(D, out)]
  BY <1>0 DEF TurnedUnder, E
<1>5. o # side /\ Other(o) = side /\ \A s \in Sides : s = side \/ s = o
  BY <1>0, OtherSide
<1>6. \A x \in N : /\ x \in Int /\ x # NULL /\ x \in D[x] /\ D[x] \subseteq N /\ t.up[x] \in N \cup {NULL}
                   /\ D[x] = {x} \cup Under(D, t[side][x]) \cup Under(D, t[o][x])
                   /\ \A s \in Sides :
                         /\ t[s][x] \in N \cup {NULL}
                         /\ \A q \in Under(D, t[s][x]) : On(s, q, x)
                         /\ t[s][x] # NULL => t[s][x] \in Under(D, t[s][x]) /\ t.up[t[s][x]] = x
  BY <1>1, <1>0, ShapedNode
<1>7. /\ E \in [N -> SUBSET N] /\ E[top] = D[p]
      /\ E[p] = {p} \cup Under(D, inner) \cup Under(D, out)
      /\ \A x \in N \ {p, top} : E[x] = D[x]
  BY <1>1, <1>3, <1>4
<1>8. Under(E, inner) = Under(D, inner) /\ Under(E, outer) = Under(D, outer)
      /\ Under(E, out) = Under(D, out)
  BY <1>1, <1>7 DEF Under
<1>9. /\ u[side][p] = inner /\ u[o][top] = p
      /\ u[side][top] = outer /\ u[o][p] = out
  <2>1. t[side][top] # p /\ t[o][p] # p
    BY <1>1 DEF outer, out
  <2> QED BY <1>1, <1>2, <2>1 DEF outer, out
\* the places above p
<1>10. ASSUME NEW x \in N \ {p, top}, NEW s \in Sides
       PROVE  /\ u[s][x] = (IF t[s][x] = p THEN top ELSE t[s][x])
              /\ t[s][x] # top
              /\ Under(E, u[s][x]) = Under(D, t[s][x])
  <2>1. u[s][x] = (IF t[s][x] = p THEN top ELSE t[s][x])
    BY <1>2, <1>5
  <2>2. t[s][x] # top
    BY <1>1, <1>6
  <2>3. CASE t[s][x] = p
    BY <1>1, <1>7, <2>1, <2>3 DEF Under
  <2>4. CASE t[s][x] # p
    BY <1>6, <1>7, <2>1, <2>2, <2>4 DEF Under
  <2> QED BY <2>1, <2>2, <2>3, <2>4
<1>11. Under(E, u.root) = N /\ (u.root # NULL => u.up[u.root] = NULL)
  <2>1. Under(D, t.root) = N /\ t.root \in N \cup {NULL} /\ (t.root # NULL => t.up[t.root] = NULL)
    BY DEF Shaped, TreeOf
  <2>2. t.root # top
    BY <1>1, <2>1
  <2>3. CASE t.root = p
    BY <1>1, <1>2, <1>7, <2>1, <2>3 DEF Under
  <2>4. CASE t.root # p
    <3>1. u.root = t.root /\ Under(E, u.root) = N
      BY <1>2, <1>7, <2>1, <2>2, <2>4 DEF Under
    <3>2. t.root # NULL => t.root # inner
      BY <1>1, <2>1
    <3> QED BY <1>2, <2>1, <2>2, <2>4, <3>1, <3>2
  <2> QED BY <2>3, <2>4
<1>12. ASSUME NEW x \in N
       PROVE  E[x] = {x} \cup Under(E, u[side][x]) \cup Under(E, u[o][x])
  <2>1. CASE x = p
    BY <1>7, <1>8, <1>9, <2>1
  <2>2. CASE x = top
    <3>1. Under(E, p) = E[p]
      BY <1>1 DEF Under
    <3>2. E[top] = {p} \cup {top} \cup Under(D, outer) \cup Under(D, inner) \cup Under(D, out)
      BY <1>1, <1>7
    <3> QED BY <1>7, <1>8, <1>9, <2>2, <3>1, <3>2
  <2>3. CASE x \notin {p, top}
    BY <1>1, <1>6, <1>7, <1>10, <2>3
  <2> QED BY <2>1, <2>2, <2>3
<1>13. ASSUME NEW x \in N, NEW s \in Sides, NEW q \in Under(E, u[s][x]) PROVE On(s, q, x)
  <2>1. CASE x = p
    <3>1. CASE s = side
      BY <1>1, <1>8, <1>9, <1>13, <2>1, <3>1
    <3>2. CASE s = o
      BY <1>1, <1>8, <1>9, <1>13, <2>1, <3>2
    <3> QED BY <1>5, <3>1, <3>2
  <2>2. CASE x = top
    <3>1. CASE s = side
      BY <1>1, <1>8, <1>9, <1>13, <2>2, <3>1
    <3>2. CASE s = o
      <4>1. q \in {p} \cup Under(D, inner) \cup Under(D, out)
        BY <1>1, <1>7, <1>9, <1>13, <2>2, <3>2 DEF Under
      <4> QED BY <1>1, <2>2, <3>2, <4>1
    <3> QED BY <1>5, <3>1, <3>2
  <2>3. CASE x \notin {p, top}
    BY <1>6, <1>10, <1>13, <2>3
  <2> QED BY <2>1, <2>2, <2>3
<1>14. ASSUME NEW x \in N, NEW s \in Sides, u[s][x] # NULL PROVE u.up[u[s][x]] = x
  <2>1. CASE x = p
    <3>1. CASE s = side
      BY <1>1, <1>2, <1>9, <1>14, <2>1, <3>1
    <3>2. CASE s = o
      <4>1. out # inner
        BY <1>1, <1>9, <1>14, <2>1, <3>2
      <4> QED BY <1>1, <1>2, <1>9, <1>14, <2>1, <3>2, <4>1
    <3> QED BY <1>5, <3>1, <3>2
  <2>2. CASE x = top
    <3>1. CASE s = side
      <4>1. outer # inner
        <5>1. outer \in Under(D, outer) /\ (inner \in Under(D, inner) \/ inner = NULL)
          BY <1>1, <1>6, <1>9, <1>14, <2>2, <3>1 DEF outer, inner
        <5>2. outer \in Int /\ top \in Int
          BY <1>1, <1>6, <1>9, <1>14, <2>2, <3>1
        <5>3. inner = outer => On(o, outer, top) /\ On(side, outer, top)
          BY <1>1, <1>9, <1>14, <2>2, <3>1, <5>1
        <5>4. ~(On(o, outer, top) /\ On(side, outer, top))
          BY <5>2, <1>1, <1>5, OnOrder
        <5> QED BY <5>3, <5>4
      <4> QED BY <1>1, <1>2, <1>9, <1>14, <2>2, <3>1, <4>1
    <3>2. CASE s = o
      BY <1>1, <1>2, <1>9, <1>14, <2>2, <3>2
    <3> QED BY <1>5, <3>1, <3>2
  <2>3. CASE x \notin {p, top}
    <3>1. CASE t[s][x] = p
      BY <1>1, <1>2, <1>6, <1>10, <2>3, <3>1
    <3>2. CASE t[s][x] # p
      <4>1. u[s][x] = t[s][x] /\ u[s][x] \in N /\ t[s][x] # top /\ t.up[t[s][x]] = x
        BY <1>6, <1>10, <1>14, <2>3, <3>2
      <4>2. u[s][x] # inner
        BY <1>1, <1>14, <2>3, <4>1
      <4> QED BY <1>2, <3>2, <4>1, <4>2
    <3> QED BY <3>1, <3>2
  <2> QED BY <2>1, <2>2, <2>3
<1>15. ASSUME NEW x \in N
       PROVE  /\ u.up[x] = NULL => u.root = x
              /\ u.up[x] # NULL => \E s \in Sides : u[s][u.up[x]] = x
  <2>0. /\ \A y \in N : t.up[y] = NULL => t.root = y
        /\ \A y \in N : t.up[y] # NULL => \E s \in Sides : t[s][t.up[y]] = y
    BY DEF Shaped
  <2>1. CASE x = p
    BY <1>1, <1>2, <1>9, <2>1
  <2>2. CASE x = top
    <3>1. u.up[x] = t.up[p]
      BY <1>2, <2>2
    <3>2. ASSUME t.up[p] # NULL PROVE \E s \in Sides : u[s][t.up[p]] = top
      <4>1. PICK s \in Sides : t[s][t.up[p]] = p
        BY <2>0, <3>2
      <4>2. t.up[p] \in N
        BY <1>6, <3>2
      <4>3. t.up[p] # p
        BY <1>1, <1>5, <4>1, <4>2 DEF top, out
      <4>4. t.up[p] # top
        BY <1>1, <1>5, <4>1, <4>2 DEF inner, outer
      <4> QED BY <1>10, <4>1, <4>2, <4>3, <4>4
    <3>3. t.up[p] = NULL => u.root = top
      BY <1>2, <2>0
    <3> QED BY <2>2, <3>1, <3>2, <3>3
  <2>3. CASE x = inner
    BY <1>1, <1>2, <1>9, <2>3
  <2>4. CASE x \notin {p, top, inner}
    <3>1. u.up[x] = t.up[x]
      BY <1>2, <2>4
    <3>2. t.up[x] = NULL => u.root = x
      BY <1>2, <2>0, <2>4
    <3>3. ASSUME t.up[x] # NULL PROVE \E s \in Sides : u[s][t.up[x]] = x
      <4>1. PICK s \in Sides : t[s][t.up[x]] = x
        BY <2>0, <3>3
      <4>2. t.up[x] \in N
        BY <1>6, <3>3
      <4>3. CASE t.up[x] = p
        <5>1. s = o
          BY <1>5, <2>4, <4>1, <4>3 DEF top
        <5> QED BY <1>1, <1>9, <4>1, <4>3, <5>1 DEF out
      <4>4. CASE t.up[x] = top
        <5>1. s = side
          BY <1>5, <2>4, <4>1, <4>4 DEF inner
        <5> QED BY <1>9, <4>1, <4>4, <5>1 DEF outer
      <4>5. CASE t.up[x] \notin {p, top}
        BY <1>10, <2>4, <4>1, <4>2, <4>5
      <4> QED BY <4>3, <4>4, <4>5
    <3> QED BY <3>1, <3>2, <3>3
  <2> QED BY <2>1, <2>2, <2>3, <2>4
<1>16. \A x \in N : E[x] = {x} \cup Under(E, u.before[x]) \cup Under(E, u.after[x])
  <2>1. CASE side = "before"
    BY <1>12, <2>1 DEF o, Other
  <2>2. CASE side = "after"
    BY <1>12, <2>2 DEF o, Other
  <2> QED BY <2>1, <2>2 DEF Sides
<1> QED BY <1>2, <1>3, <1>7, <1>11, <1>13, <1>14, <1>15, <1>16 DEF Shaped, E

---------------------------------------------------------------------------
(* Rotations *)

LEMMA MaxOfTwo ==
  ASSUME NEW a \in Nat, NEW b \in Nat
  PROVE  Max({a, b}) = IF a >= b THEN a ELSE b
<1>1. {a, b} \subseteq 0..(a + b) /\ {a, b} # {} /\ a + b \in Nat
  OBVIOUS
<1>2. Max({a, b}) \in {a, b} /\ \A x \in {a, b} : x <= Max({a, b})
  <2>1. \E x \in {a, b} : \A y \in {a, b} : x >= y
    <3>1. CASE a >= b
      BY <3>1
    <3>2. CASE ~(a >= b)
      BY <3>2
    <3> QED BY <3>1, <3>2
  <2>2. \A y \in {a, b} : Max({a, b}) >= y /\ Max({a, b}) \in {a, b}
    BY <2>1 DEF Max
  <2> QED BY <2>2
<1> QED BY <1>2

LEMMA HeightNat ==
  ASSUME NEW N, NEW t \in TreeOf(N), NEW c \in N \cup {NULL}
  PROVE  HeightOf(t, c) \in Nat
BY DEF TreeOf, HeightOf

\* Recomputing a node changes its own height and imbalance only.
LEMMA RecomputedFields ==
  ASSUME NEW N, NULL \notin N, NEW t \in TreeOf(N), NEW p \in N,
         t.before[p] # p, t.after[p] # p
  PROVE  LET u == Recomputed(t, p)
         IN  /\ u \in TreeOf(N) /\ Measured(u, p)
             /\ u.root = t.root /\ u.before = t.before /\ u.after = t.after /\ u.up = t.up
             /\ \A x \in N \ {p} : u.height[x] = t.height[x] /\ u.imbalance[x] = t.imbalance[x]
<1> DEFINE b == HeightOf(t, t.before[p])
           a == HeightOf(t, t.after[p])
           h == 1 + (IF b >= a THEN b ELSE a)
           u == [t EXCEPT !.imbalance[p] = b - a, !.height[p] = h]
<1>1. t.before[p] \in N \cup {NULL} /\ t.after[p] \in N \cup {NULL}
  BY DEF TreeOf
<1>2. b \in Nat /\ a \in Nat
  BY <1>1, HeightNat
<1>3. Recomputed(t, p) = [t EXCEPT !.imbalance[p] = b - a, !.height[p] = Max({b, a}) + 1]
  BY DEF Recomputed, HeightOf
<1> HIDE DEF a, b
<1>4. Max({b, a}) + 1 = h /\ h \in Nat /\ b - a \in Int
  BY <1>2, MaxOfTwo
<1>5. Recomputed(t, p) = u
  BY <1>3, <1>4
<1> HIDE DEF h
<1>6. /\ u \in TreeOf(N)
      /\ u.root = t.root /\ u.before = t.before /\ u.after = t.after /\ u.up = t.up
      /\ \A x \in N \ {p} : u.height[x] = t.height[x] /\ u.imbalance[x] = t.imbalance[x]
      /\ u.height[p] = h /\ u.imbalance[p] = b - a
  BY <1>4 DEF TreeOf
<1> HIDE DEF u
<1>7. HeightOf(u, u.before[p]) = b /\ HeightOf(u, u.after[p]) = a
  BY <1>1, <1>6 DEF HeightOf, a, b
<1>8. Measured(u, p)
  BY <1>6, <1>7 DEF Measured, h
<1> QED BY <1>5, <1>6, <1>8

\* What a rotation leaves, in a tree in which nothing points to p any more.
LEMMA RotatedFields ==
  ASSUME NEW N, NULL \notin N, NEW t \in TreeOf(N), NEW p \in N, NEW side \in Sides,
         t[side][p] \in N, t[side][p] # p,
         t[side][t[side][p]] \notin {p, t[side][p]},
         t[Other(side)][t[side][p]] \notin {p, t[side][p]},
         t[Other(side)][p] \notin {p, t[side][p]}
  PROVE  LET o == Other(side)
             top == t[side][p]
             inner == t[o][top]
             u == Rotated(t, p, side)
         IN  /\ u \in TreeOf(N) /\ Measured(u, p) /\ Measured(u, top) /\ u.root = t.root
             /\ \A x \in N : u[side][x] = IF x = p THEN inner ELSE t[side][x]
             /\ \A x \in N : u[o][x] = IF x = top THEN p ELSE t[o][x]
             /\ \A x \in N : u.up[x] = IF x = top THEN t.up[p] ELSE IF x = p THEN top
                                       ELSE IF x = inner THEN p ELSE t.up[x]
             /\ \A x \in N \ {p, top} : /\ u.height[x] = t.height[x]
                                        /\ u.imbalance[x] = t.imbalance[x]
<1> DEFINE o == Other(side)
           top == t[side][p]
           inner == t[o][top]
           turned == [t EXCEPT !.up[top] = t.up[p], !.up[p] = top,
                               ![o][top] = p, ![side][p] = inner]
           moved == IF inner = NULL THEN turned ELSE [turned EXCEPT !.up[inner] = p]
<1>1. o \in Sides /\ o # side /\ Sides = {side, o}
  BY OtherSide DEF Sides
<1>2. top \in N /\ top # p /\ inner \in N \cup {NULL} /\ inner # p /\ inner # top
      /\ t[side] \in [N -> N \cup {NULL}] /\ t[o] \in [N -> N \cup {NULL}]
      /\ t.up \in [N -> N \cup {NULL}]
  <2>1. t[side] \in [N -> N \cup {NULL}] /\ t[o] \in [N -> N \cup {NULL}]
    BY <1>1 DEF Sides, TreeOf
  <2> QED BY <2>1 DEF TreeOf
<1>3. Rotated(t, p, side) = Recomputed(Recomputed(moved, p), top)
  BY DEF Rotated
<1>4. /\ t[side][top] \notin {p, top} /\ t[o][p] \notin {p, top}
  OBVIOUS
<1> HIDE DEF top, inner
<1>5. /\ turned \in TreeOf(N) /\ turned.root = t.root
      /\ turned.height = t.height /\ turned.imbalance = t.imbalance
      /\ \A x \in N : turned[side][x] = IF x = p THEN inner ELSE t[side][x]
      /\ \A x \in N : turned[o][x] = IF x = top THEN p ELSE t[o][x]
      /\ \A x \in N : turned.up[x] = IF x = top THEN t.up[p] ELSE IF x = p THEN top ELSE t.up[x]
  <2>1. CASE side = "before"
    <3>1. o = "after"
      BY <2>1 DEF Other
    <3> HIDE DEF o
    <3> QED BY <1>2, <2>1, <3>1 DEF TreeOf
  <2>2. CASE side = "after"
    <3>1. o = "before"
      BY <2>2 DEF Other
    <3> HIDE DEF o
    <3> QED BY <1>2, <2>2, <3>1 DEF TreeOf
  <2> QED BY <2>1, <2>2 DEF Sides
<1> HIDE DEF turned, o
<1>6. /\ moved \in TreeOf(N) /\ moved.root = t.root
      /\ moved.height = t.height /\ moved.imbalance = t.imbalance
      /\ moved[side] = turned[side] /\ moved[o] = turned[o]
      /\ \A x \in N : moved.up[x] = IF x = top THEN t.up[p] ELSE IF x = p THEN top
                                    ELSE IF x = inner THEN p ELSE t.up[x]
  <2>1. CASE inner = NULL
    BY <1>2, <1>5, <2>1
  <2>2. CASE inner # NULL
    <3>1. /\ moved \in TreeOf(N) /\ moved.root = turned.root
          /\ moved.height = turned.height /\ moved.imbalance = turned.imbalance
          /\ moved.before = turned.before /\ moved.after = turned.after
          /\ moved.up = [turned.up EXCEPT ![inner] = p]
      BY <1>2, <1>5, <2>2 DEF TreeOf
    <3>2. moved[side] = turned[side] /\ moved[o] = turned[o]
      BY <1>1, <3>1 DEF Sides
    <3>3. turned.up \in [N -> N \cup {NULL}]
      BY <1>5 DEF TreeOf
    <3> HIDE DEF moved
    <3> QED BY <1>2, <1>5, <2>2, <3>1, <3>2, <3>3
  <2> QED BY <2>1, <2>2
<1> HIDE DEF moved
<1> DEFINE m == Recomputed(moved, p)
           u == Recomputed(m, top)
<1>7. /\ moved[side][p] = inner /\ moved[o][p] = t[o][p]
      /\ moved[side][top] = t[side][top] /\ moved[o][top] = p
  BY <1>2, <1>5, <1>6
<1>8. \A v : v \in TreeOf(N) /\ v[side] = moved[side] /\ v[o] = moved[o]
                => v.before[p] # p /\ v.after[p] # p /\ v.before[top] # top /\ v.after[top] # top
  BY <1>1, <1>2, <1>4, <1>7 DEF Sides
<1>9. /\ m \in TreeOf(N) /\ Measured(m, p)
      /\ m.root = moved.root /\ m.before = moved.before /\ m.after = moved.after
      /\ m.up = moved.up
      /\ \A x \in N \ {p} : m.height[x] = moved.height[x] /\ m.imbalance[x] = moved.imbalance[x]
  BY <1>6, <1>8, RecomputedFields
<1> HIDE DEF m
<1>10. m[side] = moved[side] /\ m[o] = moved[o]
  BY <1>1, <1>9 DEF Sides
<1>11. /\ u \in TreeOf(N) /\ Measured(u, top)
       /\ u.root = m.root /\ u.before = m.before /\ u.after = m.after /\ u.up = m.up
       /\ \A x \in N \ {top} : u.height[x] = m.height[x] /\ u.imbalance[x] = m.imbalance[x]
  BY <1>2, <1>8, <1>9, <1>10, RecomputedFields
<1>12. u[side] = moved[side] /\ u[o] = moved[o] /\ Rotated(t, p, side) = u
  BY <1>1, <1>3, <1>9, <1>11 DEF Sides, m
<1> HIDE DEF u
<1>13. Measured(u, p)
  <2>1. m.before[p] # top /\ m.after[p] # top
    BY <1>1, <1>2, <1>4, <1>7, <1>10 DEF Sides
  <2>2. m.before[p] \in N \cup {NULL} /\ m.after[p] \in N \cup {NULL}
    BY <1>9 DEF TreeOf
  <2>3. /\ HeightOf(u, u.before[p]) = HeightOf(m, m.before[p])
        /\ HeightOf(u, u.after[p]) = HeightOf(m, m.after[p])
    BY <1>11, <2>1, <2>2 DEF HeightOf
  <2>4. u.height[p] = m.height[p] /\ u.imbalance[p] = m.imbalance[p]
    BY <1>2, <1>11
  <2> QED BY <1>9, <2>3, <2>4 DEF Measured
<1>14. \A x \in N : /\ u[side][x] = IF x = p THEN inner ELSE t[side][x]
                    /\ u[o][x] = IF x = top THEN p ELSE t[o][x]
                    /\ u.up[x] = IF x = top THEN t.up[p] ELSE IF x = p THEN top
                                 ELSE IF x = inner THEN p ELSE t.up[x]
  BY <1>5, <1>6, <1>9, <1>11, <1>12
<1>15. \A x \in N \ {p, top} : u.height[x] = t.height[x] /\ u.imbalance[x] = t.imbalance[x]
  BY <1>6, <1>9, <1>11
<1> QED BY <1>6, <1>9, <1>11, <1>12, <1>13, <1>14, <1>15 DEF o, top, inner

\* The child of p is hung where p was, and p turned: one turn of the loop.
LEMMA HungFields ==
  ASSUME NEW t, NEW N, NEW D, Shaped(t, N, D), NEW p \in N, NEW top \in N
  PROVE  LET v == Hung(t, p, top)
         IN  /\ v \in TreeOf(N)
             /\ v.root = (IF t.root = p THEN top ELSE t.root)
             /\ v.up = t.up /\ v.height = t.height /\ v.imbalance = t.imbalance
             /\ \A s \in Sides : \A x \in N : v[s][x] = IF t[s][x] = p THEN top ELSE t[s][x]
<1> DEFINE up == t.up[p]
           v == Hung(t, p, top)
<1>1. /\ t \in TreeOf(N) /\ N \subseteq Int /\ NULL \notin N /\ p # NULL
      /\ t.root # NULL => t.up[t.root] = NULL
      /\ up \in N \cup {NULL}
      /\ up = NULL => t.root = p
      /\ up # NULL => \E s \in Sides : t[s][up] = p
      /\ \A s \in Sides, x \in N : t[s][x] = p => up = x
      /\ t.before \in [N -> N \cup {NULL}] /\ t.after \in [N -> N \cup {NULL}]
  <2>1. \A s \in Sides, x \in N : t[s][x] # NULL => t.up[t[s][x]] = x
    BY DEF Shaped
  <2>2. N \subseteq Int /\ NULL \notin N /\ p # NULL
    BY ShapedNodes
  <2>3. \A s \in Sides, x \in N : t[s][x] = p => up = x
    BY <2>1, <2>2
  <2>4. /\ t \in TreeOf(N) /\ (t.root # NULL => t.up[t.root] = NULL)
        /\ (up = NULL => t.root = p) /\ (up # NULL => \E s \in Sides : t[s][up] = p)
    BY DEF Shaped
  <2>5. /\ t.before \in [N -> N \cup {NULL}] /\ t.after \in [N -> N \cup {NULL}]
        /\ t.up \in [N -> N \cup {NULL}]
    BY <2>4 DEF TreeOf
  <2>6. up \in N \cup {NULL}
    BY <2>5
  <2> HIDE DEF up
  <2> QED BY <2>2, <2>3, <2>4, <2>5, <2>6
<1> HIDE DEF up
<1>2. CASE up = NULL
  <2>1. v = [t EXCEPT !.root = top]
    BY <1>2 DEF Hung, up
  <2> HIDE DEF v
  <2>2. \A s \in Sides, x \in N : t[s][x] # p
    BY <1>1, <1>2
  <2>3. /\ v \in TreeOf(N) /\ v.root = top /\ v.up = t.up /\ v.height = t.height
        /\ v.imbalance = t.imbalance /\ v.before = t.before /\ v.after = t.after
    BY <1>1, <2>1 DEF TreeOf
  <2> QED BY <1>1, <1>2, <2>2, <2>3 DEF Sides, v
<1>3. CASE up # NULL
  <2>1. t.root # p /\ up \in N
    BY <1>1, <1>3 DEF up
  <2>2. CASE t.after[up] = p
    <3>1. v = [t EXCEPT !.after[up] = top]
      BY <1>3, <2>2 DEF Hung, up
    <3> HIDE DEF v
    <3>2. /\ v \in TreeOf(N) /\ v.root = t.root /\ v.up = t.up /\ v.height = t.height
          /\ v.imbalance = t.imbalance /\ v.before = t.before
          /\ v.after = [t.after EXCEPT ![up] = top]
      BY <1>1, <2>1, <3>1 DEF TreeOf
    <3>3. \A x \in N : t.before[x] # p
      <4> SUFFICES ASSUME NEW x \in N, t.before[x] = p PROVE FALSE
        OBVIOUS
      <4>1. up = x
        BY <1>1 DEF Sides
      <4>2. p \in Under(D, t.before[up]) /\ p \in Under(D, t.after[up])
        <5>1. p \in D[p]
          BY <1>1 DEF Shaped
        <5> QED BY <1>1, <2>2, <4>1, <5>1 DEF Under
      <4>3. p < up /\ up < p
        BY <2>1, <4>2 DEF Shaped, Sides, On
      <4> QED BY <1>1, <2>1, <4>3
    <3>4. \A x \in N : v.after[x] = IF t.after[x] = p THEN top ELSE t.after[x]
      BY <1>1, <2>1, <2>2, <3>2 DEF Sides
    <3> QED BY <2>1, <3>2, <3>3, <3>4 DEF Sides, v
  <2>3. CASE t.after[up] # p
    <3>0. t.before[up] = p
      BY <1>1, <1>3, <2>3 DEF Sides
    <3>1. v = [t EXCEPT !.before[up] = top]
      BY <1>3, <2>3 DEF Hung, up
    <3> HIDE DEF v
    <3>2. /\ v \in TreeOf(N) /\ v.root = t.root /\ v.up = t.up /\ v.height = t.height
          /\ v.imbalance = t.imbalance /\ v.after = t.after
          /\ v.before = [t.before EXCEPT ![up] = top]
      BY <1>1, <2>1, <3>1 DEF TreeOf
    <3>3. \A x \in N : t.after[x] # p
      BY <1>1, <2>1, <2>3 DEF Sides
    <3>4. \A x \in N : v.before[x] = IF t.before[x] = p THEN top ELSE t.before[x]
      BY <1>1, <2>1, <3>0, <3>2 DEF Sides
    <3> QED BY <2>1, <3>2, <3>3, <3>4 DEF Sides, v
  <2> QED BY <2>2, <2>3
<1> QED BY <1>2, <1>3

\* Hung and Rotated together turn the tree at p.
LEMMA RotatedTurns ==
  ASSUME NEW t, NEW N, NEW D, Shaped(t, N, D), NEW p \in N, NEW side \in Sides,
         t[side][p] # NULL
  PROVE  Turned(t, Rotated(Hung(t, p, t[side][p]), p, side), N, p, side)
<1> DEFINE o == Other(side)
           top == t[side][p]
           inner == t[o][top]
           outer == t[side][top]
           out == t[o][p]
           v == Hung(t, p, top)
           u == Rotated(v, p, side)
<1>1. /\ top \in N /\ top # p /\ top # NULL /\ p # NULL /\ t.up[top] = p /\ o \in Sides
      /\ N \subseteq Int
      /\ inner # p /\ inner # top /\ outer # p /\ outer # top /\ out # p /\ out # top
      /\ o # side
  <2>1. TurnSite(t, N, D, p, side)
    BY TurnNodes
  <2>2. top # NULL /\ p # NULL
    BY <2>1 DEF TurnSite
  <2> QED BY <2>1, <2>2, OtherSide DEF TurnSite
<1>2. NULL \notin N
  BY <1>1, NullAssumption
<1>3. /\ v \in TreeOf(N)
      /\ v.root = (IF t.root = p THEN top ELSE t.root)
      /\ v.up = t.up /\ v.height = t.height /\ v.imbalance = t.imbalance
      /\ \A s \in Sides : \A x \in N : v[s][x] = IF t[s][x] = p THEN top ELSE t[s][x]
  BY <1>1, HungFields
<1> HIDE DEF v
<1>4. /\ v[side][p] = top /\ v[o][top] = inner /\ v[side][top] = outer /\ v[o][p] = out
  <2>1. /\ v[side][p] = top
    BY <1>1, <1>3
  <2>2. v[o][top] = inner /\ v[side][top] = outer /\ v[o][p] = out
    BY <1>1, <1>3
  <2> QED BY <2>1, <2>2
<1> HIDE DEF o, top, inner, outer, out
<1>5. /\ u \in TreeOf(N) /\ Measured(u, p) /\ Measured(u, top) /\ u.root = v.root
      /\ \A x \in N : u[side][x] = IF x = p THEN inner ELSE v[side][x]
      /\ \A x \in N : u[o][x] = IF x = top THEN p ELSE v[o][x]
      /\ \A x \in N : u.up[x] = IF x = top THEN v.up[p] ELSE IF x = p THEN top
                                ELSE IF x = inner THEN p ELSE v.up[x]
      /\ \A x \in N \ {p, top} : /\ u.height[x] = v.height[x]
                                 /\ u.imbalance[x] = v.imbalance[x]
  <2>1. /\ v[side][p] \in N /\ v[side][p] # p
        /\ v[side][v[side][p]] \notin {p, v[side][p]}
        /\ v[Other(side)][v[side][p]] \notin {p, v[side][p]}
        /\ v[Other(side)][p] \notin {p, v[side][p]}
    BY <1>1, <1>4 DEF o
  <2>2. o = Other(side)
    BY DEF o
  <2> QED BY <1>2, <1>3, <1>4, <2>1, <2>2, RotatedFields
<1> HIDE DEF u
<1>6. /\ u.root = (IF t.root = p THEN top ELSE t.root)
      /\ \A x \in N : u[side][x] = IF x = p THEN inner
                                   ELSE IF t[side][x] = p THEN top ELSE t[side][x]
      /\ \A x \in N : u[o][x] = IF x = top THEN p
                                ELSE IF t[o][x] = p THEN top ELSE t[o][x]
      /\ \A x \in N : u.up[x] = IF x = top THEN t.up[p] ELSE IF x = p THEN top
                                ELSE IF x = inner THEN p ELSE t.up[x]
      /\ \A x \in N \ {p, top} : u.height[x] = t.height[x] /\ u.imbalance[x] = t.imbalance[x]
  BY <1>1, <1>3, <1>5
<1>7. Turned(t, u, N, p, side)
  BY <1>5, <1>6 DEF Turned, o, top, inner
<1> QED BY <1>7 DEF u, v, top

\* The grandchild that leans to the inside is lifted first.
LEMMA LiftedTurns ==
  ASSUME NEW t, NEW N, NEW D, Shaped(t, N, D), NEW p \in N, NEW side \in Sides,
         t[side][p] # NULL, t[Other(side)][t[side][p]] # NULL
  PROVE  LET child == t[side][p]
         IN  Turned(t, [Rotated(t, child, Other(side)) EXCEPT ![side][p] = t[Other(side)][child]],
                    N, child, Other(side))
<1> DEFINE o == Other(side)
           c == t[side][p]
           g == t[o][c]
           inner == t[side][g]
           outer == t[o][g]
           out == t[side][c]
           w == Rotated(t, c, o)
           u == [w EXCEPT ![side][p] = g]
<1>0. TurnSite(t, N, D, p, side)
  BY TurnNodes
<1>1. /\ c \in N /\ c # p /\ c # NULL /\ t.up[c] = p /\ o \in Sides /\ N \subseteq Int
      /\ o # side /\ Other(o) = side /\ p # NULL
  <2>1. o # side /\ Other(o) = side /\ o \in Sides
    BY OtherSide
  <2> QED BY <1>0, <2>1 DEF TurnSite
<1>2. /\ g \in N /\ g # c /\ g # NULL /\ t.up[g] = c
      /\ inner # c /\ inner # g /\ outer # c /\ outer # g /\ out # c /\ out # g /\ g # p
  <2>1. /\ g \in N /\ g # c /\ g # NULL /\ t.up[g] = c
        /\ inner # c /\ inner # g /\ outer # c /\ outer # g /\ out # c /\ out # g
    <3>1. TurnSite(t, N, D, c, o)
      BY <1>1, TurnNodes
    <3>2. c # NULL /\ g # NULL
      BY <1>1
    <3> QED BY <1>1, <3>1, <3>2 DEF TurnSite
  <2>2. g # p
    BY <1>0 DEF TurnSite
  <2> QED BY <2>1, <2>2
<1>3. NULL \notin N /\ t \in TreeOf(N)
  <2>1. t \in TreeOf(N)
    BY DEF Shaped
  <2> QED BY <2>1, ShapedNodes
<1>4. t.root # c
  BY <1>1 DEF Shaped
<1>5. \A s \in Sides, x \in N : t[s][x] = c <=> (s = side /\ x = p)
  <2>1. \A s \in Sides, x \in N : t[s][x] # NULL => t.up[t[s][x]] = x
    BY DEF Shaped
  <2>2. t[o][p] # c
    BY <1>0, <1>1 DEF TurnSite
  <2>3. t[side][p] = c
    OBVIOUS
  <2>4. \A s \in Sides : s = side \/ s = o
    BY OtherSide
  <2> HIDE DEF c, o
  <2> QED BY <1>1, <2>1, <2>2, <2>3, <2>4
<1>6. /\ w \in TreeOf(N) /\ Measured(w, c) /\ Measured(w, g) /\ w.root = t.root
      /\ \A x \in N : w[o][x] = IF x = c THEN inner ELSE t[o][x]
      /\ \A x \in N : w[side][x] = IF x = g THEN c ELSE t[side][x]
      /\ \A x \in N : w.up[x] = IF x = g THEN t.up[c] ELSE IF x = c THEN g
                                ELSE IF x = inner THEN c ELSE t.up[x]
      /\ \A x \in N \ {c, g} : w.height[x] = t.height[x] /\ w.imbalance[x] = t.imbalance[x]
  <2>1. /\ t[o][c] \in N /\ t[o][c] # c
        /\ t[o][t[o][c]] \notin {c, t[o][c]}
        /\ t[Other(o)][t[o][c]] \notin {c, t[o][c]}
        /\ t[Other(o)][c] \notin {c, t[o][c]}
    BY <1>1, <1>2
  <2> HIDE DEF o, c
  <2> QED BY <1>1, <1>3, <2>1, RotatedFields
<1> HIDE DEF w, o, c, g, inner, outer, out
<1>7. /\ u \in TreeOf(N) /\ u.root = w.root /\ u.up = w.up /\ u.height = w.height
      /\ u.imbalance = w.imbalance /\ u[o] = w[o]
      /\ \A x \in N : u[side][x] = IF x = p THEN g ELSE w[side][x]
  <2>1. CASE side = "before"
    <3>1. o = "after"
      BY <2>1 DEF Other, o
    <3> QED BY <1>2, <1>6, <2>1, <3>1 DEF TreeOf
  <2>2. CASE side = "after"
    <3>1. o = "before"
      BY <2>2 DEF Other, o
    <3> QED BY <1>2, <1>6, <2>2, <3>1 DEF TreeOf
  <2> QED BY <2>1, <2>2 DEF Sides
<1> HIDE DEF u
<1>8. \A x \in N \ {p} : Measured(w, x) => Measured(u, x)
  <2>1. \A x \in N \ {p} : u[side][x] = w[side][x] /\ u[o][x] = w[o][x]
    BY <1>7
  <2>2. \A x \in N \ {p} : u.before[x] = w.before[x] /\ u.after[x] = w.after[x]
    <3>1. CASE side = "before"
      BY <2>1, <3>1 DEF o, Other
    <3>2. CASE side = "after"
      BY <2>1, <3>2 DEF o, Other
    <3> QED BY <3>1, <3>2 DEF Sides
  <2> QED BY <1>7, <2>2 DEF Measured, HeightOf
<1>9. Measured(u, c) /\ Measured(u, g)
  BY <1>1, <1>2, <1>6, <1>8
<1>10. /\ u.root = (IF t.root = c THEN g ELSE t.root)
       /\ \A x \in N : u[o][x] = IF x = c THEN inner ELSE IF t[o][x] = c THEN g ELSE t[o][x]
       /\ \A x \in N : u[side][x] = IF x = g THEN c ELSE IF t[side][x] = c THEN g ELSE t[side][x]
       /\ \A x \in N : u.up[x] = IF x = g THEN t.up[c] ELSE IF x = c THEN g
                                 ELSE IF x = inner THEN c ELSE t.up[x]
       /\ \A x \in N \ {c, g} : u.height[x] = t.height[x] /\ u.imbalance[x] = t.imbalance[x]
  BY <1>1, <1>2, <1>4, <1>5, <1>6, <1>7
<1>11. Turned(t, u, N, c, o)
  <2>1. Other(o) = side /\ t[o][c] = g /\ t[side][g] = inner
    BY <1>1 DEF g, inner
  <2> QED BY <1>7, <1>9, <1>10, <2>1 DEF Turned
<1> QED BY <1>11 DEF u, w, c, o, g

---------------------------------------------------------------------------
(* Balance *)

Balanced(t, p) == Measured(t, p) /\ t.imbalance[p] \in -1..1

\* The height p had, or has, with a child of height h on one side.
Higher(a, b) == IF a >= b THEN a ELSE b
Short(t, p, side, h) ==
    LET other == HeightOf(t, t[Other(side)][p])
    IN  t.height[p] = 1 + Higher(h, other) /\ h - other \in -1..1

\* All is balanced, except that the node p above c does not know yet that c may
\* be one higher than it was.
Climbed(t, N, D, p, c, was) ==
    /\ Shaped(t, N, D) /\ c \in N /\ t.up[c] = p
    /\ was \in Nat /\ t.height[c] \in {was, was + 1}
    /\ \A x \in N \ {p} : Balanced(t, x)
    /\ p # NULL => \E side \in Sides : t[side][p] = c /\ Short(t, p, side, was)

LEMMA MeasuredSide ==
  ASSUME NEW t, NEW N, t \in TreeOf(N), NEW p \in N, NEW side \in Sides
  PROVE  LET h == HeightOf(t, t[side][p])
             k == HeightOf(t, t[Other(side)][p])
         IN  /\ h \in Nat /\ k \in Nat
             /\ Measured(t, p) <=>
                   /\ t.height[p] = 1 + Higher(h, k)
                   /\ t.imbalance[p] = IF side = "before" THEN h - k ELSE k - h
<1>1. t.before[p] \in N \cup {NULL} /\ t.after[p] \in N \cup {NULL}
  BY DEF TreeOf
<1>2. HeightOf(t, t.before[p]) \in Nat /\ HeightOf(t, t.after[p]) \in Nat
  BY <1>1, HeightNat
<1>3. CASE side = "before"
  BY <1>2, <1>3 DEF Measured, Higher, Other
<1>4. CASE side = "after"
  BY <1>2, <1>4 DEF Measured, Higher, Other
<1> QED BY <1>3, <1>4 DEF Sides

LEMMA BalancedSide ==
  ASSUME NEW t, NEW N, t \in TreeOf(N), NEW p \in N, NEW side \in Sides, Balanced(t, p)
  PROVE  LET h == HeightOf(t, t[side][p])
             k == HeightOf(t, t[Other(side)][p])
         IN  /\ h \in Nat /\ k \in Nat /\ h - k \in -1..1
             /\ t.height[p] = 1 + Higher(h, k)
             /\ t.imbalance[p] = IF side = "before" THEN h - k ELSE k - h
<1> DEFINE h == HeightOf(t, t[side][p])
           k == HeightOf(t, t[Other(side)][p])
<1>1. /\ h \in Nat /\ k \in Nat
      /\ t.height[p] = 1 + Higher(h, k)
      /\ t.imbalance[p] = IF side = "before" THEN h - k ELSE k - h
  BY MeasuredSide DEF Balanced
<1> HIDE DEF h, k
<1>2. h - k \in -1..1
  BY <1>1 DEF Balanced
<1> QED BY <1>1, <1>2 DEF h, k

\* Nodes whose children and the heights of these have not changed.
LEMMA StillMeasured ==
  ASSUME NEW t, NEW u, NEW x,
         u.before[x] = t.before[x], u.after[x] = t.after[x],
         HeightOf(u, t.before[x]) = HeightOf(t, t.before[x]),
         HeightOf(u, t.after[x]) = HeightOf(t, t.after[x]),
         u.height[x] = t.height[x], u.imbalance[x] = t.imbalance[x], Balanced(t, x)
  PROVE  Balanced(u, x)
BY DEF Balanced, Measured

\* A turn changes heights and balances at the two nodes and above them only.
LEMMA TurnBalance ==
  ASSUME NEW t, NEW N, NEW D, Shaped(t, N, D), NEW p \in N, NEW side \in Sides,
         t[side][p] # NULL, NEW u, Turned(t, u, N, p, side)
  PROVE  /\ \A x \in N \ {p, t[side][p]} : t.up[p] # x /\ Balanced(t, x) => Balanced(u, x)
         /\ \A c \in (N \cup {NULL}) \ {p, t[side][p]} : HeightOf(u, c) = HeightOf(t, c)
<1> DEFINE top == t[side][p]
           o == Other(side)
<1>1. /\ o \in Sides /\ top \in N /\ top # p /\ t.up[top] = p /\ p # NULL
      /\ \A s \in Sides : s = side \/ s = o
  <2>1. TurnSite(t, N, D, p, side)
    BY TurnNodes
  <2> QED BY <2>1, OtherSide DEF TurnSite
<1>2. /\ \A x \in N : t[side][x] # NULL => t.up[t[side][x]] = x
      /\ \A x \in N : t[o][x] # NULL => t.up[t[o][x]] = x
  BY <1>1 DEF Shaped
<1>3. \A x \in N \ {p, top} : u.height[x] = t.height[x] /\ u.imbalance[x] = t.imbalance[x]
  BY DEF Turned
<1>4. \A c \in (N \cup {NULL}) \ {p, top} : HeightOf(u, c) = HeightOf(t, c)
  BY <1>3 DEF HeightOf
<1>5. ASSUME NEW x \in N \ {p, top}, t.up[p] # x, Balanced(t, x) PROVE Balanced(u, x)
  <2>1. u[side][x] = t[side][x] /\ u[o][x] = t[o][x]
    BY <1>1, <1>2, <1>5 DEF Turned
  <2>2. t[side][x] \notin {p, top} /\ t[o][x] \notin {p, top}
    BY <1>1, <1>2, <1>5
  <2>3. t[side][x] \in N \cup {NULL} /\ t[o][x] \in N \cup {NULL}
    BY <1>1, <1>5, ShapedNode
  <2>4. /\ u.before[x] = t.before[x] /\ u.after[x] = t.after[x]
        /\ t.before[x] \in (N \cup {NULL}) \ {p, top} /\ t.after[x] \in (N \cup {NULL}) \ {p, top}
    <3> HIDE DEF top
    <3>1. CASE side = "before"
      BY <2>1, <2>2, <2>3, <3>1 DEF Other
    <3>2. CASE side = "after"
      BY <2>1, <2>2, <2>3, <3>2 DEF Other
    <3> QED BY <3>1, <3>2 DEF Sides
  <2> HIDE DEF top, o
  <2> QED BY <1>3, <1>4, <1>5, <2>4, StillMeasured
<1> QED BY <1>4, <1>5

\* The shape is in the links alone, not in the heights.
LEMMA MovedShape ==
  ASSUME NEW t, NEW N, NEW D, Shaped(t, N, D), NEW u \in TreeOf(N),
         u.root = t.root, u.before = t.before, u.after = t.after, u.up = t.up
  PROVE  Shaped(u, N, D)
<1>1. \A s \in Sides : u[s] = t[s]
  BY DEF Sides
<1> QED BY <1>1 DEF Shaped

LEMMA HigherNat ==
  ASSUME NEW a \in Nat, NEW b \in Nat
  PROVE  Higher(a, b) \in Nat /\ Higher(a, b) \in {a, b} /\ a <= Higher(a, b) /\ b <= Higher(a, b)
BY DEF Higher

\* The height of p has been brought up to date; now it is the node above p that
\* does not know.
LEMMA RecomputedStep ==
  ASSUME NEW t, NEW N, NEW D, NEW p \in N, NEW c, NEW was, Climbed(t, N, D, p, c, was)
  PROVE  LET n == Recomputed(t, p)
             q == t.up[p]
         IN  /\ Shaped(n, N, D) /\ n.up = t.up /\ n.before = t.before /\ n.after = t.after
             /\ Measured(n, p)
             /\ \A x \in N \ {p} : n.height[x] = t.height[x]
             /\ \A x \in N \ {p, q} : Balanced(n, x)
             /\ q # p
             /\ q # NULL => \E s \in Sides : n[s][q] = p /\ Short(n, q, s, t.height[p])
             /\ \E s \in Sides :
                   LET other == HeightOf(n, n[Other(s)][p])
                   IN  /\ n[s][p] = c /\ other \in Nat /\ was \in Nat
                       /\ HeightOf(n, c) \in {was, was + 1}
                       /\ t.height[p] = 1 + Higher(was, other) /\ was - other \in -1..1
<1> DEFINE n == Recomputed(t, p)
           q == t.up[p]
<1>1. /\ Shaped(t, N, D) /\ c \in N /\ t.up[c] = p /\ was \in Nat
      /\ t.height[c] \in {was, was + 1} /\ \A x \in N \ {p} : Balanced(t, x)
      /\ p # NULL => \E side \in Sides : t[side][p] = c /\ Short(t, p, side, was)
  BY DEF Climbed
<1>2. N \subseteq Int /\ NULL \notin N /\ t \in TreeOf(N) /\ p # NULL
  <2>1. t \in TreeOf(N)
    BY <1>1 DEF Shaped
  <2>2. N \subseteq Int /\ NULL \notin N
    BY <1>1, ShapedNodes
  <2> QED BY <2>1, <2>2
<1>3. t.before[p] # p /\ t.after[p] # p
  <2>1. \A s \in Sides : t[s][p] # p
    <3> SUFFICES ASSUME NEW s \in Sides, t[s][p] = p PROVE FALSE
      OBVIOUS
    <3>1. t[s][p] # NULL
      BY <1>2
    <3>2. TurnSite(t, N, D, p, s)
      BY <1>1, <3>1, TurnNodes
    <3> QED BY <3>2 DEF TurnSite
  <2> QED BY <2>1 DEF Sides
<1>4. /\ n \in TreeOf(N) /\ Measured(n, p)
      /\ n.root = t.root /\ n.before = t.before /\ n.after = t.after /\ n.up = t.up
      /\ \A x \in N \ {p} : n.height[x] = t.height[x] /\ n.imbalance[x] = t.imbalance[x]
  BY <1>2, <1>3, RecomputedFields
<1> HIDE DEF n
<1>5. Shaped(n, N, D)
  BY <1>1, <1>4, MovedShape
<1>6. \A s \in Sides : n[s] = t[s]
  BY <1>4 DEF Sides
<1>7. \A x \in (N \cup {NULL}) \ {p} : HeightOf(n, x) = HeightOf(t, x)
  BY <1>4 DEF HeightOf
<1>8. ASSUME NEW x \in N \ {p, q} PROVE Balanced(n, x)
  <2>1. \A s \in Sides : t[s][x] \in (N \cup {NULL}) \ {p}
    <3> SUFFICES ASSUME NEW s \in Sides PROVE t[s][x] \in N \cup {NULL} /\ t[s][x] # p
      OBVIOUS
    <3>1. t[s][x] \in N \cup {NULL} /\ (t[s][x] # NULL => t.up[t[s][x]] = x)
      BY <1>1, ShapedNode
    <3> QED BY <1>2, <1>8, <3>1
  <2>2. t.before[x] \in (N \cup {NULL}) \ {p} /\ t.after[x] \in (N \cup {NULL}) \ {p}
    BY <2>1 DEF Sides
  <2> QED BY <1>1, <1>4, <1>7, <1>8, <2>2, StillMeasured
<1>9. q \in N \cup {NULL} /\ q # p
  <2>1. q \in N \cup {NULL}
    BY <1>2 DEF TreeOf
  <2>2. ASSUME q = p PROVE FALSE
    <3>1. \E s \in Sides : t[s][q] = p
      BY <1>1, <1>2, <2>2 DEF Shaped
    <3> QED BY <1>3, <2>2, <3>1 DEF Sides
  <2> QED BY <2>1, <2>2
<1>10. ASSUME q # NULL PROVE \E s \in Sides : n[s][q] = p /\ Short(n, q, s, t.height[p])
  <2>1. PICK s \in Sides : t[s][q] = p
    BY <1>1, <1>10 DEF Shaped
  <2>2. q \in N /\ t[s][q] # NULL
    BY <1>2, <1>9, <1>10, <2>1
  <2>3. t[Other(s)][q] \in (N \cup {NULL}) \ {p}
    <3> DEFINE r == t[Other(s)][q]
    <3>1. TurnSite(t, N, D, q, s)
      BY <1>1, <2>2, TurnNodes
    <3>2. r \in N \cup {NULL} /\ (r # NULL => r # p)
      BY <2>1, <3>1 DEF TurnSite
    <3> QED BY <1>2, <3>2
  <2>4. Balanced(t, q)
    BY <1>1, <1>9, <2>2
  <2>5. LET h == HeightOf(t, p)
            k == HeightOf(t, t[Other(s)][q])
        IN  h \in Nat /\ k \in Nat /\ h - k \in -1..1 /\ t.height[q] = 1 + Higher(h, k)
    BY <1>2, <2>1, <2>2, <2>4, BalancedSide
  <2>6. HeightOf(t, p) = t.height[p]
    BY <1>2 DEF HeightOf
  <2>7. /\ n[s][q] = p /\ n.height[q] = t.height[q]
        /\ HeightOf(n, n[Other(s)][q]) = HeightOf(t, t[Other(s)][q])
    BY <1>4, <1>6, <1>7, <1>9, <2>1, <2>2, <2>3, OtherSide
  <2>8. Short(n, q, s, t.height[p])
    BY <2>5, <2>6, <2>7 DEF Short
  <2> QED BY <2>7, <2>8
<1>11. \E s \in Sides :
          LET other == HeightOf(n, n[Other(s)][p])
          IN  /\ n[s][p] = c /\ other \in Nat /\ was \in Nat
              /\ HeightOf(n, c) \in {was, was + 1}
              /\ t.height[p] = 1 + Higher(was, other) /\ was - other \in -1..1
  <2>1. PICK s \in Sides : t[s][p] = c /\ Short(t, p, s, was)
    BY <1>1, <1>2
  <2>2. c # NULL /\ c # p
    BY <1>1, <1>2, <1>3, <2>1 DEF Sides
  <2>3. HeightOf(n, c) \in {was, was + 1}
    BY <1>1, <1>4, <2>2 DEF HeightOf
  <2>4. t[Other(s)][p] \in (N \cup {NULL}) \ {p}
    <3> DEFINE r == t[Other(s)][p]
    <3>1. TurnSite(t, N, D, p, s)
      BY <1>1, <2>1, <2>2, TurnNodes
    <3>2. r \in N \cup {NULL} /\ (r # NULL => r # p)
      BY <3>1 DEF TurnSite
    <3> QED BY <1>2, <3>2
  <2>5. /\ n[Other(s)][p] = t[Other(s)][p]
        /\ HeightOf(n, n[Other(s)][p]) = HeightOf(t, t[Other(s)][p])
    BY <1>6, <1>7, <2>4, OtherSide
  <2>6. HeightOf(n, n[Other(s)][p]) \in Nat
    BY <1>4, <2>4, <2>5, HeightNat
  <2> QED BY <1>1, <1>6, <2>1, <2>3, <2>5, <2>6 DEF Short
<1> QED BY <1>4, <1>5, <1>8, <1>9, <1>10, <1>11 DEF n, q

\* A turn that leaves p and its child balanced leaves only the node above p in
\* the dark.
LEMMA TurnClimbs ==
  ASSUME NEW t, NEW N, NEW D, Shaped(t, N, D), NEW p \in N, NEW side \in Sides,
         t[side][p] # NULL, NEW u, Turned(t, u, N, p, side), NEW w \in Nat,
         \A x \in N \ {p, t[side][p], t.up[p]} : Balanced(t, x),
         t.up[p] # NULL =>
             \E s \in Sides : t[s][t.up[p]] = p /\ Short(t, t.up[p], s, w),
         LET inner == HeightOf(t, t[Other(side)][t[side][p]])
             outer == HeightOf(t, t[side][t[side][p]])
             out == HeightOf(t, t[Other(side)][p])
             low == 1 + Higher(inner, out)
         IN  /\ inner \in Nat /\ outer \in Nat /\ out \in Nat
             /\ inner - out \in -1..1 /\ outer - low \in -1..1
             /\ 1 + Higher(outer, low) \in {w, w + 1}
  PROVE  Climbed(u, N, TurnedUnder(t, D, p, side), t.up[p], t[side][p], w)
<1> DEFINE o == Other(side)
           top == t[side][p]
           q == t.up[p]
           hi == HeightOf(t, t[o][top])
           ho == HeightOf(t, t[side][top])
           hx == HeightOf(t, t[o][p])
           low == 1 + Higher(hi, hx)
<1>1. /\ o \in Sides /\ top \in N /\ top # p /\ top # NULL /\ p # NULL /\ t.up[top] = p
      /\ N \subseteq Int /\ NULL \notin N /\ o # side /\ Other(o) = side
      /\ t[o][top] \in (N \cup {NULL}) \ {p, top}
      /\ t[side][top] \in (N \cup {NULL}) \ {p, top}
      /\ t[o][p] \in (N \cup {NULL}) \ {p, top}
      /\ \A s \in Sides : s = side \/ s = o
  <2>1. N \subseteq Int /\ NULL \notin N
    BY ShapedNodes
  <2>2. /\ o \in Sides /\ top \in N /\ top # p /\ top # NULL /\ p # NULL /\ t.up[top] = p
        /\ {t[o][top], t[side][top], t[o][p]} \subseteq N \cup {NULL}
        /\ t[o][top] # NULL => t[o][top] # p /\ t[o][top] # top
        /\ t[side][top] # NULL => t[side][top] # p /\ t[side][top] # top
        /\ t[o][p] # NULL => t[o][p] # p /\ t[o][p] # top
    <3>1. TurnSite(t, N, D, p, side)
      BY TurnNodes
    <3> QED BY <3>1 DEF TurnSite
  <2>3. o # side /\ Other(o) = side /\ \A s \in Sides : s = side \/ s = o
    BY OtherSide
  <2> HIDE DEF o, top
  <2>4. t[o][top] \in (N \cup {NULL}) \ {p, top}
    BY <2>1, <2>2
  <2>5. t[side][top] \in (N \cup {NULL}) \ {p, top}
    BY <2>1, <2>2
  <2>6. t[o][p] \in (N \cup {NULL}) \ {p, top}
    BY <2>1, <2>2
  <2> QED BY <2>1, <2>2, <2>3, <2>4, <2>5, <2>6
<1>2. /\ \A x \in N \ {p, top, q} : Balanced(t, x)
      /\ q # NULL => \E s \in Sides : t[s][q] = p /\ Short(t, q, s, w)
      /\ hi \in Nat /\ ho \in Nat /\ hx \in Nat
      /\ hi - hx \in -1..1 /\ ho - low \in -1..1 /\ 1 + Higher(ho, low) \in {w, w + 1}
  OBVIOUS
<1> HIDE DEF low
<1>3. Shaped(u, N, TurnedUnder(t, D, p, side))
  BY TurnShape
<1>4. /\ u \in TreeOf(N)
      /\ \A x \in N : u[side][x] = IF x = p THEN t[o][top]
                                   ELSE IF t[side][x] = p THEN top ELSE t[side][x]
      /\ \A x \in N : u[o][x] = IF x = top THEN p
                                ELSE IF t[o][x] = p THEN top ELSE t[o][x]
      /\ u.up[top] = q /\ u.up[p] = top
      /\ \A x \in N \ {p, top} : u.height[x] = t.height[x] /\ u.imbalance[x] = t.imbalance[x]
      /\ Measured(u, p) /\ Measured(u, top)
  BY <1>1 DEF Turned
<1>5. /\ \A x \in N \ {p, top} : q # x /\ Balanced(t, x) => Balanced(u, x)
      /\ \A c \in (N \cup {NULL}) \ {p, top} : HeightOf(u, c) = HeightOf(t, c)
  BY TurnBalance
<1> HIDE DEF o, top, q
<1>6. /\ u[side][p] = t[o][top] /\ u[o][p] = t[o][p]
      /\ u[side][top] = t[side][top] /\ u[o][top] = p
  BY <1>1, <1>4
<1>7. /\ HeightOf(u, u[side][p]) = hi /\ HeightOf(u, u[o][p]) = hx
      /\ HeightOf(u, u[side][top]) = ho
  BY <1>1, <1>5, <1>6
<1>8. u.height[p] = low /\ Balanced(u, p)
  <2>1. /\ u.height[p] = 1 + Higher(hi, hx)
        /\ u.imbalance[p] = IF side = "before" THEN hi - hx ELSE hx - hi
    BY <1>4, <1>7, MeasuredSide DEF o
  <2>2. u.imbalance[p] \in -1..1
    <3> HIDE DEF hi, hx
    <3> QED BY <1>2, <2>1
  <2> QED BY <1>4, <2>1, <2>2 DEF Balanced, low
<1>9. u.height[top] = 1 + Higher(ho, low) /\ Balanced(u, top)
  <2>1. HeightOf(u, u[o][top]) = low
    BY <1>1, <1>6, <1>8 DEF HeightOf
  <2>2. /\ u.height[top] = 1 + Higher(ho, low)
        /\ u.imbalance[top] = IF side = "before" THEN ho - low ELSE low - ho
    BY <1>1, <1>4, <1>7, <2>1, MeasuredSide DEF o
  <2>3. low \in Nat
    <3>1. hi \in Nat /\ hx \in Nat
      BY <1>2
    <3> HIDE DEF hi, hx
    <3>2. Higher(hi, hx) \in Nat
      BY <3>1, HigherNat
    <3> QED BY <3>2 DEF low
  <2>4. u.imbalance[top] \in -1..1
    <3> HIDE DEF ho
    <3> QED BY <1>2, <2>2, <2>3
  <2> QED BY <1>4, <2>2, <2>4 DEF Balanced
<1>10. \A x \in N \ {q} : Balanced(u, x)
  BY <1>2, <1>5, <1>8, <1>9
<1>11. ASSUME q # NULL PROVE \E s \in Sides : u[s][q] = top /\ Short(u, q, s, w)
  <2>1. PICK s \in Sides : t[s][q] = p /\ Short(t, q, s, w)
    BY <1>2, <1>11
  <2>2. q \in N
    BY <1>11, ShapedNode DEF q
  <2>3. q # p /\ q # top
    <3>1. t[side][p] # p /\ t[o][p] # p /\ t[side][top] # p /\ t[o][top] # p
      BY <1>1 DEF top
    <3> QED BY <1>1, <2>1, <3>1
  <2>4. u[s][q] = top
    BY <1>1, <1>4, <2>1, <2>2, <2>3
  <2>5. t[Other(s)][q] \in (N \cup {NULL}) \ {p, top}
    <3> DEFINE r == t[Other(s)][q]
    <3>1. r \in N \cup {NULL} /\ (r # NULL => t.up[r] = q /\ r # p)
      <4>1. t[s][q] # NULL
        BY <1>1, <2>1
      <4>2. TurnSite(t, N, D, q, s)
        BY <2>2, <4>1, TurnNodes
      <4> QED BY <2>1, <4>2 DEF TurnSite
    <3>2. r # top
      BY <1>1, <2>3, <3>1
    <3> HIDE DEF r
    <3>3. r # p
      BY <1>1, <3>1
    <3> QED BY <3>1, <3>2, <3>3 DEF r
  <2>6. u[Other(s)][q] = t[Other(s)][q]
    <3>1. Other(s) \in Sides
      BY OtherSide
    <3>2. t[Other(s)][q] # p
      BY <2>5
    <3> QED BY <1>1, <1>4, <2>2, <2>3, <3>1, <3>2
  <2>7. HeightOf(u, u[Other(s)][q]) = HeightOf(t, t[Other(s)][q]) /\ u.height[q] = t.height[q]
    BY <1>4, <1>5, <2>2, <2>3, <2>5, <2>6
  <2> QED BY <2>1, <2>4, <2>7 DEF Short
<1>12. u.height[top] \in {w, w + 1}
  BY <1>2, <1>9
<1>13. Climbed(u, N, TurnedUnder(t, D, p, side), q, top, w)
  BY <1>1, <1>3, <1>4, <1>10, <1>11, <1>12 DEF Climbed
<1> QED BY <1>13 DEF q, top

Raised(t, N, D, p) ==
  \E E, d : /\ Climbed(Rebalanced(t, p), N, E, t.up[p], d, t.height[p])
            /\ \A x \in N \ D[p] : E[x] = D[x]
            /\ \A x \in N \ D[p] : Rebalanced(t, p).up[x] = t.up[x]

\* One turn of the loop, for the three shapes the nodes below p can have.
LEMMA RebalanceStep ==
  ASSUME NEW t, NEW N, NEW D, NEW p \in N, NEW c, NEW was, Climbed(t, N, D, p, c, was)
  PROVE  Raised(t, N, D, p)
<1> SUFFICES \E E, d : /\ Climbed(Rebalanced(t, p), N, E, t.up[p], d, t.height[p])
                       /\ \A x \in N \ D[p] : E[x] = D[x]
                       /\ \A x \in N \ D[p] : Rebalanced(t, p).up[x] = t.up[x]
  BY DEF Raised
<1> DEFINE n == Recomputed(t, p)
           q == t.up[p]
           w == t.height[p]
<1>1. /\ Shaped(n, N, D) /\ n.up = t.up /\ n.before = t.before /\ n.after = t.after
      /\ Measured(n, p)
      /\ \A x \in N \ {p} : n.height[x] = t.height[x]
      /\ \A x \in N \ {p, q} : Balanced(n, x)
      /\ q # p
      /\ q # NULL => \E s \in Sides : n[s][q] = p /\ Short(n, q, s, w)
  BY RecomputedStep
<1>2. PICK side \in Sides :
          LET other == HeightOf(n, n[Other(side)][p])
          IN  /\ n[side][p] = c /\ other \in Nat /\ was \in Nat
              /\ HeightOf(n, c) \in {was, was + 1}
              /\ w = 1 + Higher(was, other) /\ was - other \in -1..1
  BY RecomputedStep
<1> DEFINE o == Other(side)
           out == n[o][p]
           ho == HeightOf(n, out)
           hc == HeightOf(n, c)
<1>3. /\ n[side][p] = c /\ ho \in Nat /\ was \in Nat /\ hc \in {was, was + 1}
      /\ w = 1 + Higher(was, ho) /\ was - ho \in -1..1
  BY <1>2
<1>4. /\ N \subseteq Int /\ NULL \notin N /\ n \in TreeOf(N) /\ D \in [N -> SUBSET N]
      /\ c \in N /\ c # NULL
      /\ o \in Sides /\ o # side /\ Other(o) = side /\ n[side][p] # NULL /\ p # NULL
  <2>1. N \subseteq Int /\ NULL \notin N /\ n \in TreeOf(N) /\ D \in [N -> SUBSET N]
    <3>1. n \in TreeOf(N) /\ D \in [N -> SUBSET N]
      BY <1>1 DEF Shaped
    <3> QED BY <1>1, <3>1, ShapedNodes
  <2>2. c \in N
    BY DEF Climbed
  <2> HIDE DEF n
  <2> QED BY <1>3, <2>1, <2>2, OtherSide
<1>5. /\ n.imbalance[p] = IF side = "before" THEN hc - ho ELSE ho - hc
      /\ n.height[p] = 1 + Higher(hc, ho)
  BY <1>1, <1>3, <1>4, MeasuredSide
<1>6. Rebalanced(t, p) =
          CASE n.imbalance[p] >= 2  -> Rotated(Hung(Lifted(n, p, "before"), p, Lifted(n, p, "before")["before"][p]), p, "before")
            [] n.imbalance[p] <= -2 -> Rotated(Hung(Lifted(n, p, "after"), p, Lifted(n, p, "after")["after"][p]), p, "after")
            [] OTHER                -> n
  BY DEF Rebalanced
<1>7. n.imbalance[p] \in Int
  BY <1>3, <1>5
<1> DEFINE r == Rebalanced(t, p)
<1> HIDE DEF n, o, out, ho, hc, q, w, r
<1>8. hc - ho \in -1..2
  BY <1>3
<1>9. CASE hc - ho # 2
  <2>1. n.imbalance[p] \in -1..1
    BY <1>3, <1>5, <1>8, <1>9
  <2>2. r = n
    BY <1>6, <2>1 DEF r
  <2>3. Balanced(n, p)
    BY <1>1, <2>1 DEF Balanced
  <2>4. n.height[p] \in {w, w + 1} /\ w \in Nat
    <3>1. CASE hc = was
      BY <1>3, <1>5, <3>1 DEF Higher
    <3>2. CASE hc = was + 1
      BY <1>3, <1>5, <3>2 DEF Higher
    <3> QED BY <1>3, <3>1, <3>2
  <2>5. Climbed(n, N, D, q, p, w)
    BY <1>1, <2>3, <2>4 DEF Climbed, q
  <2> QED BY <1>1, <2>2, <2>5 DEF r, q, w
<1>10. CASE hc - ho = 2
  <2>0. /\ was = ho + 1 /\ hc = ho + 2 /\ w = ho + 2 /\ w \in Nat
    <3>1. was = ho + 1 /\ hc = ho + 2
      BY <1>3, <1>10
    <3> QED BY <1>3, <3>1 DEF Higher
  <2> DEFINE l == Lifted(n, p, side)
             hi == HeightOf(n, n[o][c])
             hs == HeightOf(n, n[side][c])
  <2>1. r = Rotated(Hung(l, p, l[side][p]), p, side)
    <3>1. CASE side = "before"
      BY <1>3, <1>5, <1>6, <1>7, <1>10, <3>1 DEF r
    <3>2. CASE side = "after"
      <4>1. n.imbalance[p] = -2
        BY <1>3, <1>5, <1>10, <3>2
      <4> QED BY <1>6, <3>2, <4>1 DEF r
    <3> QED BY <3>1, <3>2 DEF Sides
  <2>2. /\ c # p /\ n.up[c] = p /\ c # q
        /\ n[o][c] \in (N \cup {NULL}) \ {p, c} /\ n[side][c] \in (N \cup {NULL}) \ {p, c}
        /\ out \in (N \cup {NULL}) \ {p, c}
        /\ n[o][c] # NULL => n.up[n[o][c]] = c
        /\ n[side][c] # NULL => n.up[n[side][c]] = c
        /\ D[p] = {p} \cup D[c] \cup Under(D, out)
        /\ D[c] = {c} \cup Under(D, n[side][c]) \cup Under(D, n[o][c])
    <3>1. /\ c # p /\ n.up[c] = p
          /\ {n[o][c], n[side][c], out} \subseteq N \cup {NULL}
          /\ n[o][c] # NULL => n[o][c] # p /\ n[o][c] # c /\ n.up[n[o][c]] = c
          /\ n[side][c] # NULL => n[side][c] # p /\ n[side][c] # c /\ n.up[n[side][c]] = c
          /\ out # NULL => out # p /\ out # c
          /\ D[p] = {p} \cup D[c] \cup Under(D, out)
          /\ D[c] = {c} \cup Under(D, n[side][c]) \cup Under(D, n[o][c])
      <4>1. TurnSite(n, N, D, p, side)
        BY <1>1, <1>3, <1>4, TurnNodes
      <4> QED BY <1>3, <4>1 DEF TurnSite, o, out
    <3>2. c # q
      <4>1. ASSUME c = q PROVE \E s \in Sides : n[s][c] = p
        BY <1>1, <1>4, <4>1
      <4>2. n[side][c] # p /\ n[o][c] # p
        BY <1>4, <3>1
      <4> QED BY <4>1, <4>2, OtherSide DEF o
    <3>3. n[o][c] \in (N \cup {NULL}) \ {p, c}
      BY <1>4, <3>1
    <3>4. n[side][c] \in (N \cup {NULL}) \ {p, c}
      BY <1>4, <3>1
    <3>5. out \in (N \cup {NULL}) \ {p, c}
      BY <1>4, <3>1
    <3> QED BY <3>1, <3>2, <3>3, <3>4, <3>5
  <2>3. Balanced(n, c)
    BY <1>1, <1>4, <2>2
  <2>4. /\ hs \in Nat /\ hi \in Nat /\ hs - hi \in -1..1 /\ n.height[c] = 1 + Higher(hs, hi)
        /\ n.imbalance[c] = IF side = "before" THEN hs - hi ELSE hi - hs
    BY <1>4, <2>3, BalancedSide DEF o
  <2>5. hc = n.height[c]
    BY <1>4 DEF hc, HeightOf
  <2> HIDE DEF hi, hs, l
  <2>6. l = IF hs < hi THEN [Rotated(n, c, o) EXCEPT ![side][p] = n[o][c]] ELSE n
    <3>1. CASE side = "before"
      BY <1>3, <2>4, <3>1 DEF l, Lifted, o
    <3>2. CASE side = "after"
      BY <1>3, <2>4, <3>2 DEF l, Lifted, o
    <3> QED BY <3>1, <3>2 DEF Sides
  <2>7. CASE ~(hs < hi)
    <3>1. l = n /\ hs = ho + 1 /\ hi \in {ho, ho + 1}
      BY <1>3, <2>0, <2>4, <2>5, <2>6, <2>7 DEF Higher
    <3>2. Turned(n, r, N, p, side)
      BY <1>1, <1>4, <2>1, <3>1, RotatedTurns
    <3> DEFINE low == 1 + Higher(hi, ho)
    <3>3. /\ hi \in Nat /\ hs \in Nat /\ ho \in Nat
          /\ hi - ho \in -1..1 /\ hs - low \in -1..1
          /\ 1 + Higher(hs, low) \in {w, w + 1}
      BY <1>3, <2>0, <2>4, <3>1 DEF Higher
    <3> HIDE DEF low
    <3> DEFINE F == TurnedUnder(n, D, p, side)
    <3>4. Climbed(r, N, F, q, c, w)
      <4>1. \A x \in N \ {p, n[side][p], n.up[p]} : Balanced(n, x)
        BY <1>1 DEF q
      <4>2. n.up[p] # NULL => \E s \in Sides : n[s][n.up[p]] = p /\ Short(n, n.up[p], s, w)
        BY <1>1 DEF q
      <4>3. LET inner == HeightOf(n, n[Other(side)][n[side][p]])
                outer == HeightOf(n, n[side][n[side][p]])
                out_ == HeightOf(n, n[Other(side)][p])
                low_ == 1 + Higher(inner, out_)
            IN  /\ inner \in Nat /\ outer \in Nat /\ out_ \in Nat
                /\ inner - out_ \in -1..1 /\ outer - low_ \in -1..1
                /\ 1 + Higher(outer, low_) \in {w, w + 1}
        BY <1>3, <3>3 DEF hi, hs, ho, out, o, low
      <4>4. Climbed(r, N, F, n.up[p], n[side][p], w)
        BY <1>1, <1>4, <2>0, <3>2, <4>1, <4>2, <4>3, TurnClimbs
      <4> QED BY <1>1, <1>3, <4>4 DEF q
    <3>5. \A x \in N \ {p, c} : F[x] = D[x]
      BY <1>3, <1>4, <2>2 DEF TurnedUnder
    <3>6. \A x \in N \ D[p] : x # p /\ x # c /\ x # n[o][c]
      <4>1. n[o][c] # NULL => n[o][c] \in D[n[o][c]]
        BY <1>1, <1>4, <2>2, ShapedNode
      <4>2. c \in D[c]
        BY <1>1, <1>4, ShapedNode
      <4> QED BY <1>4, <2>2, <4>1, <4>2 DEF Under
    <3>7. \A x \in N \ D[p] : r.up[x] = n.up[x]
      BY <1>3, <3>2, <3>6 DEF Turned, o
    <3> QED BY <1>1, <3>4, <3>5, <3>6, <3>7 DEF r, q, w
  <2>8. CASE hs < hi
    <3> DEFINE g == n[o][c]
               x == n[side][g]
               y == n[o][g]
               hx == HeightOf(n, x)
               hy == HeightOf(n, y)
               F == TurnedUnder(n, D, c, o)
               G == TurnedUnder(l, F, p, side)
    <3>1. hi = ho + 1 /\ hs = ho
      BY <1>3, <2>0, <2>4, <2>5, <2>8 DEF Higher
    <3>2. g # NULL /\ g \in N /\ n.height[g] = hi /\ g # c /\ g # p /\ n.up[g] = c
      <4>1. g # NULL
        BY <1>3, <3>1 DEF hi, HeightOf
      <4> QED BY <2>2, <4>1 DEF hi, HeightOf
    <3>3. g # q
      <4>1. ASSUME g = q PROVE \E s \in Sides : n[s][g] = p
        BY <1>1, <3>2, <4>1
      <4>2. n.up[p] = g => n[side][g] # p /\ n[o][g] # p
        <5>1. \A s \in Sides : n[s][g] = p => p \in Under(D, n[s][g])
          BY <1>1, <1>4, <3>2, ShapedNode
        <5>2. \A s \in Sides : Under(D, n[s][g]) \subseteq D[g]
          BY <1>1, <3>2, ShapedNode
        <5>3. g \in Under(D, n[o][c]) /\ D[g] \subseteq D[c]
          <6>1. g \in D[g]
            BY <1>1, <3>2, ShapedNode
          <6> QED BY <2>2, <3>2, <6>1 DEF Under
        <5>4. p \notin D[c]
          <6>1. Under(D, n[side][p]) = D[c]
            BY <1>3, <1>4 DEF Under
          <6> QED BY <1>1, <6>1, ShapedNode
        <5> QED BY <1>4, <5>1, <5>2, <5>3, <5>4
      <4>3. n.up[p] = q
        BY <1>1 DEF q
      <4> QED BY <4>1, <4>2, <4>3, OtherSide DEF o
    <3>4. Turned(n, l, N, c, o)
      <4>1. n[Other(side)][n[side][p]] # NULL
        BY <1>3, <3>2 DEF o
      <4> QED BY <1>1, <1>3, <1>4, <2>6, <2>8, <4>1, LiftedTurns DEF o
    <3>5. Shaped(l, N, F)
      BY <1>1, <1>4, <3>2, <3>4, TurnShape
    <3>6. /\ x \in (N \cup {NULL}) \ {g, c} /\ y \in (N \cup {NULL}) \ {g, c}
      <4>1. /\ {x, y} \subseteq N \cup {NULL}
            /\ x # NULL => x # c /\ x # g
            /\ y # NULL => y # c /\ y # g
        <5>1. TurnSite(n, N, D, c, o)
          BY <1>1, <1>4, <3>2, TurnNodes
        <5> QED BY <1>4, <3>2, <5>1 DEF TurnSite
      <4>2. x \in (N \cup {NULL}) \ {g, c}
        BY <1>4, <3>2, <4>1
      <4>3. y \in (N \cup {NULL}) \ {g, c}
        BY <1>4, <3>2, <4>1
      <4> QED BY <4>2, <4>3
    <3> HIDE DEF g, x, y
    <3>7. /\ \A z \in N \ {c, g} : n.up[c] # z /\ Balanced(n, z) => Balanced(l, z)
          /\ \A z \in (N \cup {NULL}) \ {c, g} : HeightOf(l, z) = HeightOf(n, z)
      BY <1>1, <1>4, <3>2, <3>4, TurnBalance DEF g
    <3>8. /\ l \in TreeOf(N)
          /\ \A z \in N : l[o][z] = IF z = c THEN x ELSE IF n[o][z] = c THEN g ELSE n[o][z]
          /\ \A z \in N : l[side][z] = IF z = g THEN c ELSE IF n[side][z] = c THEN g ELSE n[side][z]
          /\ \A z \in N : l.up[z] = IF z = g THEN n.up[c] ELSE IF z = c THEN g
                                    ELSE IF z = x THEN c ELSE n.up[z]
          /\ \A z \in N \ {c, g} : l.height[z] = n.height[z] /\ l.imbalance[z] = n.imbalance[z]
          /\ Measured(l, c) /\ Measured(l, g)
      BY <1>4, <3>4 DEF Turned, g, x
    <3>9. /\ l[side][p] = g /\ l[o][p] = out /\ l[o][g] = y /\ l[side][g] = c
          /\ l[o][c] = x /\ l[side][c] = n[side][c] /\ l.up[p] = q
      <4>1. n[side][c] # c /\ out # c /\ y # c
        BY <2>2, <3>6
      <4>2. l[side][p] = g /\ l[side][g] = c /\ l[o][c] = x /\ l[side][c] = n[side][c]
        BY <1>3, <1>4, <2>2, <3>2, <3>8, <4>1
      <4>3. l[o][p] = out /\ l[o][g] = y
        <5>1. n[o][p] = out /\ n[o][g] = y
          BY DEF out, y
        <5> QED BY <2>2, <3>2, <3>8, <4>1, <5>1
      <4>4. p # x
        <5>1. x # NULL => n.up[x] = g
          BY <1>1, <1>4, <3>2, ShapedNode DEF x
        <5> QED BY <1>1, <1>4, <3>3, <5>1 DEF q
      <4> QED BY <1>1, <1>4, <2>2, <3>2, <3>8, <4>2, <4>3, <4>4 DEF q
    <3>10. /\ hx \in Nat /\ hy \in Nat /\ hx \in {ho - 1, ho} /\ hy \in {ho - 1, ho}
      <4>1. Balanced(n, g)
        BY <1>1, <3>2, <3>3
      <4>2. /\ hx \in Nat /\ hy \in Nat /\ hx - hy \in -1..1 /\ n.height[g] = 1 + Higher(hx, hy)
        BY <1>4, <3>2, <4>1, BalancedSide DEF o, x, y
      <4> HIDE DEF hx, hy
      <4> QED BY <1>3, <3>1, <3>2, <4>2 DEF Higher
    <3>11. /\ HeightOf(l, l[o][c]) = hx /\ HeightOf(l, l[side][c]) = ho
           /\ HeightOf(l, y) = hy /\ HeightOf(l, out) = ho
      <4>1. out # g
        <5>1. out # NULL => n.up[out] = p
          BY <1>1, <1>4, ShapedNode DEF out
        <5> QED BY <2>2, <3>2, <5>1
      <4>2. n[side][c] # g
        <5>1. g # NULL => n[side][c] # n[o][c]
          <6>1. n[o][c] # NULL => n[o][c] \in Under(D, n[o][c]) /\ On(o, n[o][c], c)
            BY <1>1, <1>4, ShapedNode
          <6>2. n[side][c] # NULL => On(side, n[side][c], c)
            BY <1>1, <1>4, ShapedNode
          <6>3. n[o][c] \in N => ~(On(side, n[o][c], c) /\ On(o, n[o][c], c))
            BY <1>4, OnOrder DEF o
          <6>4. g \in N /\ g # NULL /\ g = n[o][c]
            BY <1>4, <3>2 DEF g
          <6> QED BY <6>1, <6>2, <6>3, <6>4
        <5> QED BY <3>2, <5>1 DEF g
      <4>3. HeightOf(l, n[side][c]) = hs /\ HeightOf(l, x) = hx /\ HeightOf(l, y) = hy
            /\ HeightOf(l, out) = ho
        BY <2>2, <3>6, <3>7, <4>1, <4>2 DEF hs, ho
      <4> QED BY <3>1, <3>9, <4>3
    <3> HIDE DEF hx, hy
    <3>12. l.height[c] = ho + 1 /\ Balanced(l, c)
      <4>1. /\ l.height[c] = 1 + Higher(ho, hx)
            /\ l.imbalance[c] = IF side = "before" THEN ho - hx ELSE hx - ho
        BY <1>4, <3>8, <3>11, MeasuredSide DEF o
      <4>2. l.imbalance[c] \in -1..1 /\ l.height[c] = ho + 1
        BY <1>3, <3>10, <4>1 DEF Higher
      <4> QED BY <3>8, <4>2 DEF Balanced
    <3>13. Turned(l, r, N, p, side)
      <4>1. l[side][p] # NULL
        BY <3>2, <3>9
      <4> QED BY <2>1, <3>5, <4>1, RotatedTurns
    <3>14. Climbed(r, N, G, q, g, w)
      <4>1. \A z \in N \ {p, l[side][p], l.up[p]} : Balanced(l, z)
        <5> SUFFICES ASSUME NEW z \in N \ {p, g, q} PROVE Balanced(l, z)
          BY <3>9
        <5>1. CASE z = c
          BY <3>12, <5>1
        <5>2. CASE z # c
          BY <1>1, <2>2, <3>7, <5>2
        <5> QED BY <5>1, <5>2
      <4>2. ASSUME q # NULL PROVE \E s \in Sides : l[s][q] = p /\ Short(l, q, s, w)
        <5>1. PICK s \in Sides : n[s][q] = p /\ Short(n, q, s, w)
          BY <1>1, <4>2
        <5>2. q \in N /\ n.up[p] = q
          BY <1>1, <4>2, ShapedNode DEF q
        <5>3. \A z \in Sides : n[z][q] # c /\ n[z][q] # g
          BY <1>1, <1>4, <2>2, <3>2, <3>3, <5>2, ShapedNode
        <5>4. \A z \in Sides : l[z][q] = n[z][q]
          <6>1. l[o][q] = n[o][q] /\ l[side][q] = n[side][q]
            BY <1>4, <2>2, <3>3, <3>8, <5>2, <5>3
          <6> QED BY <6>1, OtherSide DEF o
        <5>5. Other(s) \in Sides /\ n[Other(s)][q] \in N \cup {NULL}
          BY <1>1, <5>2, OtherSide, ShapedNode
        <5>6. HeightOf(l, l[Other(s)][q]) = HeightOf(n, n[Other(s)][q])
          BY <3>7, <5>3, <5>4, <5>5
        <5>7. l.height[q] = n.height[q]
          BY <2>2, <3>3, <3>8, <5>2
        <5> QED BY <5>1, <5>4, <5>5, <5>6, <5>7 DEF Short
      <4>3. LET inner == HeightOf(l, l[Other(side)][l[side][p]])
                outer == HeightOf(l, l[side][l[side][p]])
                out_ == HeightOf(l, l[Other(side)][p])
                low_ == 1 + Higher(inner, out_)
            IN  /\ inner \in Nat /\ outer \in Nat /\ out_ \in Nat
                /\ inner - out_ \in -1..1 /\ outer - low_ \in -1..1
                /\ 1 + Higher(outer, low_) \in {w, w + 1}
        <5>1. /\ HeightOf(l, l[Other(side)][l[side][p]]) = hy
              /\ HeightOf(l, l[Other(side)][p]) = ho
          BY <3>9, <3>11 DEF o
        <5>2. HeightOf(l, l[side][l[side][p]]) = ho + 1
          BY <1>4, <3>9, <3>12 DEF HeightOf
        <5>3. Higher(hy, ho) = ho /\ Higher(ho + 1, 1 + ho) = ho + 1
          BY <1>3, <3>10 DEF Higher
        <5>4. /\ hy \in Nat /\ ho + 1 \in Nat /\ ho \in Nat
              /\ hy - ho \in -1..1 /\ (ho + 1) - (1 + Higher(hy, ho)) \in -1..1
              /\ 1 + Higher(ho + 1, 1 + Higher(hy, ho)) \in {w, w + 1}
          BY <1>3, <2>0, <3>10, <5>3
        <5> QED BY <5>1, <5>2, <5>4
      <4>4. Climbed(r, N, G, l.up[p], l[side][p], w)
        <5>1. l[side][p] # NULL
          BY <3>2, <3>9
        <5>2. l.up[p] # NULL => \E s \in Sides : l[s][l.up[p]] = p /\ Short(l, l.up[p], s, w)
          BY <3>9, <4>2
        <5> HIDE DEF F
        <5> QED BY <1>4, <2>0, <3>5, <3>13, <4>1, <5>1, <5>2, <4>3, TurnClimbs
      <4> QED BY <3>9, <4>4
    <3>15. ASSUME NEW z \in N \ D[p]
           PROVE  z # p /\ z # c /\ z # g /\ z # x /\ z # y
      <4>1. p \in D[p] /\ D[c] \subseteq D[p] /\ c \in D[c] /\ D[g] \subseteq D[c] /\ g \in D[g]
        BY <1>1, <1>4, <2>2, <3>2, ShapedNode DEF Under, g
      <4>2. x # NULL => x \in D[g]
        BY <1>1, <1>4, <3>2, ShapedNode DEF x
      <4>3. y # NULL => y \in D[g]
        BY <1>1, <1>4, <3>2, ShapedNode DEF y
      <4> QED BY <1>4, <4>1, <4>2, <4>3
    <3>16. \A z \in N \ D[p] : G[z] = D[z]
      <4>1. F \in [N -> SUBSET N] /\ \A z \in N \ {c, g} : F[z] = D[z]
        <5>1. F \in [N -> SUBSET N]
          BY <3>5 DEF Shaped
        <5> QED BY <1>4, <3>2, <5>1 DEF TurnedUnder, g
      <4>2. \A z \in N \ {p, g} : G[z] = F[z]
        <5> HIDE DEF F
        <5> QED BY <3>9, <4>1 DEF TurnedUnder
      <4> QED BY <3>15, <4>1, <4>2
    <3>17. \A z \in N \ D[p] : r.up[z] = n.up[z]
      <4>1. \A z \in N \ {p, g, y} : r.up[z] = l.up[z]
        BY <3>9, <3>13 DEF Turned, o
      <4>2. \A z \in N \ {c, g, x} : l.up[z] = n.up[z]
        BY <3>8
      <4> QED BY <3>15, <4>1, <4>2
    <3> HIDE DEF G
    <3> QED BY <1>1, <3>14, <3>16, <3>17 DEF r, q, w
  <2> QED BY <2>7, <2>8
<1> QED BY <1>9, <1>10

---------------------------------------------------------------------------
(* Searches *)

\* The store as insertions leave it.
Sound(t, N, D) == Shaped(t, N, D) /\ \A p \in N : Balanced(t, p)

\* Ids keep their value when they are converted to long.
LEMMA KeyIs ==
  ASSUME LongBytes >= IdBytes, NEW id
  PROVE  Key(id) = id
BY DEF Key

LEMMA SideIs ==
  ASSUME LongBytes >= IdBytes, NEW id \in Int, NEW p \in Int
  PROVE  Side(id, p) \in Sides /\ (id # p => On(Side(id, p), id, p))
BY KeyIs DEF Side, Sides, On

\* From a node the search goes on to a lower one.
LEMMA ChildLower ==
  ASSUME NEW t, NEW N, NEW D, Sound(t, N, D), NEW p \in N, NEW side \in Sides,
         t[side][p] # NULL
  PROVE  t[side][p] \in N /\ t.height[t[side][p]] < t.height[p]
<1>1. t \in TreeOf(N) /\ Balanced(t, p)
  BY DEF Sound, Shaped
<1>2. t[side][p] \in N
  <2>1. Shaped(t, N, D)
    BY DEF Sound
  <2> QED BY <2>1, ShapedNode
<1>3. LET h == HeightOf(t, t[side][p])
          k == HeightOf(t, t[Other(side)][p])
      IN  h \in Nat /\ k \in Nat /\ t.height[p] = 1 + Higher(h, k)
  BY <1>1, BalancedSide
<1>4. HeightOf(t, t[side][p]) = t.height[t[side][p]]
  BY DEF HeightOf
<1> QED BY <1>2, <1>3, <1>4 DEF Higher

\* Which nodes are below the child the search goes on to.
LEMMA SearchSide ==
  ASSUME LongBytes >= IdBytes, NEW t, NEW N, NEW D, Shaped(t, N, D), NEW p \in N,
         NEW id \in Int, id # p
  PROVE  id \in D[p] <=> id \in Under(D, t[Side(id, p)][p])
<1> DEFINE side == Side(id, p)
<1>1. p \in Int /\ N \subseteq Int
  BY ShapedNode DEF Sides, Shaped
<1>2. side \in Sides /\ On(side, id, p) /\ Other(side) \in Sides
  BY <1>1, SideIs, OtherSide
<1> HIDE DEF side
<1>3. D[p] = {p} \cup Under(D, t[side][p]) \cup Under(D, t[Other(side)][p])
  BY <1>2, ShapedNode
<1>4. id \notin Under(D, t[Other(side)][p])
  <2>1. id \in Under(D, t[Other(side)][p]) => On(Other(side), id, p)
    BY <1>2, ShapedNode
  <2>2. ~(On(Other(side), id, p) /\ On(side, id, p))
    BY <1>1, <1>2, OnOrder
  <2> QED BY <1>2, <2>1, <2>2
<1> QED BY <1>3, <1>4 DEF side

SearchFrom(id, from) ==
    from = [p \in Nodes \cup {NULL} |->
               IF p = NULL THEN NULL
               ELSE IF Key(id) = Key(p) THEN p ELSE from[tree[Side(id, p)][p]]]

\* A search finds what there is.
LEMMA SearchIs ==
  ASSUME LongBytes >= IdBytes, NEW D, Sound(tree, Nodes, D), NEW id \in Int
  PROVE  Search(id) = IF id \in Nodes THEN id ELSE NULL
<1> DEFINE N == Nodes
           link == [p \in N |-> tree[Side(id, p)][p]]
           A == N \cup {NULL}
           step == [x \in N \X A |-> IF id = x[1] THEN x[1] ELSE x[2]]
<1>1. N \subseteq Int /\ NULL \notin N /\ Shaped(tree, N, D)
  <2>1. Shaped(tree, N, D)
    BY DEF Sound
  <2> QED BY <2>1, ShapedNodes
<1> HIDE DEF N
<1>2. tree.height \in [N -> Nat]
  BY <1>1 DEF Shaped, TreeOf
<1>3. /\ link \in [N -> N \cup {NULL}]
      /\ \A p \in N : link[p] # NULL => tree.height[link[p]] < tree.height[p]
  <2>1. \A p \in N : Side(id, p) \in Sides
    BY <1>1, SideIs
  <2>2. \A p \in N : tree[Side(id, p)][p] \in N \cup {NULL}
    BY <1>1, <2>1, ShapedNode
  <2>3. \A p \in N : tree[Side(id, p)][p] # NULL => tree.height[tree[Side(id, p)][p]] < tree.height[p]
    BY <2>1, ChildLower DEF N
  <2> QED BY <2>2, <2>3
<1> HIDE DEF link
<1>4. NULL \in A /\ \A x \in N : \A a \in A : step[<<x, a>>] \in A
  OBVIOUS
<1>5. PICK g : WalkRecursion(N, NULL, link, NULL, step, g) /\ \A x \in N \cup {NULL} : g[x] \in A
  <2> HIDE DEF A, step
  <2>1. Walk(N, NULL, link, tree.height, A, NULL, step)
    BY <1>1, <1>2, <1>3, <1>4 DEF Walk
  <2> QED BY <2>1, WalkDefined
<1>6. SearchFrom(id, g)
  <2>1. g = [x \in N \cup {NULL} |-> IF x = NULL THEN NULL ELSE step[<<x, g[link[x]]>>]]
    BY <1>5 DEF WalkRecursion
  <2>2. ASSUME NEW p \in N \cup {NULL}
        PROVE  g[p] = IF p = NULL THEN NULL
                      ELSE IF Key(id) = Key(p) THEN p ELSE g[tree[Side(id, p)][p]]
    <3>1. CASE p = NULL
      BY <2>1, <3>1
    <3>2. CASE p # NULL
      <4>1. p \in N /\ link[p] \in N \cup {NULL} /\ link[p] = tree[Side(id, p)][p]
        BY <1>3, <3>2 DEF link
      <4>2. g[p] = step[<<p, g[link[p]]>>] /\ g[link[p]] \in A
        BY <1>5, <2>1, <3>2, <4>1
      <4>3. g[p] = IF id = p THEN p ELSE g[link[p]]
        BY <4>1, <4>2
      <4> QED BY <3>2, <4>1, <4>3, KeyIs
    <3> QED BY <3>1, <3>2
  <2>3. g = [p \in N \cup {NULL} |-> g[p]]
    BY <2>1
  <2> QED BY <2>2, <2>3 DEF SearchFrom, N
<1> DEFINE from == CHOOSE f : SearchFrom(id, f)
<1>7. SearchFrom(id, from)
  BY <1>6
<1>8. Search(id) = from[tree.root]
  BY DEF Search, SearchFrom
<1> HIDE DEF from
<1>9. /\ from[NULL] = NULL
      /\ \A p \in N : from[p] = IF id = p THEN p ELSE from[tree[Side(id, p)][p]]
  <2>1. from = [p \in N \cup {NULL} |->
                   IF p = NULL THEN NULL
                   ELSE IF Key(id) = Key(p) THEN p ELSE from[tree[Side(id, p)][p]]]
    BY <1>7 DEF SearchFrom, N
  <2>2. from[NULL] = NULL
    BY <2>1
  <2>3. ASSUME NEW p \in N PROVE from[p] = IF id = p THEN p ELSE from[tree[Side(id, p)][p]]
    <3>1. p # NULL /\ p \in N \cup {NULL}
      BY <1>1
    <3>2. from[p] = IF Key(id) = Key(p) THEN p ELSE from[tree[Side(id, p)][p]]
      BY <2>1, <3>1
    <3> QED BY <3>2, KeyIs
  <2> QED BY <2>2, <2>3
<1> DEFINE G == {p \in N : from[p] = IF id \in D[p] THEN id ELSE NULL}
<1>10. ASSUME NEW p \in N, \A q \in N : tree.height[q] < tree.height[p] => q \in G
       PROVE  p \in G
  <2>1. CASE id = p
    <3>1. p \in D[p]
      BY <1>1, ShapedNode DEF Sides
    <3> QED BY <1>9, <2>1, <3>1
  <2>2. CASE id # p
    <3> DEFINE c == link[p]
    <3>1. from[p] = from[c] /\ c = tree[Side(id, p)][p]
      BY <1>9, <2>2 DEF link
    <3>2. id \in D[p] <=> id \in Under(D, c)
      BY <1>1, <2>2, <3>1, SearchSide
    <3>3. CASE c = NULL
      BY <1>9, <3>1, <3>2, <3>3 DEF Under
    <3>4. CASE c # NULL
      <4>1. c \in N /\ tree.height[c] < tree.height[p]
        BY <1>3, <3>4
      <4>2. c \in G
        BY <1>10, <4>1
      <4> HIDE DEF c
      <4> QED BY <3>1, <3>2, <3>4, <4>2 DEF Under
    <3> QED BY <3>3, <3>4
  <2> QED BY <2>1, <2>2
<1>11. \A p \in N : p \in G
  <2> HIDE DEF G
  <2> QED BY <1>2, <1>10, RankInduction
<1>12. tree.root \in N \cup {NULL} /\ Under(D, tree.root) = N
  BY <1>1 DEF Shaped, TreeOf
<1>13. CASE tree.root = NULL
  BY <1>8, <1>9, <1>12, <1>13 DEF Under, N
<1>14. CASE tree.root # NULL
  BY <1>8, <1>11, <1>12, <1>14 DEF Under, N
<1> QED BY <1>13, <1>14

\* A path from the place of a new id up to p.
Path(t, N, id, s, p) ==
    /\ s \in Seq(N)
    /\ p = NULL => s = <<>>
    /\ p # NULL => s # <<>> /\ s[Len(s)] = p /\ t[Side(id, s[1])][s[1]] = NULL
    /\ \A i \in 1..Len(s) - 1 : t[Side(id, s[i + 1])][s[i + 1]] = s[i]

\* A path from a child up to p goes on to p.
LEMMA PathGrows ==
  ASSUME NEW t, NEW N, NEW id, NEW s, NEW c, NEW p \in N, p # NULL, Path(t, N, id, s, c),
         c = t[Side(id, p)][p]
  PROVE  Path(t, N, id, Append(s, p), p)
<1> DEFINE r == Append(s, p)
<1>1. /\ s \in Seq(N) /\ (c = NULL => s = <<>>)
      /\ c # NULL => s # <<>> /\ s[Len(s)] = c /\ t[Side(id, s[1])][s[1]] = NULL
      /\ \A i \in 1..Len(s) - 1 : t[Side(id, s[i + 1])][s[i + 1]] = s[i]
  BY DEF Path
<1>2. /\ r \in Seq(N) /\ r # <<>> /\ Len(r) = Len(s) + 1 /\ Len(s) \in Nat
      /\ r[Len(s) + 1] = p /\ \A i \in 1..Len(s) : r[i] = s[i]
  BY <1>1
<1> HIDE DEF r
<1>3. t[Side(id, r[1])][r[1]] = NULL
  <2>1. CASE c = NULL
    <3>1. Len(s) = 0
      BY <1>1, <2>1
    <3>2. r[1] = p
      BY <1>2, <3>1
    <3> QED BY <2>1, <3>2
  <2>2. CASE c # NULL
    <3>1. Len(s) >= 1
      BY <1>1, <1>2, <2>2
    <3>2. r[1] = s[1]
      BY <1>2, <3>1
    <3> QED BY <1>1, <2>2, <3>2
  <2> QED BY <2>1, <2>2
<1>4. ASSUME NEW i \in 1..Len(r) - 1 PROVE t[Side(id, r[i + 1])][r[i + 1]] = r[i]
  <2>0. i \in 1..Len(s)
    BY <1>2
  <2>1. CASE i = Len(s)
    <3>1. c # NULL
      <4>1. c = NULL => Len(s) = 0
        BY <1>1
      <4> QED BY <1>2, <2>0, <4>1
    <3>2. r[i] = c /\ r[i + 1] = p
      BY <1>1, <1>2, <2>0, <2>1, <3>1
    <3> QED BY <3>2
  <2>2. CASE i # Len(s)
    <3>1. i \in 1..Len(s) - 1 /\ i + 1 \in 1..Len(s)
      BY <1>2, <2>0, <2>2
    <3>2. r[i] = s[i] /\ r[i + 1] = s[i + 1]
      BY <1>2, <2>0, <3>1
    <3> QED BY <1>1, <3>1, <3>2
  <2> QED BY <2>1, <2>2
<1>5. r[Len(r)] = p
  BY <1>2
<1> QED BY <1>2, <1>3, <1>4, <1>5 DEF Path, r

PathRecursion(id, from) ==
    from = [p \in Nodes \cup {NULL} |->
               IF p = NULL THEN <<>> ELSE Append(from[tree[Side(id, p)][p]], p)]

\* Ancestors goes from the place of a new id up to the root.
LEMMA AncestorsAre ==
  ASSUME LongBytes >= IdBytes, NEW D, Sound(tree, Nodes, D), NEW id \in Int
  PROVE  Path(tree, Nodes, id, Ancestors(id), tree.root)
<1> DEFINE N == Nodes
           link == [p \in N |-> tree[Side(id, p)][p]]
           A == Seq(N)
           step == [x \in N \X A |-> Append(x[2], x[1])]
<1>1. N \subseteq Int /\ NULL \notin N /\ Shaped(tree, N, D)
  <2>1. Shaped(tree, N, D)
    BY DEF Sound
  <2> QED BY <2>1, ShapedNodes
<1> HIDE DEF N
<1>2. tree.height \in [N -> Nat] /\ tree.root \in N \cup {NULL}
  BY <1>1 DEF Shaped, TreeOf
<1>3. /\ link \in [N -> N \cup {NULL}]
      /\ \A p \in N : link[p] # NULL => tree.height[link[p]] < tree.height[p]
  <2>1. \A p \in N : Side(id, p) \in Sides
    BY <1>1, SideIs
  <2>2. \A p \in N : tree[Side(id, p)][p] \in N \cup {NULL}
    BY <1>1, <2>1, ShapedNode
  <2>3. \A p \in N : tree[Side(id, p)][p] # NULL => tree.height[tree[Side(id, p)][p]] < tree.height[p]
    BY <2>1, ChildLower DEF N
  <2> QED BY <2>2, <2>3
<1> HIDE DEF link
<1>4. <<>> \in A /\ \A x \in N : \A a \in A : step[<<x, a>>] \in A
  OBVIOUS
<1>5. PICK g : WalkRecursion(N, NULL, link, <<>>, step, g) /\ \A x \in N \cup {NULL} : g[x] \in A
  <2> HIDE DEF A, step
  <2>1. Walk(N, NULL, link, tree.height, A, <<>>, step)
    BY <1>1, <1>2, <1>3, <1>4 DEF Walk
  <2> QED BY <2>1, WalkDefined
<1>6. PathRecursion(id, g)
  <2>1. g = [x \in N \cup {NULL} |-> IF x = NULL THEN <<>> ELSE step[<<x, g[link[x]]>>]]
    BY <1>5 DEF WalkRecursion
  <2>2. ASSUME NEW p \in N \cup {NULL}
        PROVE  g[p] = IF p = NULL THEN <<>> ELSE Append(g[tree[Side(id, p)][p]], p)
    <3>1. CASE p = NULL
      BY <2>1, <3>1
    <3>2. CASE p # NULL
      <4>1. p \in N /\ link[p] \in N \cup {NULL} /\ link[p] = tree[Side(id, p)][p]
        BY <1>3, <3>2 DEF link
      <4>2. g[p] = step[<<p, g[link[p]]>>] /\ g[link[p]] \in A
        BY <1>5, <2>1, <3>2, <4>1
      <4>3. g[p] = Append(g[link[p]], p)
        BY <4>1, <4>2
      <4> QED BY <3>2, <4>1, <4>3
    <3> QED BY <3>1, <3>2
  <2>3. g = [p \in N \cup {NULL} |-> g[p]]
    BY <2>1
  <2> QED BY <2>2, <2>3 DEF PathRecursion, N
<1> DEFINE from == CHOOSE f : PathRecursion(id, f)
<1>7. PathRecursion(id, from)
  BY <1>6
<1>8. Ancestors(id) = from[tree.root]
  BY DEF Ancestors, PathRecursion
<1> HIDE DEF from
<1>9. /\ from[NULL] = <<>>
      /\ \A p \in N : from[p] = Append(from[tree[Side(id, p)][p]], p)
  <2>1. from = [p \in N \cup {NULL} |->
                   IF p = NULL THEN <<>> ELSE Append(from[tree[Side(id, p)][p]], p)]
    BY <1>7 DEF PathRecursion, N
  <2>2. from[NULL] = <<>>
    BY <2>1
  <2>3. ASSUME NEW p \in N PROVE from[p] = Append(from[tree[Side(id, p)][p]], p)
    <3>1. p # NULL /\ p \in N \cup {NULL}
      BY <1>1
    <3> QED BY <2>1, <3>1
  <2> QED BY <2>2, <2>3
<1> DEFINE G == {p \in N : Path(tree, N, id, from[p], p)}
<1>10. Path(tree, N, id, from[NULL], NULL)
  <2>1. Len(<<>>) = 0 /\ <<>> \in Seq(N)
    OBVIOUS
  <2> QED BY <1>9, <2>1 DEF Path
<1>11. ASSUME NEW p \in N, \A q \in N : tree.height[q] < tree.height[p] => q \in G
       PROVE  p \in G
  <2> DEFINE c == link[p]
  <2>1. from[p] = Append(from[c], p) /\ c = tree[Side(id, p)][p] /\ p # NULL
    BY <1>1, <1>9 DEF link
  <2>2. Path(tree, N, id, from[c], c)
    <3>1. CASE c = NULL
      BY <1>10, <3>1
    <3>2. CASE c # NULL
      <4>1. c \in N /\ tree.height[c] < tree.height[p]
        BY <1>3, <3>2
      <4> QED BY <1>11, <4>1
    <3> QED BY <3>1, <3>2
  <2> HIDE DEF c
  <2>3. Path(tree, N, id, Append(from[c], p), p)
    BY <2>1, <2>2, PathGrows
  <2> QED BY <2>1, <2>3
<1>12. \A p \in N : p \in G
  <2> HIDE DEF G
  <2> QED BY <1>2, <1>11, RankInduction
<1>13. Path(tree, N, id, from[tree.root], tree.root)
  BY <1>2, <1>10, <1>12
<1> QED BY <1>8, <1>13 DEF N

\* Every node of the path is above all that precede it.
LEMMA PathAbove ==
  ASSUME LongBytes >= IdBytes, NEW t, NEW N, NEW D, Shaped(t, N, D), NEW id \in Int \ N,
         NEW s, Path(t, N, id, s, t.root)
  PROVE  /\ Len(s) \in Nat /\ \A i \in 1..Len(s) : s[i] \in N /\ Side(id, s[i]) \in Sides
         /\ \A i \in 1..Len(s) : t.up[s[i]] = IF i < Len(s) THEN s[i + 1] ELSE NULL
         /\ \A i, k \in 1..Len(s) : i < k => s[k] \notin D[s[i]]
<1>1. s \in Seq(N) /\ Len(s) \in Nat /\ N \subseteq Int /\ NULL \notin N
  <2>1. s \in Seq(N)
    BY DEF Path
  <2>2. N \subseteq Int
    BY DEF Shaped
  <2>3. Len(s) \in Nat
    BY <2>1
  <2>4. NULL \notin N
    BY <2>2, NullAssumption
  <2> QED BY <2>1, <2>2, <2>3, <2>4
<1>2. \A i \in 1..Len(s) : s[i] \in N /\ Side(id, s[i]) \in Sides
  <2> SUFFICES ASSUME NEW i \in 1..Len(s) PROVE s[i] \in N /\ Side(id, s[i]) \in Sides
    OBVIOUS
  <2>1. s \in Seq(N)
    BY <1>1
  <2>2. s[i] \in N
    BY <2>1
  <2>3. s[i] \in Int
    BY <1>1, <2>2
  <2> QED BY <2>2, <2>3, SideIs
<1>3. ASSUME NEW i \in 1..Len(s), i < Len(s)
      PROVE  /\ i + 1 \in 1..Len(s) /\ t[Side(id, s[i + 1])][s[i + 1]] = s[i]
             /\ t.up[s[i]] = s[i + 1]
             /\ D[s[i]] \subseteq D[s[i + 1]] /\ s[i + 1] \notin D[s[i]]
  <2>1. i + 1 \in 1..Len(s) /\ i \in 1..Len(s) - 1
    BY <1>1, <1>3
  <2>2. t[Side(id, s[i + 1])][s[i + 1]] = s[i]
    BY <2>1 DEF Path
  <2> DEFINE p == s[i + 1]
             side == Side(id, p)
             c == s[i]
  <2>3. p \in N /\ side \in Sides /\ c \in N /\ c # NULL /\ t[side][p] = c
    BY <1>1, <1>2, <2>1, <2>2
  <2> HIDE DEF p, side, c
  <2>4. t.up[c] = p /\ Under(D, c) = D[c]
    BY <2>3, ShapedNode DEF Under
  <2>5. \A q \in D[c] : q \in D[p] /\ q # p
    BY <2>3, <2>4, ShapedNode
  <2> QED BY <2>1, <2>2, <2>4, <2>5 DEF p, c
<1>4. ASSUME NEW i \in 1..Len(s), ~(i < Len(s)) PROVE t.up[s[i]] = NULL
  <2>1. i = Len(s) /\ s # <<>>
    BY <1>1, <1>4
  <2>2. t.root # NULL /\ s[i] = t.root
    BY <2>1 DEF Path
  <2> QED BY <2>2 DEF Shaped
<1> DEFINE G == {k \in Nat : k \in 1..Len(s) =>
                    \A i \in 1..Len(s) : /\ i <= k => D[s[i]] \subseteq D[s[k]]
                                         /\ i < k => s[k] \notin D[s[i]]}
<1>5. 0 \in G
  OBVIOUS
<1>6. ASSUME NEW k \in Nat, k \in G PROVE k + 1 \in G
  <2> SUFFICES ASSUME k + 1 \in 1..Len(s), NEW i \in 1..Len(s), i <= k + 1
               PROVE  D[s[i]] \subseteq D[s[k + 1]] /\ (i < k + 1 => s[k + 1] \notin D[s[i]])
    OBVIOUS
  <2>1. CASE i = k + 1
    BY <2>1
  <2>2. CASE i # k + 1
    <3>1. k \in 1..Len(s) /\ k < Len(s) /\ i <= k
      BY <1>1, <2>2
    <3>2. D[s[i]] \subseteq D[s[k]]
      BY <1>6, <3>1
    <3> HIDE DEF G
    <3> QED BY <1>3, <3>1, <3>2
  <2> QED BY <2>1, <2>2
<1>7. \A k \in Nat : k \in G
  <2> HIDE DEF G
  <2> QED BY <1>5, <1>6, NumberInduction
<1>8. \A i, k \in 1..Len(s) : i < k => s[k] \notin D[s[i]]
  <2>1. \A k \in 1..Len(s) : k \in G
    <3> HIDE DEF G
    <3> QED BY <1>7
  <2> QED BY <2>1
<1> HIDE DEF G
<1> QED BY <1>1, <1>2, <1>3, <1>4, <1>8

\* A leaf at the end of a search.
Leafed(t, id) == [root |-> t.root,
                  before |-> With(t.before, id, NULL),
                  after |-> With(t.after, id, NULL),
                  up |-> With(t.up, id, NULL),
                  height |-> With(t.height, id, 1),
                  imbalance |-> With(t.imbalance, id, 0)]
LeafedUnder(N, D, id, s) ==
    [x \in N \cup {id} |-> IF x = id THEN {id} ELSE IF x \in Range(s) THEN D[x] \cup {id} ELSE D[x]]
HungLeaf(t, id, parent) == [Leafed(t, id) EXCEPT !.up[id] = parent,
                                                 ![Side(id, parent)][parent] = id]

LEMMA LeafedFields ==
  ASSUME NEW N, NULL \notin N, NEW t \in TreeOf(N), NEW id, id \notin N, id # NULL
  PROVE  LET u == Leafed(t, id)
         IN  /\ u \in TreeOf(N \cup {id}) /\ u.root = t.root
             /\ \A s \in Sides : u[s][id] = NULL /\ \A x \in N : u[s][x] = t[s][x]
             /\ u.up[id] = NULL /\ u.height[id] = 1 /\ u.imbalance[id] = 0
             /\ \A x \in N : /\ u.up[x] = t.up[x] /\ u.height[x] = t.height[x]
                             /\ u.imbalance[x] = t.imbalance[x]
<1> DEFINE u == Leafed(t, id)
           M == N \cup {id}
<1>1. /\ t.before \in [N -> N \cup {NULL}] /\ t.after \in [N -> N \cup {NULL}]
      /\ t.up \in [N -> N \cup {NULL}] /\ t.height \in [N -> Nat] /\ t.imbalance \in [N -> Int]
      /\ t.root \in N \cup {NULL}
  BY DEF TreeOf
<1>2. ASSUME NEW f, NEW V, f \in [N -> V], NEW v
      PROVE  /\ With(f, id, v) \in [M -> V \cup {v}]
             /\ With(f, id, v)[id] = v /\ \A x \in N : With(f, id, v)[x] = f[x]
  BY <1>2 DEF With
<1>3. /\ u.before = With(t.before, id, NULL) /\ u.after = With(t.after, id, NULL)
      /\ u.up = With(t.up, id, NULL) /\ u.height = With(t.height, id, 1)
      /\ u.imbalance = With(t.imbalance, id, 0) /\ u.root = t.root
      /\ u = [root |-> u.root, before |-> u.before, after |-> u.after, up |-> u.up,
              height |-> u.height, imbalance |-> u.imbalance]
  BY DEF Leafed
<1> HIDE DEF u
<1>4. /\ u.before \in [M -> M \cup {NULL}] /\ u.before[id] = NULL
      /\ \A x \in N : u.before[x] = t.before[x]
  <2>1. t.before \in [N -> M \cup {NULL}]
    BY <1>1
  <2> QED BY <1>3, <2>1 DEF With
<1>5. /\ u.after \in [M -> M \cup {NULL}] /\ u.after[id] = NULL
      /\ \A x \in N : u.after[x] = t.after[x]
  <2>1. t.after \in [N -> M \cup {NULL}]
    BY <1>1
  <2> QED BY <1>3, <2>1 DEF With
<1>6. /\ u.up \in [M -> M \cup {NULL}] /\ u.up[id] = NULL /\ \A x \in N : u.up[x] = t.up[x]
  <2>1. t.up \in [N -> M \cup {NULL}]
    BY <1>1
  <2> QED BY <1>3, <2>1 DEF With
<1>7. /\ u.height \in [M -> Nat] /\ u.height[id] = 1 /\ \A x \in N : u.height[x] = t.height[x]
  <2>1. With(t.height, id, 1) \in [M -> Nat \cup {1}]
    BY <1>1, <1>2
  <2> QED BY <1>1, <1>2, <1>3, <2>1
<1>8. /\ u.imbalance \in [M -> Int] /\ u.imbalance[id] = 0
      /\ \A x \in N : u.imbalance[x] = t.imbalance[x]
  <2>1. With(t.imbalance, id, 0) \in [M -> Int \cup {0}]
    BY <1>1, <1>2
  <2> QED BY <1>1, <1>2, <1>3, <2>1
<1>9. u \in TreeOf(M)
  BY <1>1, <1>3, <1>4, <1>5, <1>6, <1>7, <1>8 DEF TreeOf
<1> QED BY <1>3, <1>4, <1>5, <1>6, <1>7, <1>8, <1>9 DEF Sides, u

\* The children that are on the path to the place of a new id.
LEMMA PathChildren ==
  ASSUME LongBytes >= IdBytes, NEW t, NEW N, NEW D, Shaped(t, N, D), NEW id \in Int \ N,
         NEW s, Path(t, N, id, s, t.root), s # <<>>
  PROVE  /\ s[1] \in N /\ s[1] \in Range(s) /\ t[Side(id, s[1])][s[1]] = NULL
         /\ t.root \in N /\ t.root \in Range(s) /\ Range(s) \subseteq N
         /\ \A x \in Range(s) : t[Side(id, x)][x] = NULL => x = s[1]
         /\ \A x \in N, side \in Sides :
               t[side][x] # NULL =>
                  (t[side][x] \in Range(s) <=> x \in Range(s) /\ side = Side(id, x))
<1>1. /\ Len(s) \in Nat /\ \A i \in 1..Len(s) : s[i] \in N /\ Side(id, s[i]) \in Sides
      /\ \A i \in 1..Len(s) : t.up[s[i]] = IF i < Len(s) THEN s[i + 1] ELSE NULL
  BY PathAbove
<1>2. s \in Seq(N) /\ Len(s) >= 1 /\ DOMAIN s = 1..Len(s)
  <2>1. s \in Seq(N)
    BY DEF Path
  <2> QED BY <1>1, <2>1
<1>3. N \subseteq Int /\ NULL \notin N
  BY ShapedNodes
<1>4. /\ t.root # NULL /\ s[Len(s)] = t.root /\ t[Side(id, s[1])][s[1]] = NULL
      /\ \A i \in 1..Len(s) - 1 : t[Side(id, s[i + 1])][s[i + 1]] = s[i]
  BY DEF Path
<1>5. 1 \in 1..Len(s) /\ Len(s) \in 1..Len(s)
  BY <1>1, <1>2
<1>6. \A x \in Range(s) : \E i \in 1..Len(s) : x = s[i]
  BY <1>2 DEF Range
<1>7. \A i \in 1..Len(s) : s[i] \in Range(s)
  BY <1>2 DEF Range
<1>8. ASSUME NEW i \in 1..Len(s), i # 1
      PROVE  i - 1 \in 1..Len(s) /\ t[Side(id, s[i])][s[i]] = s[i - 1] /\ s[i - 1] \in N
  <2>1. i - 1 \in 1..Len(s) - 1 /\ i - 1 \in 1..Len(s) /\ (i - 1) + 1 = i
    BY <1>1, <1>8
  <2> QED BY <1>1, <1>4, <2>1
<1>9. ASSUME NEW x \in Range(s), t[Side(id, x)][x] = NULL PROVE x = s[1]
  <2>1. PICK i \in 1..Len(s) : x = s[i]
    BY <1>6
  <2> QED BY <1>3, <1>8, <1>9, <2>1
<1>10. ASSUME NEW x \in N, NEW side \in Sides, t[side][x] # NULL
       PROVE  t[side][x] \in Range(s) <=> x \in Range(s) /\ side = Side(id, x)
  <2>1. ASSUME x \in Range(s), side = Side(id, x) PROVE t[side][x] \in Range(s)
    <3>1. PICK i \in 1..Len(s) : x = s[i]
      BY <1>6, <2>1
    <3>2. i # 1
      BY <1>4, <1>10, <2>1, <3>1
    <3> QED BY <1>7, <1>8, <2>1, <3>1, <3>2
  <2>2. ASSUME t[side][x] \in Range(s) PROVE x \in Range(s) /\ side = Side(id, x)
    <3>1. PICK i \in 1..Len(s) : t[side][x] = s[i]
      BY <1>6, <2>2
    <3>2. t.up[s[i]] = x /\ x # NULL
      <4>1. t.up[t[side][x]] = x
        BY <1>10, ChildSide
      <4>2. x # NULL
        BY <1>3
      <4> QED BY <3>1, <4>1, <4>2
    <3>3. i < Len(s) /\ s[i + 1] = x
      BY <1>1, <3>2
    <3>4. i + 1 \in 1..Len(s) /\ i \in 1..Len(s) - 1
      BY <1>1, <3>3
    <3>5. t[Side(id, x)][x] = s[i] /\ x \in Range(s) /\ Side(id, x) \in Sides
      BY <1>1, <1>4, <1>7, <3>3, <3>4
    <3>6. CASE Side(id, x) # side
      <4> DEFINE c == s[i]
                 o == Side(id, x)
      <4>1. o = Other(side) /\ c \in Int /\ x \in Int
        BY <1>1, <1>3, <3>5, <3>6, OtherSide
      <4>2. On(side, c, x) /\ On(o, c, x)
        <5>1. c # NULL /\ t[side][x] = c /\ t[o][x] = c /\ o \in Sides
          <6>1. c \in N /\ c # NULL
            BY <1>1, <1>3, <3>1
          <6> QED BY <3>1, <3>5, <6>1
        <5> HIDE DEF o, c
        <5>2. On(side, t[side][x], x)
          BY <5>1, ChildSide
        <5>3. On(o, t[o][x], x)
          <6>1. t[o][x] # NULL
            BY <5>1
          <6> QED BY <5>1, <6>1, ChildSide
        <5> QED BY <5>1, <5>2, <5>3
      <4> HIDE DEF o, c
      <4>3. ~(On(side, c, x) /\ On(Other(side), c, x))
        BY <4>1, OnOrder
      <4> QED BY <4>1, <4>2, <4>3
    <3> QED BY <3>5, <3>6
  <2> QED BY <2>1, <2>2
<1>11. Range(s) \subseteq N
  BY <1>1, <1>6
<1> QED BY <1>1, <1>4, <1>5, <1>7, <1>9, <1>10, <1>11

LEMMA HungLeafFields ==
  ASSUME NEW N, NULL \notin N, NEW t \in TreeOf(N), NEW id, id \notin N, id # NULL,
         NEW parent \in N, Side(id, parent) \in Sides
  PROVE  LET u == HungLeaf(t, id, parent)
             side == Side(id, parent)
         IN  /\ u \in TreeOf(N \cup {id}) /\ u.root = t.root
             /\ \A s \in Sides :
                   u[s][id] = NULL /\ \A x \in N : u[s][x] = IF s = side /\ x = parent THEN id
                                                            ELSE t[s][x]
             /\ u.up[id] = parent /\ u.height[id] = 1 /\ u.imbalance[id] = 0
             /\ \A x \in N : /\ u.up[x] = t.up[x] /\ u.height[x] = t.height[x]
                             /\ u.imbalance[x] = t.imbalance[x]
<1> DEFINE l == Leafed(t, id)
           side == Side(id, parent)
           M == N \cup {id}
           u == [l EXCEPT !.up[id] = parent, ![side][parent] = id]
<1>1. /\ l \in TreeOf(M) /\ l.root = t.root
      /\ \A s \in Sides : l[s][id] = NULL /\ \A x \in N : l[s][x] = t[s][x]
      /\ l.up[id] = NULL /\ l.height[id] = 1 /\ l.imbalance[id] = 0
      /\ \A x \in N : /\ l.up[x] = t.up[x] /\ l.height[x] = t.height[x]
                      /\ l.imbalance[x] = t.imbalance[x]
  BY LeafedFields
<1> HIDE DEF l, side
<1>2. side \in Sides /\ id # parent /\ id \in M /\ parent \in M
  BY DEF side
<1>3. /\ u \in TreeOf(M) /\ u.root = l.root
      /\ u.up = [l.up EXCEPT ![id] = parent]
      /\ u.height = l.height /\ u.imbalance = l.imbalance
      /\ \A s \in Sides, x \in M : u[s][x] = IF s = side /\ x = parent THEN id ELSE l[s][x]
  <2>1. CASE side = "before"
    BY <1>1, <1>2, <2>1 DEF TreeOf, Sides
  <2>2. CASE side = "after"
    BY <1>1, <1>2, <2>2 DEF TreeOf, Sides
  <2> QED BY <1>2, <2>1, <2>2 DEF Sides
<1> HIDE DEF u
<1>4. l.up \in [M -> M \cup {NULL}]
  BY <1>1 DEF TreeOf
<1>5. u.up[id] = parent /\ \A x \in N : u.up[x] = t.up[x]
  BY <1>1, <1>3, <1>4
<1>6. \A s \in Sides :
         u[s][id] = NULL /\ \A x \in N : u[s][x] = IF s = side /\ x = parent THEN id ELSE t[s][x]
  BY <1>1, <1>2, <1>3
<1>7. u = HungLeaf(t, id, parent)
  BY DEF HungLeaf, u, l, side
<1>8. u.root = t.root /\ u.height[id] = 1 /\ u.imbalance[id] = 0
  BY <1>1, <1>3
<1>9. \A x \in N : u.height[x] = t.height[x] /\ u.imbalance[x] = t.imbalance[x]
  BY <1>1, <1>3
<1>10. side = Side(id, parent)
  BY DEF side
<1>11. HungLeaf(t, id, parent) \in TreeOf(M)
  BY <1>3, <1>7
<1>12. /\ HungLeaf(t, id, parent).root = t.root
       /\ HungLeaf(t, id, parent).up[id] = parent
       /\ HungLeaf(t, id, parent).height[id] = 1 /\ HungLeaf(t, id, parent).imbalance[id] = 0
  BY <1>5, <1>7, <1>8
<1>13. \A s \in Sides :
          /\ HungLeaf(t, id, parent)[s][id] = NULL
          /\ \A x \in N : HungLeaf(t, id, parent)[s][x] =
                            IF s = Side(id, parent) /\ x = parent THEN id ELSE t[s][x]
  BY <1>6, <1>7, <1>10
<1>14. \A x \in N : /\ HungLeaf(t, id, parent).up[x] = t.up[x]
                    /\ HungLeaf(t, id, parent).height[x] = t.height[x]
                    /\ HungLeaf(t, id, parent).imbalance[x] = t.imbalance[x]
  BY <1>5, <1>7, <1>9
<1> QED BY <1>11, <1>12, <1>13, <1>14

HungOn(t, N, D, id, s) ==
  /\ Climbed(HungLeaf(t, id, s[1]), N \cup {id}, LeafedUnder(N, D, id, s), s[1], id, 0)
  /\ \A x \in N : HungLeaf(t, id, s[1]).up[x] = t.up[x]

\* A tree with a new leaf is one the loop can start on.
LEMMA LeafClimbs ==
  ASSUME LongBytes >= IdBytes, NEW t, NEW N, NEW D, Sound(t, N, D), NEW id \in Int \ N,
         NEW s, Path(t, N, id, s, t.root), s # <<>>
  PROVE  HungOn(t, N, D, id, s)
<1> SUFFICES
      /\ Climbed(HungLeaf(t, id, s[1]), N \cup {id}, LeafedUnder(N, D, id, s), s[1], id, 0)
      /\ \A x \in N : HungLeaf(t, id, s[1]).up[x] = t.up[x]
  BY DEF HungOn
<1> DEFINE parent == s[1]
           u == HungLeaf(t, id, parent)
           M == N \cup {id}
           E == LeafedUnder(N, D, id, s)
           R == Range(s)
           side == Side(id, parent)
<1>1. /\ Shaped(t, N, D) /\ t \in TreeOf(N) /\ N \subseteq Int /\ NULL \notin N
      /\ D \in [N -> SUBSET N] /\ id # NULL /\ id \in Int /\ id \notin N
  <2>1. Shaped(t, N, D)
    BY DEF Sound
  <2>2. t \in TreeOf(N) /\ D \in [N -> SUBSET N]
    BY <2>1 DEF Shaped
  <2>3. N \subseteq Int /\ NULL \notin N
    BY <2>1, ShapedNodes
  <2>4. id # NULL
    BY NullAssumption
  <2> QED BY <2>1, <2>2, <2>3, <2>4
<1>2. /\ parent \in N /\ parent \in R /\ t[side][parent] = NULL
      /\ t.root \in N /\ t.root \in R /\ R \subseteq N
      /\ \A x \in R : t[Side(id, x)][x] = NULL => x = parent
      /\ \A x \in N, w \in Sides :
            t[w][x] # NULL => (t[w][x] \in R <=> x \in R /\ w = Side(id, x))
  BY <1>1, PathChildren
<1>3. \A x \in N : Side(id, x) \in Sides /\ On(Side(id, x), id, x)
  <2> SUFFICES ASSUME NEW x \in N PROVE Side(id, x) \in Sides /\ On(Side(id, x), id, x)
    OBVIOUS
  <2>1. x \in Int /\ id # x
    BY <1>1
  <2> QED BY <1>1, <2>1, SideIs
<1> HIDE DEF parent, R
<1>4. /\ u \in TreeOf(M) /\ u.root = t.root
      /\ \A w \in Sides :
            u[w][id] = NULL /\ \A x \in N : u[w][x] = IF w = side /\ x = parent THEN id ELSE t[w][x]
      /\ u.up[id] = parent /\ u.height[id] = 1 /\ u.imbalance[id] = 0
      /\ \A x \in N : /\ u.up[x] = t.up[x] /\ u.height[x] = t.height[x]
                      /\ u.imbalance[x] = t.imbalance[x]
  <2>1. Side(id, parent) \in Sides
    BY <1>2, <1>3
  <2>2. NULL \notin N /\ t \in TreeOf(N) /\ id \notin N /\ id # NULL /\ parent \in N
    BY <1>1, <1>2
  <2>3. /\ HungLeaf(t, id, parent) \in TreeOf(N \cup {id})
        /\ HungLeaf(t, id, parent).root = t.root
        /\ \A w \in Sides :
              /\ HungLeaf(t, id, parent)[w][id] = NULL
              /\ \A x \in N : HungLeaf(t, id, parent)[w][x] =
                                IF w = Side(id, parent) /\ x = parent THEN id ELSE t[w][x]
    BY <2>1, <2>2, HungLeafFields
  <2>4. /\ HungLeaf(t, id, parent).up[id] = parent
        /\ HungLeaf(t, id, parent).height[id] = 1
        /\ HungLeaf(t, id, parent).imbalance[id] = 0
        /\ \A x \in N : /\ HungLeaf(t, id, parent).up[x] = t.up[x]
                        /\ HungLeaf(t, id, parent).height[x] = t.height[x]
                        /\ HungLeaf(t, id, parent).imbalance[x] = t.imbalance[x]
    BY <2>1, <2>2, <2>3, HungLeafFields
  <2> QED BY <2>3, <2>4 DEF u, side, M
<1>5. E = [x \in M |-> IF x = id THEN {id} ELSE IF x \in R THEN D[x] \cup {id} ELSE D[x]]
  BY DEF LeafedUnder, R
<1> HIDE DEF u, E, side
<1>6. /\ E \in [M -> SUBSET M] /\ E[id] = {id}
      /\ \A x \in N : E[x] = IF x \in R THEN D[x] \cup {id} ELSE D[x]
  BY <1>1, <1>5
<1>7. ASSUME NEW x \in N
      PROVE  /\ D[x] = {x} \cup Under(D, t.before[x]) \cup Under(D, t.after[x])
             /\ \A w \in Sides :
                   /\ t[w][x] \in N \cup {NULL}
                   /\ \A q \in Under(D, t[w][x]) : q \in N /\ On(w, q, x)
                   /\ t[w][x] # NULL => t.up[t[w][x]] = x
             /\ t.up[x] \in N \cup {NULL}
             /\ t.up[x] = NULL => t.root = x
             /\ t.up[x] # NULL => \E w \in Sides : t[w][t.up[x]] = x
  <2>1. \A w \in Sides :
           /\ t[w][x] \in N \cup {NULL}
           /\ \A q \in Under(D, t[w][x]) : q \in N /\ On(w, q, x)
           /\ t[w][x] # NULL => t.up[t[w][x]] = x
    BY <1>1, ShapedNode
  <2>2. t.up[x] \in N \cup {NULL}
    BY <1>1 DEF TreeOf
  <2> QED BY <1>1, <2>1, <2>2 DEF Shaped
<1>8. ASSUME NEW x \in N, NEW w \in Sides
      PROVE  Under(E, u[w][x]) = Under(D, t[w][x]) \cup (IF x \in R /\ w = Side(id, x) THEN {id} ELSE {})
  <2>1. CASE w = side /\ x = parent
    <3>1. u[w][x] = id /\ t[w][x] = NULL /\ x \in R /\ w = Side(id, x)
      BY <1>2, <1>4, <2>1 DEF side
    <3> QED BY <1>1, <1>6, <3>1 DEF Under
  <2>2. CASE ~(w = side /\ x = parent)
    <3>1. u[w][x] = t[w][x]
      BY <1>4, <2>2
    <3>2. CASE t[w][x] = NULL
      <4>1. ~(x \in R /\ w = Side(id, x))
        BY <1>2, <2>2, <3>2 DEF side
      <4> QED BY <3>1, <3>2, <4>1 DEF Under
    <3>3. CASE t[w][x] # NULL
      <4>1. t[w][x] \in N /\ (t[w][x] \in R <=> x \in R /\ w = Side(id, x))
        BY <1>2, <1>7, <3>3
      <4> QED BY <1>6, <3>1, <3>3, <4>1 DEF Under
    <3> QED BY <3>2, <3>3
  <2> QED BY <2>1, <2>2
<1>9. u["before"] = u.before /\ u["after"] = u.after /\ t["before"] = t.before /\ t["after"] = t.after
      /\ "before" \in Sides /\ "after" \in Sides
  BY DEF Sides
<1>10. ASSUME NEW x \in M
       PROVE  /\ E[x] = {x} \cup Under(E, u.before[x]) \cup Under(E, u.after[x])
              /\ \A w \in Sides : \A q \in Under(E, u[w][x]) : On(w, q, x)
              /\ \A w \in Sides : u[w][x] # NULL => u.up[u[w][x]] = x
              /\ u.up[x] = NULL => u.root = x
              /\ u.up[x] # NULL => \E w \in Sides : u[w][u.up[x]] = x
  <2>1. CASE x = id
    <3>1. \A w \in Sides : u[w][x] = NULL /\ Under(E, u[w][x]) = {}
      BY <1>4, <2>1 DEF Under
    <3>2. u.before[x] = NULL /\ u.after[x] = NULL
      BY <1>9, <3>1
    <3>3. u[side][parent] = x /\ side \in Sides /\ u.up[x] = parent /\ parent # NULL
      BY <1>1, <1>2, <1>3, <1>4, <2>1 DEF side
    <3> QED BY <1>6, <2>1, <3>1, <3>2, <3>3 DEF Under
  <2>2. CASE x \in N
    <3>1. E[x] = {x} \cup Under(E, u.before[x]) \cup Under(E, u.after[x])
      <4>1. /\ Under(E, u.before[x]) = Under(D, t.before[x])
                    \cup (IF x \in R /\ "before" = Side(id, x) THEN {id} ELSE {})
            /\ Under(E, u.after[x]) = Under(D, t.after[x])
                    \cup (IF x \in R /\ "after" = Side(id, x) THEN {id} ELSE {})
        BY <1>8, <1>9, <2>2
      <4>2. Side(id, x) = "before" \/ Side(id, x) = "after"
        BY <1>3, <2>2 DEF Sides
      <4>3. D[x] = {x} \cup Under(D, t.before[x]) \cup Under(D, t.after[x])
        BY <1>7, <2>2
      <4>4. E[x] = IF x \in R THEN D[x] \cup {id} ELSE D[x]
        BY <1>6, <2>2
      <4> QED BY <4>1, <4>2, <4>3, <4>4
    <3>2. \A w \in Sides : \A q \in Under(E, u[w][x]) : On(w, q, x)
      <4> SUFFICES ASSUME NEW w \in Sides, NEW q \in Under(E, u[w][x]) PROVE On(w, q, x)
        OBVIOUS
      <4>1. q \in Under(D, t[w][x]) \/ (q = id /\ w = Side(id, x))
        BY <1>8, <2>2
      <4>2. CASE q \in Under(D, t[w][x])
        BY <1>7, <2>2, <4>2
      <4>3. CASE q = id /\ w = Side(id, x)
        BY <1>3, <2>2, <4>3
      <4> QED BY <4>1, <4>2, <4>3
    <3>3. ASSUME NEW w \in Sides, u[w][x] # NULL PROVE u.up[u[w][x]] = x
      <4>1. CASE w = side /\ x = parent
        BY <1>4, <2>2, <4>1
      <4>2. CASE ~(w = side /\ x = parent)
        <5>1. u[w][x] = t[w][x]
          BY <1>4, <2>2, <4>2
        <5>2. t[w][x] \in N /\ t.up[t[w][x]] = x
          BY <1>7, <2>2, <3>3, <5>1
        <5> QED BY <1>4, <5>1, <5>2
      <4> QED BY <4>1, <4>2
    <3>4. u.up[x] = t.up[x] /\ u.root = t.root
      BY <1>4, <2>2
    <3>5. ASSUME u.up[x] # NULL PROVE \E w \in Sides : u[w][u.up[x]] = x
      <4>1. t.up[x] \in N
        BY <1>7, <2>2, <3>4, <3>5
      <4>2. PICK w \in Sides : t[w][t.up[x]] = x
        BY <1>7, <2>2, <3>4, <3>5
      <4>3. ~(w = side /\ t.up[x] = parent)
        BY <1>1, <1>2, <2>2, <4>2
      <4> QED BY <1>4, <3>4, <4>1, <4>2, <4>3
    <3> QED BY <1>7, <2>2, <3>1, <3>2, <3>3, <3>4, <3>5
  <2> QED BY <2>1, <2>2
<1>11. Shaped(u, M, E)
  <2>1. M \in SUBSET Int
    BY <1>1
  <2>2. Under(E, u.root) = M
    <3>1. Under(D, t.root) = N
      BY <1>1 DEF Shaped
    <3>2. u.root = t.root /\ u.root # NULL /\ D[t.root] = N
      BY <1>1, <1>2, <1>4, <3>1 DEF Under
    <3> QED BY <1>2, <1>6, <3>2 DEF Under
  <2>3. u.root # NULL => u.up[u.root] = NULL
    <3>1. t.up[t.root] = NULL
      BY <1>1, <1>2 DEF Shaped
    <3> QED BY <1>2, <1>4, <3>1
  <2> HIDE DEF M
  <2> QED BY <1>4, <1>6, <1>10, <2>1, <2>2, <2>3 DEF Shaped
<1>12. \A c \in N \cup {NULL} : HeightOf(u, c) = HeightOf(t, c)
  BY <1>4 DEF HeightOf
<1>13. ASSUME NEW x \in M \ {parent} PROVE Balanced(u, x)
  <2>1. CASE x = id
    <3>1. u.before[x] = NULL /\ u.after[x] = NULL
      BY <1>4, <1>9, <2>1
    <3> QED BY <1>4, <2>1, <3>1 DEF Balanced, Measured, HeightOf
  <2>2. CASE x # id
    <3>1. x \in N /\ Balanced(t, x)
      BY <2>2 DEF Sound
    <3>2. \A w \in Sides : u[w][x] = t[w][x] /\ t[w][x] \in N \cup {NULL}
      BY <1>4, <1>7, <1>13, <3>1
    <3>3. u.before[x] = t.before[x] /\ u.after[x] = t.after[x]
          /\ t.before[x] \in N \cup {NULL} /\ t.after[x] \in N \cup {NULL}
      BY <1>9, <3>2
    <3> QED BY <1>4, <1>12, <3>1, <3>3, StillMeasured
  <2> QED BY <2>1, <2>2
<1>14. u[side][parent] = id /\ Short(u, parent, side, 0) /\ side \in Sides
  <2>1. side \in Sides /\ u[side][parent] = id
    BY <1>2, <1>3, <1>4 DEF side
  <2>2. Other(side) \in Sides /\ Other(side) # side
    BY <2>1, OtherSide
  <2>3. u[Other(side)][parent] = t[Other(side)][parent] /\ t[Other(side)][parent] \in N \cup {NULL}
    BY <1>2, <1>4, <1>7, <2>2
  <2>4. Balanced(t, parent)
    BY <1>2 DEF Sound
  <2>5. LET h == HeightOf(t, t[side][parent])
            k == HeightOf(t, t[Other(side)][parent])
        IN  h \in Nat /\ k \in Nat /\ h - k \in -1..1 /\ t.height[parent] = 1 + Higher(h, k)
    BY <1>1, <1>2, <2>1, <2>4, BalancedSide
  <2>6. HeightOf(t, t[side][parent]) = 0
    BY <1>2 DEF HeightOf
  <2>7. HeightOf(u, u[Other(side)][parent]) = HeightOf(t, t[Other(side)][parent])
        /\ u.height[parent] = t.height[parent]
    BY <1>2, <1>4, <1>12, <2>3
  <2> QED BY <2>1, <2>5, <2>6, <2>7 DEF Short
<1>15. Climbed(u, M, E, parent, id, 0)
  <2>1. id \in M /\ 0 \in Nat /\ u.height[id] \in {0, 0 + 1}
    BY <1>4
  <2> HIDE DEF M
  <2> QED BY <1>4, <1>11, <1>13, <1>14, <2>1 DEF Climbed
<1> QED BY <1>4, <1>15 DEF u, E, parent

---------------------------------------------------------------------------
(* Insertions *)

\* The nodes of the path are balanced one after the other.
LEMMA RebalancedAll ==
  ASSUME NEW N, NEW path \in Seq(N), NEW start
  PROVE  \E acc : /\ acc[0] = start
                  /\ \A m \in 1..Len(path) : acc[m] = Rebalanced(acc[m - 1], path[m])
                  /\ FoldLeft(Rebalanced, start, path) = acc[Len(path)]
<1> DEFINE n == Len(path)
           S == 1..n
           small(m) == {T \in SUBSET S : Cardinality(T) <= m}
           then(g, T) == IF T = {} THEN start ELSE Rebalanced(g[T \ {Max(T)}], path[Max(T)])
           Good == {m \in Nat : \E g : g = [T \in small(m) |-> then(g, T)]}
           all == CHOOSE g : g = [T \in SUBSET S |-> then(g, T)]
<1>0. n \in Nat /\ DOMAIN path = 1..n /\ IsFiniteSet(S)
  BY FS_Interval
<1> HIDE DEF n
<1>1. ASSUME NEW T \in SUBSET S, T # {}
      PROVE  /\ Max(T) \in T /\ T \ {Max(T)} \in SUBSET S
             /\ Cardinality(T) \in Nat \ {0}
             /\ Cardinality(T \ {Max(T)}) = Cardinality(T) - 1
  <2>1. Max(T) \in T
    BY <1>0, <1>1, MaxInSet
  <2>2. IsFiniteSet(T)
    BY <1>0, FS_Subset
  <2>3. Cardinality(T) \in Nat /\ Cardinality(T) # 0
    BY <1>1, <2>2, FS_CardinalityType, FS_EmptySet
  <2> QED BY <2>1, <2>2, <2>3, FS_RemoveElement
<1>2. 0 \in Good
  <2>1. ASSUME NEW T \in small(0) PROVE T = {}
    <3>1. Cardinality(T) <= 0
      OBVIOUS
    <3>2. T # {} => Cardinality(T) \in Nat \ {0}
      BY <1>1
    <3> QED BY <3>1, <3>2
  <2> DEFINE g == [T \in small(0) |-> start]
  <2>2. g = [T \in small(0) |-> then(g, T)]
    BY <2>1
  <2> HIDE DEF g
  <2> QED BY <2>2
<1>3. ASSUME NEW m \in Nat, m \in Good PROVE m + 1 \in Good
  <2>1. PICK g : g = [T \in small(m) |-> then(g, T)]
    BY <1>3
  <2> DEFINE h == [T \in small(m + 1) |-> then(g, T)]
  <2>2. ASSUME NEW T \in small(m + 1) PROVE h[T] = then(h, T)
    <3>1. CASE T = {}
      BY <3>1
    <3>2. CASE T # {}
      <4> DEFINE U == T \ {Max(T)}
      <4>1. U \in small(m) /\ U \in small(m + 1)
        BY <1>1, <3>2
      <4>2. g[U] = then(g, U) /\ h[U] = then(g, U)
        BY <2>1, <4>1
      <4> HIDE DEF U
      <4>3. h[T] = Rebalanced(g[U], path[Max(T)])
        BY <3>2 DEF U
      <4>4. then(h, T) = Rebalanced(h[U], path[Max(T)])
        BY <3>2 DEF U
      <4> HIDE DEF h, then
      <4> QED BY <4>2, <4>3, <4>4
    <3> QED BY <3>1, <3>2
  <2>3. h = [T \in small(m + 1) |-> then(h, T)]
    BY <2>2
  <2> HIDE DEF h
  <2>4. \E k : k = [T \in small(m + 1) |-> then(k, T)]
    BY <2>3, Zenon
  <2> HIDE DEF small, then
  <2> QED BY <2>4
<1>4. \A m \in Nat : m \in Good
  <2> HIDE DEF Good
  <2> QED BY <1>2, <1>3, NumberInduction
<1>5. small(Cardinality(S)) = SUBSET S /\ Cardinality(S) \in Nat
  BY <1>0, FS_CardinalityType, FS_Subset
<1>6. all = [T \in SUBSET S |-> then(all, T)]
  <2>1. \E g : g = [T \in small(Cardinality(S)) |-> then(g, T)]
    <3> HIDE DEF small, then
    <3> QED BY <1>4, <1>5
  <2> HIDE DEF small, then
  <2> QED BY <1>5, <2>1
<1>7. FoldLeft(Rebalanced, start, path) = all[1..n]
  BY <1>0 DEF FoldLeft, MapThenFoldSet
<1> HIDE DEF all
<1> DEFINE acc == [m \in 0..n |-> all[1..m]]
<1>8. acc[0] = start /\ FoldLeft(Rebalanced, start, path) = acc[n]
  <2>1. 1..0 = {} /\ 0 \in 0..n /\ n \in 0..n
    BY <1>0
  <2>2. all[{}] = start
    BY <1>6
  <2> QED BY <1>7, <2>1, <2>2
<1>9. ASSUME NEW m \in 1..n PROVE acc[m] = Rebalanced(acc[m - 1], path[m])
  <2>1. /\ 1..m \in SUBSET (1..n) /\ 1..m # {} /\ Max(1..m) = m
        /\ (1..m) \ {Max(1..m)} = 1..m - 1 /\ m - 1 \in 0..n /\ m \in 0..n
    BY <1>0, FoldPrefix
  <2>2. all[1..m] = Rebalanced(all[1..m - 1], path[m])
    BY <1>6, <2>1
  <2> QED BY <2>1, <2>2
<1> HIDE DEF acc
<1> QED BY <1>8, <1>9 DEF n

\* An insertion leaves a sound tree, with the new id among its nodes.
LEMMA InsertedSound ==
  ASSUME LongBytes >= IdBytes, NEW D, Sound(tree, Nodes, D), NEW id \in Int \ Nodes
  PROVE  \E E : Sound(Inserted(id), Nodes \cup {id}, E)
<1> DEFINE N == Nodes
           M == N \cup {id}
           s == Ancestors(id)
           n == Len(s)
           start == HungLeaf(tree, id, s[1])
           above(i) == IF i < n THEN s[i + 1] ELSE NULL
<1>1. /\ Shaped(tree, N, D) /\ N \subseteq Int /\ NULL \notin N /\ id # NULL /\ id \in Int
      /\ id \notin N
  <2>1. Shaped(tree, N, D)
    BY DEF Sound
  <2>2. N \subseteq Int /\ NULL \notin N
    BY <2>1, ShapedNodes
  <2>3. id # NULL
    BY NullAssumption
  <2> QED BY <2>1, <2>2, <2>3
<1>2. Path(tree, N, id, s, tree.root) /\ Sound(tree, N, D)
  BY <1>1, AncestorsAre
<1>3. Inserted(id) = IF s = <<>> THEN [Leafed(tree, id) EXCEPT !.root = id]
                     ELSE FoldLeft(Rebalanced, [Leafed(tree, id) EXCEPT !.up[id] = Head(s),
                                                    ![Side(id, Head(s))][Head(s)] = id], s)
  BY DEF Inserted, Leafed
<1> HIDE DEF N, s
<1>4. CASE s = <<>>
  <2> DEFINE l == Leafed(tree, id)
             u == [l EXCEPT !.root = id]
             E == [x \in {id} |-> {id}]
  <2>1. tree.root = NULL
    BY <1>2, <1>4 DEF Path
  <2>2. N = {} /\ M = {id} /\ tree \in TreeOf(N)
    BY <1>1, <2>1 DEF Shaped, Under
  <2>3. /\ l \in TreeOf(M) /\ \A w \in Sides : l[w][id] = NULL
        /\ l.up[id] = NULL /\ l.height[id] = 1 /\ l.imbalance[id] = 0
    <3>1. l \in TreeOf(N \cup {id})
      BY <1>1, <2>2, LeafedFields
    <3>2. /\ \A w \in Sides : l[w][id] = NULL
          /\ l.up[id] = NULL /\ l.height[id] = 1 /\ l.imbalance[id] = 0
      BY <1>1, <2>2, <3>1, LeafedFields
    <3> QED BY <3>1, <3>2
  <2> HIDE DEF l
  <2>4. /\ u \in TreeOf(M) /\ u.root = id /\ u.before = l.before /\ u.after = l.after
        /\ u.up = l.up /\ u.height = l.height /\ u.imbalance = l.imbalance
    BY <2>3 DEF TreeOf
  <2> HIDE DEF u
  <2>5. /\ \A w \in Sides : u[w][id] = NULL
        /\ u.before[id] = NULL /\ u.after[id] = NULL /\ u.up[id] = NULL
    BY <2>3, <2>4 DEF Sides
  <2>6. E \in [M -> SUBSET M] /\ E[id] = {id}
    BY <2>2
  <2> HIDE DEF E
  <2>7. Shaped(u, M, E)
    BY <1>1, <2>2, <2>4, <2>5, <2>6 DEF Shaped, Under
  <2>8. Balanced(u, id)
    BY <2>3, <2>4, <2>5 DEF Balanced, Measured, HeightOf
  <2>9. Sound(u, M, E)
    BY <2>2, <2>7, <2>8 DEF Sound
  <2> QED BY <1>3, <1>4, <2>9 DEF u, l, N
<1>5. CASE s # <<>>
  <2>1. /\ n \in Nat /\ \A i \in 1..n : s[i] \in N
        /\ \A i \in 1..n : tree.up[s[i]] = above(i)
        /\ \A i, k \in 1..n : i < k => s[k] \notin D[s[i]]
    BY <1>1, <1>2, PathAbove
  <2>2. s \in Seq(N) /\ n >= 1 /\ Head(s) = s[1]
    <3>1. s \in Seq(N)
      BY <1>2 DEF Path
    <3> QED BY <1>5, <3>1
  <2>3. PICK acc : /\ acc[0] = start
                   /\ \A m \in 1..n : acc[m] = Rebalanced(acc[m - 1], s[m])
                   /\ FoldLeft(Rebalanced, start, s) = acc[n]
    BY <2>2, RebalancedAll
  <2>4. Inserted(id) = acc[n]
    BY <1>3, <1>5, <2>2, <2>3 DEF HungLeaf
  <2>5. /\ Climbed(start, M, LeafedUnder(N, D, id, s), s[1], id, 0)
        /\ \A x \in N : start.up[x] = tree.up[x]
    <3>1. id \in Int \ N
      BY <1>1
    <3>2. HungOn(tree, N, D, id, s)
      BY <1>2, <1>5, <3>1, LeafClimbs
    <3> HIDE DEF N
    <3> QED BY <3>2 DEF HungOn
  <2> DEFINE Inv(i) ==
        \E E, c, was : /\ Climbed(acc[i], M, E, above(i), c, was)
                       /\ \A j, k \in 1..n : i < j /\ j < k => s[k] \notin E[s[j]]
                       /\ \A j \in 1..n : i < j => acc[i].up[s[j]] = above(j)
             Good == {i \in Nat : i <= n => Inv(i)}
  <2> HIDE DEF n, start
  <2>6. 0 \in Good
    <3> DEFINE E == LeafedUnder(N, D, id, s)
    <3>1. Climbed(acc[0], M, E, above(0), id, 0)
      <4>1. above(0) = s[1]
        BY <2>1, <2>2
      <4> HIDE DEF above, M, E
      <4> QED BY <2>3, <2>5, <4>1 DEF E
    <3>2. ASSUME NEW j \in 1..n, NEW k \in 1..n, 0 < j, j < k PROVE s[k] \notin E[s[j]]
      <4>1. s[k] \in N /\ s[j] \in N /\ s[k] \notin D[s[j]] /\ s[k] # id
        BY <1>1, <2>1, <3>2
      <4> QED BY <1>1, <4>1 DEF LeafedUnder
    <3>3. \A j \in 1..n : acc[0].up[s[j]] = above(j)
      BY <2>1, <2>3, <2>5
    <3> HIDE DEF E, above
    <3>4. Inv(0)
      BY <3>1, <3>2, <3>3
    <3> HIDE DEF Inv
    <3> QED BY <3>4
  <2>7. ASSUME NEW i \in Nat, i \in Good PROVE i + 1 \in Good
    <3> SUFFICES ASSUME i + 1 <= n PROVE Inv(i + 1)
      OBVIOUS
    <3>1. i + 1 \in 1..n /\ i < n /\ above(i) = s[i + 1] /\ (i + 1) - 1 = i /\ i <= n
      BY <2>1
    <3>2. Inv(i)
      BY <2>7, <3>1
    <3>3. PICK E, c, was : /\ Climbed(acc[i], M, E, above(i), c, was)
                           /\ \A j, k \in 1..n : i < j /\ j < k => s[k] \notin E[s[j]]
                           /\ \A j \in 1..n : i < j => acc[i].up[s[j]] = above(j)
      BY <3>2
    <3> DEFINE p == s[i + 1]
    <3>4. p \in M /\ Climbed(acc[i], M, E, p, c, was)
      BY <2>1, <3>1, <3>3
    <3>5. acc[i + 1] = Rebalanced(acc[i], p) /\ acc[i].up[p] = above(i + 1)
      BY <2>3, <3>1, <3>3
    <3>6. PICK F, d : /\ Climbed(Rebalanced(acc[i], p), M, F, acc[i].up[p], d, acc[i].height[p])
                      /\ \A x \in M \ E[p] : F[x] = E[x]
                      /\ \A x \in M \ E[p] : Rebalanced(acc[i], p).up[x] = acc[i].up[x]
      <4> DEFINE t == acc[i]
      <4>1. p \in M /\ Climbed(t, M, E, p, c, was)
        BY <3>4
      <4> HIDE DEF p, M, above, t
      <4>2. Raised(t, M, E, p)
        BY <4>1, RebalanceStep
      <4> QED BY <4>2 DEF Raised, t
    <3>7. Climbed(acc[i + 1], M, F, above(i + 1), d, acc[i].height[p])
      BY <3>5, <3>6
    <3>8. ASSUME NEW j \in 1..n, i + 1 < j PROVE s[j] \in M \ E[p] /\ i < j
      BY <2>1, <3>1, <3>3, <3>8
    <3>9. \A j, k \in 1..n : i + 1 < j /\ j < k => s[k] \notin F[s[j]]
      <4> SUFFICES ASSUME NEW j \in 1..n, NEW k \in 1..n, i + 1 < j, j < k
                   PROVE  s[k] \notin F[s[j]]
        OBVIOUS
      <4>1. F[s[j]] = E[s[j]] /\ i < j
        BY <3>6, <3>8
      <4> QED BY <3>3, <4>1
    <3>10. \A j \in 1..n : i + 1 < j => acc[i + 1].up[s[j]] = above(j)
      <4> SUFFICES ASSUME NEW j \in 1..n, i + 1 < j PROVE acc[i + 1].up[s[j]] = above(j)
        OBVIOUS
      <4>1. s[j] \in M \ E[p] /\ i < j
        BY <3>8
      <4>2. acc[i].up[s[j]] = above(j)
        BY <3>3, <4>1
      <4> HIDE DEF p, above
      <4> QED BY <3>5, <3>6, <4>1, <4>2
    <3> HIDE DEF p, above
    <3> QED BY <3>7, <3>9, <3>10
  <2>8. n \in Good
    <3> HIDE DEF Good
    <3> QED BY <2>1, <2>6, <2>7, NumberInduction
  <2>9. Inv(n)
    <3> HIDE DEF Inv
    <3> QED BY <2>1, <2>8
  <2>10. above(n) = NULL
    BY <2>1
  <2>11. PICK E, c, was : Climbed(acc[n], M, E, NULL, c, was)
    BY <2>9, <2>10
  <2>12. Sound(acc[n], M, E)
    <3>1. \A x \in M : x # NULL
      BY <1>1
    <3> HIDE DEF M
    <3> QED BY <2>11, <3>1 DEF Climbed, Sound
  <2> QED BY <2>4, <2>12 DEF N
<1> QED BY <1>4, <1>5

---------------------------------------------------------------------------
(* Pixels *)

\* The powers of two NSides chooses from.
Doubled(power) == power = [n \in 0..22 |-> IF n = 0 THEN 1 ELSE 2 * power[n - 1]]

\* The powers of two that NSides chooses from.
LEMMA PowersOfTwo ==
  ASSUME NEW power, Doubled(power)
  PROVE  /\ \A n \in 0..19 : power[n] \in Nat \ {0} /\ power[n] <= 524288
         /\ power[20] = 1048576
         /\ \A n \in 0..22 : power[n] \in Nat
<1>1. power[0] = 1 /\ \A n \in 1..22 : power[n] = 2 * power[n - 1]
  BY DEF Doubled
<1>2. /\ power[1] = 2 /\ power[2] = 4 /\ power[3] = 8 /\ power[4] = 16 /\ power[5] = 32
      /\ power[6] = 64 /\ power[7] = 128
  BY <1>1
<1>3. /\ power[8] = 256 /\ power[9] = 512 /\ power[10] = 1024 /\ power[11] = 2048
      /\ power[12] = 4096 /\ power[13] = 8192 /\ power[14] = 16384
  BY <1>1, <1>2
<1>4. /\ power[15] = 32768 /\ power[16] = 65536 /\ power[17] = 131072 /\ power[18] = 262144
      /\ power[19] = 524288 /\ power[20] = 1048576
  BY <1>1, <1>3
<1>5. power[21] = 2097152 /\ power[22] = 4194304
  BY <1>1, <1>4
<1> QED BY <1>1, <1>2, <1>3, <1>4, <1>5

LEMMA PowersExist ==
  \E power : Doubled(power)
<1> DEFINE step == [x \in (1..22) \X Nat |-> 2 * x[2]]
<1>1. \A i \in 1..22 : \A a \in Nat : step[<<i, a>>] = 2 * a /\ step[<<i, a>>] \in Nat
  OBVIOUS
<1>2. PICK g : StepsRecursion(22, 1, step, g) /\ \A k \in 0..22 : g[k] \in Nat
  <2> HIDE DEF step
  <2> QED BY <1>1, StepsDefined
<1>3. \A k \in 1..22 : step[<<k, g[k - 1]>>] = 2 * g[k - 1]
  <2>1. \A k \in 1..22 : g[k - 1] \in Nat
    BY <1>2
  <2> HIDE DEF step
  <2> QED BY <1>1, <2>1
<1>4. g = [k \in 0..22 |-> IF k = 0 THEN 1 ELSE step[<<k, g[k - 1]>>]]
  BY <1>2 DEF StepsRecursion
<1>5. g = [k \in 0..22 |-> IF k = 0 THEN 1 ELSE 2 * g[k - 1]]
  <2> HIDE DEF step
  <2>1. ASSUME NEW k \in 0..22
        PROVE  (IF k = 0 THEN 1 ELSE step[<<k, g[k - 1]>>]) = IF k = 0 THEN 1 ELSE 2 * g[k - 1]
    <3>1. k # 0 => k \in 1..22
      OBVIOUS
    <3> QED BY <1>3, <3>1
  <2> QED BY <1>4, <2>1
<1> QED BY <1>5 DEF Doubled

\* A pixel has a width: the resolution is never finer than the unit.
LEMMA PixelSideIs ==
  PixelSide \in Nat \ {0}
<1> DEFINE power[n \in 0..22] == IF n = 0 THEN 1 ELSE 2 * power[n - 1]
           rings == Min({180 * 36000, 2100000 * Radius})
           good == {n \in 0..22 : 4 * Radius * (power[n] - 1) >= rings}
           pow == Min(good)
           nsides == 2 * power[IF pow > 0 THEN pow - 1 ELSE pow]
<1>1. NSides = nsides
  BY DEF NSides
<1>2. Doubled(power)
  <2>1. PICK g : Doubled(g)
    BY PowersExist
  <2> QED BY <2>1, Zenon DEF Doubled
<1> HIDE DEF power
<1>3. /\ \A n \in 0..19 : power[n] \in Nat \ {0} /\ power[n] <= 524288
      /\ power[20] = 1048576 /\ \A n \in 0..22 : power[n] \in Nat
  BY <1>2, PowersOfTwo
<1>4. rings \in Nat /\ rings <= 2100000 * Radius
  <2>1. {180 * 36000, 2100000 * Radius} \subseteq Nat
    BY RadiusAssumption
  <2> QED BY <2>1, MinInSet
<1> HIDE DEF rings
<1>5. 20 \in good
  BY <1>3, <1>4, RadiusAssumption
<1>6. pow \in good /\ pow <= 20
  <2>1. good \subseteq Nat
    OBVIOUS
  <2> HIDE DEF good
  <2> QED BY <1>5, <2>1, MinInSet
<1>7. pow \in 0..20
  BY <1>6
<1> HIDE DEF pow
<1>8. nsides \in Nat \ {0} /\ nsides <= 1048576
  BY <1>3, <1>7
<1> HIDE DEF nsides
<1>9. 2110763 \div nsides \in Nat \ {0}
  BY <1>8
<1> QED BY <1>1, <1>9 DEF PixelSide

---------------------------------------------------------------------------
(* The store *)

\* What StoreSound rests on: the tree is a search tree, balanced at every node,
\* and what pixelids may take up doubles before it is full.
StoreInv ==
    /\ \E D : Sound(tree, Nodes, D)
    /\ pixelids \in Seq(Int) /\ IsInjective(pixelids) /\ Range(pixelids) = Nodes
    /\ DOMAIN samples = Nodes
    /\ size \in Nat \ {0} /\ room \in Nat
    /\ Len(pixelids) <= size /\ size * IdBytes <= room

\* The detections do not move.
SkyInv == /\ field \in Seq(Int) /\ pos \in [Samples -> Int] /\ epoch \in [Samples -> Int]
          /\ turn \in Nat

\* The detections are counted from one: 0 is none of them.
LEMMA NoZero == ASSUME SkyInv PROVE 0 \notin Samples
<1>1. Len(field) \in Nat
  BY DEF SkyInv
<1> QED BY <1>1 DEF Samples

LEMMA StoreInvSound ==
  ASSUME LongBytes >= IdBytes, StoreInv
  PROVE  StoreSound
<1>1. PICK D : Sound(tree, Nodes, D)
  BY DEF StoreInv
<1>2. ASSUME NEW p \in Nodes PROVE Search(p) = p /\ tree.imbalance[p] \in -1..1
  <2>1. p \in Int
    BY <1>1 DEF Sound, Shaped
  <2>2. Search(p) = IF p \in Nodes THEN p ELSE NULL
    BY <1>1, <2>1, SearchIs
  <2>3. Balanced(tree, p)
    BY <1>1 DEF Sound
  <2> QED BY <2>2, <2>3 DEF Balanced
<1>3. Len(pixelids) * IdBytes <= room
  <2>1. Len(pixelids) \in Nat /\ size \in Nat /\ room \in Nat /\ IdBytes \in Nat
    BY StoreAssumption DEF StoreInv
  <2>2. Len(pixelids) <= size /\ size * IdBytes <= room
    BY DEF StoreInv
  <2>3. Len(pixelids) * IdBytes <= size * IdBytes
    BY <2>1, <2>2
  <2> QED BY <2>1, <2>2, <2>3
<1> QED BY <1>2, <1>3 DEF StoreInv, StoreSound

LEMMA NewStore ==
  PixelStore_new => StoreInv
<1> SUFFICES ASSUME PixelStore_new PROVE StoreInv
  OBVIOUS
<1>1. /\ tree = [root |-> NULL, before |-> <<>>, after |-> <<>>, up |-> <<>>,
                 height |-> <<>>, imbalance |-> <<>>]
      /\ samples = <<>> /\ pixelids = <<>>
      /\ size = BaseSize /\ room = BaseSize * IdBytes
  BY DEF PixelStore_new
<1>2. Nodes = {} /\ DOMAIN samples = {} /\ Range(pixelids) = {}
  BY <1>1 DEF Nodes, Range
<1> DEFINE D == [x \in {} |-> {}]
<1>3. tree \in TreeOf({})
  <2>1. <<>> \in [{} -> {} \cup {NULL}] /\ <<>> \in [{} -> Nat] /\ <<>> \in [{} -> Int]
    OBVIOUS
  <2> QED BY <1>1, <2>1 DEF TreeOf
<1>4. Sound(tree, Nodes, D)
  BY <1>1, <1>2, <1>3 DEF Sound, Shaped, Under
<1>5. pixelids \in Seq(Int) /\ IsInjective(pixelids) /\ Len(pixelids) = 0
  BY <1>1 DEF IsInjective
<1>6. BaseSize \in Nat \ {0} /\ IdBytes \in Nat
  BY StoreAssumption
<1>7. size \in Nat \ {0} /\ room \in Nat /\ size * IdBytes <= room
  BY <1>1, <1>6
<1> QED BY <1>1, <1>2, <1>4, <1>5, <1>7 DEF StoreInv

\* An id that is not found is appended to pixelids, which has room for it.
LEMMA ListGrows ==
  ASSUME LongBytes >= IdBytes, NEW s, NEW id \in Int,
         StoreInv, Search(id) = NULL, id \notin Nodes, PixelStore_add(s, id)
  PROVE  /\ pixelids' \in Seq(Int) /\ IsInjective(pixelids')
         /\ Range(pixelids') = Nodes \cup {id}
         /\ size' \in Nat \ {0} /\ room' \in Nat
         /\ Len(pixelids') <= size' /\ size' * IdBytes <= room'
<1>1. /\ pixelids' = Append(pixelids, id)
      /\ IF size = Len(pixelids) THEN size' = 2 * size /\ room' = 2 * size * LongBytes
         ELSE UNCHANGED <<size, room>>
  BY DEF PixelStore_add
<1>2. /\ pixelids \in Seq(Int) /\ IsInjective(pixelids) /\ Range(pixelids) = Nodes
      /\ size \in Nat \ {0} /\ room \in Nat /\ Len(pixelids) \in Nat
      /\ Len(pixelids) <= size /\ size * IdBytes <= room
  BY DEF StoreInv
<1>3. /\ pixelids' \in Seq(Int) /\ Len(pixelids') = Len(pixelids) + 1
      /\ pixelids'[Len(pixelids) + 1] = id
      /\ \A i \in 1..Len(pixelids) : pixelids'[i] = pixelids[i]
      /\ DOMAIN pixelids = 1..Len(pixelids) /\ DOMAIN pixelids' = 1..Len(pixelids')
  BY <1>1, <1>2
<1>4. \A i \in 1..Len(pixelids) : pixelids[i] \in Nodes
  BY <1>2, <1>3 DEF Range
<1>5. IsInjective(pixelids')
  <2> SUFFICES ASSUME NEW i \in 1..Len(pixelids'), NEW j \in 1..Len(pixelids'),
                      pixelids'[i] = pixelids'[j]
               PROVE  i = j
    BY <1>3 DEF IsInjective
  <2>1. i \in 1..Len(pixelids) \/ i = Len(pixelids) + 1
    BY <1>2, <1>3
  <2>2. j \in 1..Len(pixelids) \/ j = Len(pixelids) + 1
    BY <1>2, <1>3
  <2>3. \A k \in 1..Len(pixelids) : pixelids'[k] # id
    BY <1>3, <1>4
  <2>4. ASSUME i \in 1..Len(pixelids), j \in 1..Len(pixelids) PROVE i = j
    BY <1>2, <1>3, <2>4 DEF IsInjective
  <2> QED BY <1>3, <2>1, <2>2, <2>3, <2>4
<1>6. Range(pixelids') = Nodes \cup {id}
  <2>1. \A x : x \in Range(pixelids') <=> \E i \in 1..Len(pixelids') : x = pixelids'[i]
    BY <1>3 DEF Range
  <2>2. \A x : x \in Nodes <=> \E i \in 1..Len(pixelids) : x = pixelids[i]
    BY <1>2, <1>3 DEF Range
  <2>3. 1..Len(pixelids') = 1..Len(pixelids) \cup {Len(pixelids) + 1}
    BY <1>2, <1>3
  <2> QED BY <1>3, <2>1, <2>2, <2>3
<1>7. IdBytes \in Nat \ {0} /\ LongBytes \in Nat \ {0}
  BY StoreAssumption
<1>8. CASE size = Len(pixelids)
  <2>1. size' = 2 * size /\ room' = 2 * size * LongBytes
    BY <1>1, <1>8
  <2>2. size' \in Nat \ {0} /\ Len(pixelids') <= size'
    BY <1>2, <1>3, <1>8, <2>1
  <2>3. room' \in Nat /\ size' * IdBytes <= room'
    <3> DEFINE k == 2 * size
    <3>1. k \in Nat /\ k * IdBytes <= k * LongBytes /\ k * LongBytes \in Nat
      <4>1. k \in Nat
        BY <1>2
      <4> HIDE DEF k
      <4> QED BY <1>7, <4>1
    <3> QED BY <2>1, <3>1
  <2> QED BY <1>3, <1>5, <1>6, <2>2, <2>3
<1>9. CASE size # Len(pixelids)
  <2>1. size' = size /\ room' = room
    BY <1>1, <1>9
  <2>2. Len(pixelids') <= size'
    <3>1. size \in Nat /\ Len(pixelids) \in Nat /\ Len(pixelids) <= size
      BY <1>2
    <3>2. Len(pixelids') = Len(pixelids) + 1
      BY <1>3
    <3> QED BY <1>9, <2>1, <3>1, <3>2
  <2> QED BY <1>2, <1>3, <1>5, <1>6, <2>1, <2>2
<1> QED BY <1>8, <1>9

\* PixelStore_add keeps the tree sound and pixelids within its memory.
LEMMA AddedStore ==
  ASSUME LongBytes >= IdBytes, NEW s, NEW id \in Int, StoreInv, PixelStore_add(s, id)
  PROVE  StoreInv'
<1>1. PICK D : Sound(tree, Nodes, D)
  BY DEF StoreInv
<1>2. Search(id) = IF id \in Nodes THEN id ELSE NULL
  BY <1>1, SearchIs
<1>3. id # NULL
  BY NullAssumption
<1>4. CASE id \in Nodes
  <2>1. /\ samples' = [samples EXCEPT ![id] = Append(@, s)]
        /\ UNCHANGED <<tree, pixelids, size, room>>
    BY <1>2, <1>3, <1>4 DEF PixelStore_add
  <2>2. DOMAIN samples' = DOMAIN samples
    BY <2>1
  <2> QED BY <2>1, <2>2 DEF StoreInv, Nodes
<1>5. CASE id \notin Nodes
  <2>1. tree' = Inserted(id) /\ samples' = With(samples, id, <<s>>)
    BY <1>2, <1>5 DEF PixelStore_add
  <2>2. PICK E : Sound(Inserted(id), Nodes \cup {id}, E)
    BY <1>1, <1>5, InsertedSound
  <2>3. DOMAIN tree'.up = Nodes \cup {id}
    BY <2>1, <2>2 DEF Sound, Shaped, TreeOf
  <2>4. Nodes' = Nodes \cup {id} /\ \E F : Sound(tree', Nodes', F)
    BY <2>1, <2>2, <2>3 DEF Nodes
  <2>5. DOMAIN samples' = Nodes'
    BY <2>1, <2>4 DEF With, StoreInv
  <2>6. /\ pixelids' \in Seq(Int) /\ IsInjective(pixelids')
        /\ Range(pixelids') = Nodes \cup {id}
        /\ size' \in Nat \ {0} /\ room' \in Nat
        /\ Len(pixelids') <= size' /\ size' * IdBytes <= room'
    BY <1>2, <1>5, ListGrows
  <2> QED BY <2>4, <2>5, <2>6 DEF StoreInv
<1> QED BY <1>4, <1>5

\* Sorting the pixels touches neither.
LEMMA SortedStore ==
  ASSUME NEW before, StoreInv, PixelStore_sort(before)
  PROVE  StoreInv'
<1>1. /\ DOMAIN samples' = Nodes
      /\ tree' = tree /\ pixelids' = pixelids /\ size' = size /\ room' = room
  BY DEF PixelStore_sort
<1>2. Nodes' = Nodes
  BY <1>1 DEF Nodes
<1> QED BY <1>1, <1>2 DEF StoreInv

---------------------------------------------------------------------------

LEMMA SkyFirst ==
  Init => SkyInv /\ StoreInv
<1> SUFFICES ASSUME Init PROVE SkyInv /\ StoreInv
  OBVIOUS
<1>1. PICK s \in Skies : field = s.field /\ pos = s.pos /\ epoch = s.epoch
  BY DEF Init
<1>2. SkyInv
  BY <1>1, SkiesType DEF Init, SkyInv, Samples
<1>3. PixelStore_new
  BY DEF Init
<1> QED BY <1>2, <1>3, NewStore

LEMMA SkyNext ==
  SkyInv /\ [Next]_vars => SkyInv'
<1> SUFFICES ASSUME SkyInv, [Next]_vars PROVE SkyInv'
  OBVIOUS
<1>1. field' = field /\ pos' = pos /\ epoch' = epoch
  BY DEF Next, Match, AddSample, SortPixels, NextSample, Refuse, Link, Return, Matched,
         MoveRef, Finish, vars, sky
<1>2. turn' \in Nat
  <2>1. turn' = turn \/ turn' = turn + 1 \/ turn' = 0
    BY DEF Next, Match, AddSample, SortPixels, NextSample, Refuse, Link, Return, Matched,
           MoveRef, Finish, vars
  <2> QED BY <2>1 DEF SkyInv
<1> QED BY <1>1, <1>2 DEF SkyInv, Samples

LEMMA PixelOfIs ==
  ASSUME SkyInv, NEW s \in Samples
  PROVE  PixelOf(s) \in Int
<1>1. pos[s] \in Int
  BY DEF SkyInv
<1> QED BY <1>1, PixelSideIs DEF PixelOf

\* Every step keeps the store.
LEMMA StoreNext ==
  ASSUME LongBytes >= IdBytes, SkyInv, StoreInv, [Next]_vars
  PROVE  StoreInv'
<1>1. CASE AddSample
  <2>1. turn + 1 \in Samples
    BY <1>1 DEF AddSample, SkyInv, Samples
  <2>2. PixelOf(turn + 1) \in Int
    BY <2>1, PixelOfIs
  <2>3. PixelStore_add(turn + 1, PixelOf(turn'))
    BY <1>1 DEF AddSample
  <2> QED BY <1>1, <2>2, <2>3, AddedStore DEF AddSample
<1>2. CASE SortPixels
  BY <1>2, SortedStore DEF SortPixels
<1>3. CASE Match \/ UNCHANGED vars
  <2>1. /\ tree' = tree /\ samples' = samples /\ pixelids' = pixelids
        /\ size' = size /\ room' = room
    BY <1>3 DEF Match, NextSample, Refuse, Link, Return, Matched, MoveRef, Finish, vars,
                stored, store
  <2>2. Nodes' = Nodes
    BY <2>1 DEF Nodes
  <2> QED BY <2>1, <2>2 DEF StoreInv
<1> QED BY <1>1, <1>2, <1>3 DEF Next

\* Every insertion leaves a balanced search tree, and pixelids in step with it.
THEOREM StoreSoundHolds ==
  LongBytes >= IdBytes => (Spec => []StoreSound)
<1> SUFFICES ASSUME LongBytes >= IdBytes PROVE Spec => []StoreSound
  OBVIOUS
<1> DEFINE Inv == SkyInv /\ StoreInv
<1>1. Init => Inv
  BY SkyFirst
<1>2. Inv /\ [Next]_vars => Inv'
  BY SkyNext, StoreNext
<1>3. Inv => StoreSound
  BY StoreInvSound
<1> QED BY <1>1, <1>2, <1>3, PTL DEF Spec

---------------------------------------------------------------------------
(* Sorted pixels *)

\* Sorting a pixel permutes it.
LEMMA InOrderIs ==
  ASSUME NEW T, NEW pixel \in Seq(T), IsInjective(pixel), NEW R, StrictOrder(Range(pixel), R)
  PROVE  /\ InOrder(pixel, R) \in Seq(T) /\ IsInjective(InOrder(pixel, R))
         /\ Range(InOrder(pixel, R)) = Range(pixel)
         /\ Len(InOrder(pixel, R)) = Len(pixel)
         /\ \A i, j \in 1..Len(pixel) :
               i < j => <<InOrder(pixel, R)[i], InOrder(pixel, R)[j]>> \in R
<1> DEFINE S == Range(pixel)
           n == Len(pixel)
           q == InOrder(pixel, R)
<1>1. /\ IsFiniteSet(S) /\ Cardinality(S) = n /\ n \in Nat /\ DOMAIN pixel = 1..n
      /\ \A x \in S : \E i \in 1..n : pixel[i] = x
  BY InjectiveSeq
<1>2. S \subseteq T
  <2>1. \A i \in 1..n : pixel[i] \in T
    OBVIOUS
  <2> QED BY <1>1, <2>1
<1> HIDE DEF S
<1>3. /\ \A a, b \in S : RankBy(S, R, a) < RankBy(S, R, b) <=> <<a, b>> \in R
      /\ \A a \in S : RankBy(S, R, a) \in 0..n - 1
      /\ \A k \in 0..n - 1 : \E a \in S : RankBy(S, R, a) = k
  <2>1. StrictOrder(S, R)
    BY DEF S
  <2> QED BY <1>1, <2>1, OrderRanks
<1>4. q = [i \in 1..n |-> CHOOSE s \in S : RankBy(S, R, s) = i - 1]
  BY <1>1 DEF InOrder, RankBy, S
<1>5. ASSUME NEW i \in 1..n PROVE q[i] \in S /\ RankBy(S, R, q[i]) = i - 1
  <2>1. i - 1 \in 0..n - 1 /\ q[i] = CHOOSE s \in S : RankBy(S, R, s) = i - 1
    BY <1>1, <1>4
  <2> QED BY <1>3, <2>1
<1>6. DOMAIN q = 1..n /\ q = [i \in 1..n |-> q[i]]
  BY <1>4
<1> HIDE DEF q, n
<1>7. q \in Seq(T) /\ Len(q) = n
  <2>1. q \in [1..n -> T]
    BY <1>2, <1>5, <1>6
  <2> QED BY <1>1, <2>1
<1>8. IsInjective(q)
  <2> SUFFICES ASSUME NEW i \in 1..n, NEW j \in 1..n, q[i] = q[j] PROVE i = j
    BY <1>6 DEF IsInjective
  <2>1. i - 1 = j - 1
    BY <1>5
  <2> QED BY <1>1, <2>1
<1>9. Range(q) = S
  <2>1. ASSUME NEW x \in S PROVE \E i \in 1..n : q[i] = x
    <3>1. PICK i \in 1..n : i = RankBy(S, R, x) + 1
      <4>1. RankBy(S, R, x) \in 0..n - 1
        BY <1>3
      <4> QED BY <1>1, <4>1
    <3>2. RankBy(S, R, q[i]) = RankBy(S, R, x) /\ q[i] \in S
      <4>1. RankBy(S, R, x) \in 0..n - 1
        BY <1>3
      <4> QED BY <1>1, <1>5, <3>1, <4>1
    <3>3. q[i] = x
      <4>1. IsFiniteSet(S) /\ StrictOrder(S, R)
        BY <1>1 DEF S
      <4> QED BY <3>2, <4>1, OrderRanks
    <3> QED BY <3>3
  <2> QED BY <1>5, <1>6, <2>1 DEF Range
<1>10. ASSUME NEW i \in 1..n, NEW j \in 1..n, i < j PROVE <<q[i], q[j]>> \in R
  <2>1. RankBy(S, R, q[i]) < RankBy(S, R, q[j])
    BY <1>1, <1>5, <1>10
  <2> QED BY <1>3, <1>5, <2>1
<1> QED BY <1>7, <1>8, <1>9, <1>10 DEF q, n, S

\* The recursion of Bisect.
Halving(pixel, above, g) ==
    g = [r \in (0..Len(pixel)) \X (0..Len(pixel)) |->
            LET min == r[1]
                max == r[2]
                i == (min + max) \div 2
            IN  CASE min >= max -> max
                  [] min < max /\ pixel[i + 1] \in above -> g[<<min, i>>]
                  [] OTHER -> g[<<i + 1, max>>]]

\* The binary search comes to an end: its recursion has a solution.
LEMMA HalvingExists ==
  ASSUME NEW T, NEW pixel \in Seq(T), NEW above
  PROVE  \E g : Halving(pixel, above, g)
<1> DEFINE n == Len(pixel)
           S == (0..n) \X (0..n)
           end == <<-1, -1>>
           half(x) == (x[1] + x[2]) \div 2
           link == [x \in S |-> IF x[1] >= x[2] THEN end
                                ELSE IF pixel[half(x) + 1] \in above THEN <<x[1], half(x)>>
                                ELSE <<half(x) + 1, x[2]>>]
           rank == [x \in S |-> IF x[1] >= x[2] THEN 0 ELSE x[2] - x[1]]
           A == 0..n
           step == [y \in S \X A |-> IF y[1][1] >= y[1][2] THEN y[1][2] ELSE y[2]]
<1>1. n \in Nat
  OBVIOUS
<1> HIDE DEF n
<1>2. ASSUME NEW x \in S
      PROVE  /\ x[1] \in 0..n /\ x[2] \in 0..n
             /\ x[1] < x[2] => half(x) \in x[1]..x[2] - 1 /\ half(x) \in 0..n
                               /\ half(x) + 1 \in 0..n
  BY <1>1
<1> HIDE DEF half
<1>3. ASSUME NEW x \in S
      PROVE  /\ link[x] \in S \cup {end} /\ rank[x] \in Nat
             /\ link[x] # end => link[x] \in S /\ rank[link[x]] < rank[x]
  <2>1. CASE x[1] >= x[2]
    BY <1>2, <2>1
  <2>2. CASE x[1] < x[2] /\ pixel[half(x) + 1] \in above
    <3>1. link[x] = <<x[1], half(x)>> /\ link[x] \in S /\ rank[x] = x[2] - x[1]
      BY <1>1, <1>2, <2>2
    <3>2. rank[link[x]] \in {0, half(x) - x[1]}
      BY <3>1
    <3> QED BY <1>1, <1>2, <2>2, <3>1, <3>2
  <2>3. CASE x[1] < x[2] /\ pixel[half(x) + 1] \notin above
    <3>1. link[x] = <<half(x) + 1, x[2]>> /\ link[x] \in S /\ rank[x] = x[2] - x[1]
      BY <1>1, <1>2, <2>3
    <3>2. rank[link[x]] \in {0, x[2] - (half(x) + 1)}
      BY <3>1
    <3> QED BY <1>1, <1>2, <2>3, <3>1, <3>2
  <2> QED BY <1>1, <1>2, <2>1, <2>2, <2>3
<1>4. end \notin S
  BY <1>1
<1>5. \A x \in S : \A a \in A :
          step[<<x, a>>] = (IF x[1] >= x[2] THEN x[2] ELSE a) /\ step[<<x, a>>] \in A
  BY <1>2
<1>6. link \in [S -> S \cup {end}] /\ rank \in [S -> Nat]
  BY <1>3
<1>a. 0 \in A
  BY <1>1
<1> HIDE DEF step, rank, link, end, S, A
<1>7. Walk(S, end, link, rank, A, 0, step)
  BY <1>3, <1>4, <1>5, <1>6, <1>a DEF Walk
<1>8. PICK h : WalkRecursion(S, end, link, 0, step, h) /\ \A x \in S \cup {end} : h[x] \in A
  BY <1>7, WalkDefined
<1>9. \A x \in S : h[x] = IF x[1] >= x[2] THEN x[2] ELSE h[link[x]]
  <2> SUFFICES ASSUME NEW x \in S PROVE h[x] = IF x[1] >= x[2] THEN x[2] ELSE h[link[x]]
    OBVIOUS
  <2>1. h[x] = step[<<x, h[link[x]]>>]
    BY <1>4, <1>8 DEF WalkRecursion
  <2>2. h[link[x]] \in A
    BY <1>3, <1>8
  <2> QED BY <1>5, <2>1, <2>2
<1> DEFINE g == [x \in S |-> h[x]]
<1>10. ASSUME NEW x \in S
       PROVE  g[x] = CASE x[1] >= x[2] -> x[2]
                       [] x[1] < x[2] /\ pixel[half(x) + 1] \in above -> g[<<x[1], half(x)>>]
                       [] OTHER -> g[<<half(x) + 1, x[2]>>]
  <2>1. CASE x[1] >= x[2]
    BY <1>2, <1>9, <2>1
  <2>2. CASE x[1] < x[2] /\ pixel[half(x) + 1] \in above
    <3>1. link[x] = <<x[1], half(x)>> /\ link[x] \in S
      BY <1>1, <1>2, <2>2 DEF link, S
    <3>2. ~(x[1] >= x[2])
      BY <1>2, <2>2
    <3>3. g[x] = h[link[x]] /\ g[link[x]] = h[link[x]]
      BY <1>9, <3>1, <3>2
    <3> HIDE DEF g
    <3> QED BY <2>2, <3>1, <3>2, <3>3
  <2>3. CASE x[1] < x[2] /\ pixel[half(x) + 1] \notin above
    <3>1. link[x] = <<half(x) + 1, x[2]>> /\ link[x] \in S
      BY <1>1, <1>2, <2>3 DEF link, S
    <3>2. ~(x[1] >= x[2])
      BY <1>2, <2>3
    <3>3. g[x] = h[link[x]] /\ g[link[x]] = h[link[x]]
      BY <1>9, <3>1, <3>2
    <3> HIDE DEF g
    <3> QED BY <2>3, <3>1, <3>2, <3>3
  <2> QED BY <1>2, <2>1, <2>2, <2>3
<1>11. g = [x \in S |-> CASE x[1] >= x[2] -> x[2]
                           [] x[1] < x[2] /\ pixel[half(x) + 1] \in above -> g[<<x[1], half(x)>>]
                           [] OTHER -> g[<<half(x) + 1, x[2]>>]]
  <2>1. g = [x \in S |-> g[x]]
    OBVIOUS
  <2> HIDE DEF g
  <2> QED BY <1>10, <2>1
<1> HIDE DEF g
<1>12. Halving(pixel, above, g)
  BY <1>11 DEF Halving, half, S, n
<1> QED BY <1>12

\* In a sorted pixel, where those above come last, the binary search ends
\* before the first one of them.
LEMMA BisectIs ==
  ASSUME NEW T, NEW pixel \in Seq(T), NEW above,
         \A i, j \in 1..Len(pixel) : i < j /\ pixel[i] \in above => pixel[j] \in above
  PROVE  /\ Bisect(pixel, above) \in 0..Len(pixel)
         /\ \A i \in 1..Len(pixel) : pixel[i] \in above <=> Bisect(pixel, above) < i
<1> DEFINE n == Len(pixel)
           S == (0..n) \X (0..n)
           between[r \in S] ==
              LET min == r[1]
                  max == r[2]
                  i == (min + max) \div 2
              IN  CASE min >= max -> max
                    [] min < max /\ pixel[i + 1] \in above -> between[<<min, i>>]
                    [] OTHER -> between[<<i + 1, max>>]
           half(x) == (x[1] + x[2]) \div 2
           rank == [x \in S |-> IF x[1] >= x[2] THEN 0 ELSE x[2] - x[1]]
<1>1. n \in Nat
  OBVIOUS
<1>2. Bisect(pixel, above) = between[<<0, n>>]
  BY DEF Bisect
<1>3. Halving(pixel, above, between)
  <2>1. PICK g : Halving(pixel, above, g)
    BY HalvingExists
  <2> QED BY <2>1, Zenon DEF Halving
<1> HIDE DEF between
<1>4. ASSUME NEW x \in S
      PROVE  between[x] = CASE x[1] >= x[2] -> x[2]
                            [] x[1] < x[2] /\ pixel[half(x) + 1] \in above
                                  -> between[<<x[1], half(x)>>]
                            [] OTHER -> between[<<half(x) + 1, x[2]>>]
  BY <1>3 DEF Halving
<1> HIDE DEF n
<1>5. ASSUME NEW x \in S
      PROVE  /\ x[1] \in 0..n /\ x[2] \in 0..n
             /\ x[1] < x[2] => half(x) \in x[1]..x[2] - 1 /\ half(x) \in 0..n
                               /\ half(x) + 1 \in 1..n
  BY <1>1
<1> HIDE DEF half
<1> DEFINE Within(x) == /\ x[1] <= x[2]
                        /\ \A i \in 1..n : i <= x[1] => pixel[i] \notin above
                        /\ \A i \in 1..n : x[2] < i => pixel[i] \in above
           Right(x) == /\ between[x] \in 0..n
                       /\ \A i \in 1..n : pixel[i] \in above <=> between[x] < i
           G == {x \in S : Within(x) => Right(x)}
<1>6. ASSUME NEW x \in S, \A y \in S : rank[y] < rank[x] => y \in G
      PROVE  x \in G
  <2> SUFFICES ASSUME Within(x) PROVE Right(x)
    OBVIOUS
  <2>0. between[x] = CASE x[1] >= x[2] -> x[2]
                       [] x[1] < x[2] /\ pixel[half(x) + 1] \in above -> between[<<x[1], half(x)>>]
                       [] OTHER -> between[<<half(x) + 1, x[2]>>]
    BY <1>4
  <2>b. x[1] \in 0..n /\ x[2] \in 0..n /\ x[1] <= x[2]
    BY <1>5
  <2>1. CASE x[1] >= x[2]
    <3>1. between[x] = x[2] /\ x[1] = x[2]
      BY <1>1, <2>0, <2>1, <2>b
    <3> QED BY <1>1, <1>5, <3>1
  <2>2. CASE x[1] < x[2] /\ pixel[half(x) + 1] \in above
    <3> DEFINE y == <<x[1], half(x)>>
    <3>1. y \in S /\ y[1] = x[1] /\ y[2] = half(x) /\ half(x) \in 0..n /\ half(x) + 1 \in 1..n
          /\ x[1] <= half(x) /\ half(x) < x[2]
      BY <1>1, <1>5, <2>2
    <3>2. between[x] = between[y]
      <4>1. ~(x[1] >= x[2])
        BY <1>1, <2>2, <2>b
      <4> QED BY <2>0, <2>2, <4>1
    <3>3. rank[y] < rank[x]
      <4>1. rank[x] = x[2] - x[1] /\ rank[y] \in {0, half(x) - x[1]}
        BY <1>5, <2>2, <3>1
      <4> QED BY <1>5, <2>2, <3>1, <4>1
    <3> HIDE DEF y
    <3>4. Within(y)
      <4>1. \A i \in 1..n : y[2] < i => pixel[i] \in above
        <5> SUFFICES ASSUME NEW i \in 1..n, half(x) < i PROVE pixel[i] \in above
          BY <3>1
        <5>1. i = half(x) + 1 \/ half(x) + 1 < i
          BY <1>1, <3>1
        <5> QED BY <2>2, <3>1, <5>1 DEF n
      <4> QED BY <3>1, <4>1
    <3>5. Right(y)
      BY <1>6, <3>1, <3>3, <3>4
    <3> QED BY <3>2, <3>5
  <2>3. CASE x[1] < x[2] /\ pixel[half(x) + 1] \notin above
    <3> DEFINE y == <<half(x) + 1, x[2]>>
    <3>1. y \in S /\ y[1] = half(x) + 1 /\ y[2] = x[2] /\ half(x) \in 0..n
          /\ half(x) + 1 \in 1..n /\ x[1] <= half(x) /\ half(x) < x[2]
      BY <1>1, <1>5, <2>3
    <3>2. between[x] = between[y]
      <4>1. ~(x[1] >= x[2])
        BY <1>1, <2>3, <2>b
      <4> QED BY <2>0, <2>3, <4>1
    <3>3. rank[y] < rank[x]
      <4>1. rank[x] = x[2] - x[1] /\ rank[y] \in {0, x[2] - (half(x) + 1)}
        BY <1>5, <2>3, <3>1
      <4> QED BY <1>5, <2>3, <3>1, <4>1
    <3> HIDE DEF y
    <3>4. Within(y)
      <4>1. \A i \in 1..n : i <= y[1] => pixel[i] \notin above
        <5> SUFFICES ASSUME NEW i \in 1..n, i <= half(x) + 1 PROVE pixel[i] \notin above
          BY <3>1
        <5>1. i = half(x) + 1 \/ i < half(x) + 1
          BY <1>1, <3>1
        <5> QED BY <2>3, <3>1, <5>1 DEF n
      <4>2. y[1] <= y[2]
        BY <1>5, <3>1
      <4> QED BY <3>1, <4>1, <4>2
    <3>5. Right(y)
      BY <1>6, <3>1, <3>3, <3>4
    <3> QED BY <3>2, <3>5
  <2> QED BY <1>5, <2>1, <2>2, <2>3
<1>7. rank \in [S -> Nat]
  BY <1>5
<1>8. \A x \in S : x \in G
  <2> HIDE DEF rank, S, G
  <2> QED BY <1>6, <1>7, RankInduction
<1>9. <<0, n>> \in S /\ Within(<<0, n>>)
  BY <1>1
<1>10. Right(<<0, n>>)
  BY <1>8, <1>9
<1> QED BY <1>2, <1>10 DEF n

---------------------------------------------------------------------------
(* The order of the detections *)

\* PixelStore_compare and the distance, of two detections.
LEMMA CompareIs ==
  ASSUME SkyInv, NEW a \in Samples, NEW b \in Samples
  PROVE  /\ Compare(a, b) \in {-1, 0, 1} /\ Compare(a, b) = -Compare(b, a)
         /\ Compare(a, b) = 0 <=> epoch[a] = epoch[b] /\ field[a] = field[b]
         /\ Compare(a, b) < 0 <=> epoch[a] < epoch[b] \/ (epoch[a] = epoch[b] /\ field[a] < field[b])
         /\ Dist(a, b) \in Nat /\ Dist(a, b) = Dist(b, a) /\ a \in Nat \ {0}
<1>1. /\ epoch[a] \in Int /\ epoch[b] \in Int /\ field[a] \in Int /\ field[b] \in Int
      /\ pos[a] \in Int /\ pos[b] \in Int /\ a \in Nat \ {0}
  BY DEF SkyInv, Samples
<1> DEFINE value(x, y) == IF epoch[x] < epoch[y] THEN -1 ELSE IF epoch[y] < epoch[x] THEN 1
                          ELSE IF field[x] < field[y] THEN -1
                          ELSE IF field[y] < field[x] THEN 1 ELSE 0
<1>a. Compare(a, b) = value(a, b) /\ Compare(b, a) = value(b, a)
  <2>1. CASE epoch[a] # epoch[b]
    BY <1>1, <2>1 DEF Compare
  <2>2. CASE epoch[a] = epoch[b] /\ field[a] # field[b]
    BY <1>1, <2>2 DEF Compare
  <2>3. CASE epoch[a] = epoch[b] /\ field[a] = field[b]
    BY <1>1, <2>3 DEF Compare
  <2> QED BY <2>1, <2>2, <2>3
<1>2. /\ Compare(a, b) \in {-1, 0, 1} /\ Compare(a, b) = -Compare(b, a)
      /\ Compare(a, b) = 0 <=> epoch[a] = epoch[b] /\ field[a] = field[b]
      /\ Compare(a, b) < 0 <=> epoch[a] < epoch[b] \/ (epoch[a] = epoch[b] /\ field[a] < field[b])
  BY <1>1, <1>a
<1>3. Dist(a, b) \in Nat /\ Dist(a, b) = Dist(b, a)
  BY <1>1 DEF Dist
<1> QED BY <1>1, <1>2, <1>3

\* The comparison is an order.
LEMMA CompareOrder ==
  ASSUME SkyInv, NEW a \in Samples, NEW b \in Samples, NEW c \in Samples
  PROVE  /\ Compare(a, b) < 0 /\ Compare(b, c) <= 0 => Compare(a, c) < 0
         /\ Compare(a, b) <= 0 /\ Compare(b, c) < 0 => Compare(a, c) < 0
         /\ Compare(a, b) <= 0 /\ Compare(b, c) <= 0 => Compare(a, c) <= 0
<1>1. /\ epoch[a] \in Int /\ epoch[b] \in Int /\ field[a] \in Int /\ field[b] \in Int
      /\ epoch[c] \in Int /\ field[c] \in Int
  BY DEF SkyInv, Samples
<1> QED BY <1>1 DEF Compare

\* The pairs of detections of which the first precedes the second.
Order == {st \in Samples \X Samples : Precedes(st[1], st[2])}

\* Ties apart, the detections are in one strict order.
LEMMA OrderStrict ==
  ASSUME SkyInv
  PROVE  /\ StrictOrder(Samples, Order)
         /\ \A a, b \in Samples : <<a, b>> \in Order => Compare(a, b) <= 0
         /\ \A a, b \in Samples : Compare(a, b) < 0 => <<a, b>> \in Order
<1>1. ASSUME NEW a \in Samples, NEW b \in Samples
      PROVE  /\ <<a, b>> \in Order <=> Compare(a, b) < 0 \/ (Compare(a, b) = 0 /\ a < b)
             /\ a \in Nat /\ b \in Nat /\ Compare(a, b) \in {-1, 0, 1} /\ Compare(a, b) = -Compare(b, a)
  BY CompareIs DEF Order, Precedes
<1>2. ASSUME NEW a \in Samples PROVE <<a, a>> \notin Order
  BY <1>1
<1>3. ASSUME NEW a \in Samples, NEW b \in Samples, NEW c \in Samples,
             <<a, b>> \in Order, <<b, c>> \in Order
      PROVE  <<a, c>> \in Order
  <2>1. /\ Compare(a, b) < 0 /\ Compare(b, c) <= 0 => Compare(a, c) < 0
        /\ Compare(a, b) <= 0 /\ Compare(b, c) < 0 => Compare(a, c) < 0
        /\ Compare(a, b) <= 0 /\ Compare(b, c) <= 0 => Compare(a, c) <= 0
    BY CompareOrder
  <2> QED BY <1>1, <1>3, <2>1
<1>4. ASSUME NEW a \in Samples, NEW b \in Samples
      PROVE  a = b \/ <<a, b>> \in Order \/ <<b, a>> \in Order
  BY <1>1
<1>5. StrictOrder(Samples, Order)
  BY <1>2, <1>3, <1>4 DEF StrictOrder
<1> QED BY <1>1, <1>5

---------------------------------------------------------------------------
(* What is in the pixels *)

\* The detections that have been added.
Added == IF phase = "add" THEN 1..turn ELSE Samples

PhaseInv == /\ phase \in {"add", "match", "move", "done"} /\ turn \in 0..Len(field)
            /\ stack # <<>> => phase = "match"

\* Every detection that has been added is once in its own pixel; in the main
\* loops the pixels are sorted.
PixelsInv ==
    /\ Nodes = {PixelOf(t) : t \in Added}
    /\ samples \in [Nodes -> Seq(Samples)]
    /\ \A p \in Nodes : /\ IsInjective(samples[p])
                        /\ Range(samples[p]) = {t \in Added : PixelOf(t) = p}
    /\ phase # "add" => \A p \in Nodes : \A i, j \in 1..Len(samples[p]) :
                            i < j => <<samples[p][i], samples[p][j]>> \in Order

\* The main loops go through every detection once.
OrderInv == phase # "add" => /\ order \in Seq(Samples) /\ IsInjective(order)
                             /\ Range(order) = Samples /\ Len(order) = Len(field)

\* A new element at the end of an injective sequence.
LEMMA OneMore ==
  ASSUME NEW T, NEW q, NEW x, q \in Seq(T), x \in T, IsInjective(q), x \notin Range(q)
  PROVE  IsInjective(Append(q, x)) /\ Range(Append(q, x)) = Range(q) \cup {x}
<1> DEFINE r == Append(q, x)
           n == Len(q)
<1>1. /\ n \in Nat /\ DOMAIN q = 1..n /\ DOMAIN r = 1..n + 1 /\ r[n + 1] = x
      /\ \A i \in 1..n : r[i] = q[i]
  OBVIOUS
<1> HIDE DEF r, n
<1>2. \A i \in 1..n + 1 : i \in 1..n \/ i = n + 1
  BY <1>1
<1>3. n + 1 \in 1..n + 1 /\ \A i \in 1..n : i \in 1..n + 1 /\ q[i] # x
  BY <1>1 DEF Range
<1>4. IsInjective(r)
  <2> SUFFICES ASSUME NEW i \in 1..n + 1, NEW j \in 1..n + 1, r[i] = r[j] PROVE i = j
    BY <1>1 DEF IsInjective
  <2>1. CASE i \in 1..n /\ j \in 1..n
    BY <1>1, <2>1 DEF IsInjective
  <2> QED BY <1>1, <1>2, <1>3, <2>1
<1>5. Range(r) = Range(q) \cup {x}
  BY <1>1, <1>2, <1>3 DEF Range
<1> QED BY <1>4, <1>5 DEF r

\* Adding a detection puts it into its own pixel, and nowhere else.
LEMMA AddedPixels ==
  ASSUME LongBytes >= IdBytes, SkyInv, StoreInv, PixelsInv, AddSample
  PROVE  PixelsInv' /\ OrderInv'
<1> DEFINE k == turn + 1
           p == PixelOf(k)
<1>1. /\ phase = "add" /\ turn < Len(field) /\ turn' = k /\ PixelStore_add(k, p)
      /\ field' = field /\ pos' = pos /\ epoch' = epoch /\ phase' = phase
  <2>1. /\ phase = "add" /\ turn < Len(field) /\ turn' = k /\ PixelStore_add(turn', PixelOf(turn'))
        /\ field' = field /\ pos' = pos /\ epoch' = epoch /\ phase' = phase
    BY DEF AddSample, sky
  <2> QED BY <2>1
<1>2. k \in Samples /\ Samples' = Samples /\ turn \in Nat /\ Len(field) \in Nat
  BY <1>1 DEF SkyInv, Samples
<1>3. p \in Int /\ \A t : PixelOf(t)' = PixelOf(t)
  BY <1>1, <1>2, PixelOfIs DEF PixelOf
<1>4. Added = 1..turn /\ Added' = 1..k /\ Added' = Added \cup {k} /\ k \notin Added
  BY <1>1, <1>2 DEF Added
<1>5. Search(p) = IF p \in Nodes THEN p ELSE NULL
  <2>1. PICK D : Sound(tree, Nodes, D)
    BY DEF StoreInv
  <2> QED BY <1>3, <2>1, SearchIs
<1>6. p # NULL
  BY <1>3, NullAssumption
<1>7. /\ Nodes = {PixelOf(t) : t \in Added} /\ samples \in [Nodes -> Seq(Samples)]
      /\ \A q \in Nodes : /\ IsInjective(samples[q])
                          /\ Range(samples[q]) = {t \in Added : PixelOf(t) = q}
  BY DEF PixelsInv
<1> HIDE DEF k, p
<1>8. Nodes' = Nodes \cup {p}
  <2>1. CASE p \in Nodes
    BY <1>1, <1>5, <1>6, <2>1 DEF PixelStore_add, Nodes
  <2>2. CASE p \notin Nodes
    <3>1. PICK D : Sound(tree, Nodes, D)
      BY DEF StoreInv
    <3>2. PICK E : Sound(Inserted(p), Nodes \cup {p}, E)
      BY <1>3, <2>2, <3>1, InsertedSound
    <3>3. tree' = Inserted(p)
      BY <1>1, <1>5, <2>2 DEF PixelStore_add
    <3> QED BY <3>2, <3>3 DEF Sound, Shaped, TreeOf, Nodes
  <2> QED BY <2>1, <2>2
<1>9. Nodes' = {PixelOf(t)' : t \in Added'}
  BY <1>3, <1>4, <1>7, <1>8 DEF p
<1>10. samples' \in [Nodes' -> Seq(Samples)]
       /\ \A q \in Nodes' : samples'[q] = IF q # p THEN samples[q]
                                          ELSE IF p \in Nodes THEN Append(samples[p], k) ELSE <<k>>
  <2>1. CASE p \in Nodes
    <3>1. samples' = [samples EXCEPT ![p] = Append(@, k)] /\ Nodes' = Nodes
      BY <1>1, <1>5, <1>6, <1>8, <2>1 DEF PixelStore_add
    <3>2. Append(samples[p], k) \in Seq(Samples)
      BY <1>2, <1>7, <2>1
    <3> QED BY <1>7, <2>1, <3>1, <3>2
  <2>2. CASE p \notin Nodes
    <3>1. samples' = With(samples, p, <<k>>)
      BY <1>1, <1>5, <2>2 DEF PixelStore_add
    <3>2. <<k>> \in Seq(Samples)
      BY <1>2
    <3> QED BY <1>7, <1>8, <2>2, <3>1, <3>2 DEF With
  <2> QED BY <2>1, <2>2
<1>11. ASSUME NEW cell \in Nodes'
       PROVE  IsInjective(samples'[cell]) /\ Range(samples'[cell]) = {t \in Added' : PixelOf(t) = cell}
  <2>1. CASE cell # p
    <3>1. samples'[cell] = samples[cell] /\ cell \in Nodes
      BY <1>8, <1>10, <2>1
    <3>2. PixelOf(k) # cell
      BY <2>1 DEF p
    <3> QED BY <1>4, <1>7, <3>1, <3>2
  <2>2. CASE cell = p /\ p \in Nodes
    <3> DEFINE old == samples[p]
    <3>1. /\ samples'[cell] = Append(old, k) /\ old \in Seq(Samples) /\ IsInjective(old)
          /\ Range(old) = {t \in Added : PixelOf(t) = p}
      BY <1>7, <1>10, <2>2
    <3>2. PixelOf(k) = p /\ k \notin Range(old)
      BY <1>4, <3>1 DEF p
    <3> HIDE DEF old
    <3>3. IsInjective(Append(old, k)) /\ Range(Append(old, k)) = Range(old) \cup {k}
      <4>1. old \in Seq(Samples) /\ IsInjective(old) /\ k \in Samples /\ k \notin Range(old)
        BY <1>2, <3>1, <3>2
      <4> QED BY <4>1, OneMore
    <3> QED BY <1>4, <2>2, <3>1, <3>2, <3>3
  <2>3. CASE cell = p /\ p \notin Nodes
    <3>1. samples'[cell] = <<k>> /\ PixelOf(k) = p /\ \A t \in Added : PixelOf(t) # p
      BY <1>7, <1>10, <2>3 DEF p
    <3>2. IsInjective(<<k>>) /\ Range(<<k>>) = {k}
      BY DEF IsInjective, Range
    <3> QED BY <1>4, <2>3, <3>1, <3>2
  <2> QED BY <2>1, <2>2, <2>3
<1>12. PixelsInv'
  BY <1>1, <1>2, <1>3, <1>9, <1>10, <1>11 DEF PixelsInv
<1> QED BY <1>1, <1>12 DEF OrderInv

\* Parts that have nothing in common, each without repetitions, are put
\* together without repetitions.
LEMMA FlattenOnce ==
  ASSUME NEW T, NEW seqs \in Seq(Seq(T)),
         \A i \in 1..Len(seqs) : IsInjective(seqs[i]),
         \A i, k \in 1..Len(seqs) : i # k => Range(seqs[i]) \cap Range(seqs[k]) = {}
  PROVE  /\ FlattenSeq(seqs) \in Seq(T) /\ IsInjective(FlattenSeq(seqs))
         /\ \A x : x \in Range(FlattenSeq(seqs)) <=> \E i \in 1..Len(seqs) : x \in Range(seqs[i])
<1> DEFINE flat == FlattenSeq(seqs)
           m == Len(seqs)
<1>1. flat \in Seq(T)
  BY FlattenParts
<1>2. PICK end : /\ PartEnds(seqs, end) /\ Len(flat) = end[m] /\ Placed(seqs, end, m, flat)
  BY FlattenParts
<1>3. /\ m \in Nat /\ \A i \in 1..m : seqs[i] \in Seq(T)
  OBVIOUS
<1>a. ASSUME NEW s \in Seq(T) PROVE Len(s) \in Nat /\ DOMAIN s = 1..Len(s)
  OBVIOUS
<1>4. /\ \A i \in 1..m : Len(seqs[i]) \in Nat /\ DOMAIN seqs[i] = 1..Len(seqs[i])
      /\ Len(flat) \in Nat /\ DOMAIN flat = 1..Len(flat)
  BY <1>1, <1>3, <1>a
<1> HIDE DEF flat, m
<1>5. /\ \A i \in 1..m : \A j \in 1..Len(seqs[i]) :
            /\ end[i - 1] + j \in 1..Len(flat) /\ flat[end[i - 1] + j] = seqs[i][j]
      /\ \A p \in 1..Len(flat) : \E i \in 1..m : \E j \in 1..Len(seqs[i]) : p = end[i - 1] + j
  BY <1>2 DEF Placed
<1>6. IsInjective(flat)
  <2> SUFFICES ASSUME NEW p \in 1..Len(flat), NEW q \in 1..Len(flat), flat[p] = flat[q]
               PROVE  p = q
    BY <1>4 DEF IsInjective
  <2>1. PICK i \in 1..m : \E j \in 1..Len(seqs[i]) : p = end[i - 1] + j
    BY <1>5
  <2>2. PICK j \in 1..Len(seqs[i]) : p = end[i - 1] + j
    BY <2>1
  <2>3. PICK k \in 1..m : \E l \in 1..Len(seqs[k]) : q = end[k - 1] + l
    BY <1>5
  <2>4. PICK l \in 1..Len(seqs[k]) : q = end[k - 1] + l
    BY <2>3
  <2>5. seqs[i][j] = seqs[k][l]
    BY <1>5, <2>2, <2>4
  <2>6. seqs[i][j] \in Range(seqs[i]) /\ seqs[k][l] \in Range(seqs[k])
    BY <1>4 DEF Range
  <2>7. i = k
    BY <2>5, <2>6 DEF m
  <2>8. IsInjective(seqs[i])
    BY DEF m
  <2>9. j = l
    BY <1>4, <2>5, <2>7, <2>8 DEF IsInjective
  <2> QED BY <2>2, <2>4, <2>7, <2>9
<1>7. ASSUME NEW x
      PROVE  x \in Range(flat) <=> \E i \in 1..m : x \in Range(seqs[i])
  <2>1. ASSUME x \in Range(flat) PROVE \E i \in 1..m : x \in Range(seqs[i])
    <3>1. PICK p \in 1..Len(flat) : x = flat[p]
      BY <1>4, <2>1 DEF Range
    <3>2. PICK i \in 1..m : \E j \in 1..Len(seqs[i]) : p = end[i - 1] + j
      BY <1>5
    <3>3. PICK j \in 1..Len(seqs[i]) : p = end[i - 1] + j
      BY <3>2
    <3>4. x = seqs[i][j]
      BY <1>5, <3>1, <3>3
    <3> QED BY <1>4, <3>4 DEF Range
  <2>2. ASSUME NEW i \in 1..m, x \in Range(seqs[i]) PROVE x \in Range(flat)
    <3>1. PICK j \in 1..Len(seqs[i]) : x = seqs[i][j]
      BY <1>4, <2>2 DEF Range
    <3>2. end[i - 1] + j \in 1..Len(flat) /\ flat[end[i - 1] + j] = x
      BY <1>5, <3>1
    <3> QED BY <1>4, <3>2 DEF Range
  <2> QED BY <2>1, <2>2
<1> QED BY <1>1, <1>6, <1>7 DEF flat, m

\* Sorting leaves every detection in its pixel, and the main loops will go
\* through all of them.
LEMMA SortedPixels ==
  ASSUME LongBytes >= IdBytes, SkyInv, StoreInv, PixelsInv, SortPixels
  PROVE  PixelsInv' /\ OrderInv'
<1>1. /\ phase = "add" /\ turn = Len(field) /\ phase' = "match" /\ turn' = 0
      /\ field' = field /\ pos' = pos /\ epoch' = epoch
      /\ samples' = [p \in Nodes |-> InOrder(samples[p], Order)]
      /\ tree' = tree /\ pixelids' = pixelids
      /\ order' = FlattenSeq([i \in DOMAIN pixelids |-> samples'[Search(pixelids[i])]])
  BY DEF SortPixels, PixelStore_sort, Order, sky
<1>2. /\ Samples' = Samples /\ Samples = 1..Len(field) /\ Len(field) \in Nat
      /\ Nodes' = Nodes /\ Added = Samples /\ Added' = Samples
      /\ \A t : PixelOf(t)' = PixelOf(t)
  BY <1>1 DEF Samples, SkyInv, Nodes, Added, PixelOf
<1>3. Order' = Order
  BY <1>1, <1>2 DEF Order, Precedes, Compare
<1>4. /\ Nodes = {PixelOf(t) : t \in Samples} /\ samples \in [Nodes -> Seq(Samples)]
      /\ \A p \in Nodes : /\ IsInjective(samples[p])
                          /\ Range(samples[p]) = {t \in Samples : PixelOf(t) = p}
  BY <1>2 DEF PixelsInv
<1>5. ASSUME NEW p \in Nodes
      PROVE  /\ samples'[p] \in Seq(Samples) /\ IsInjective(samples'[p])
             /\ Range(samples'[p]) = {t \in Samples : PixelOf(t) = p}
             /\ Len(samples'[p]) = Len(samples[p])
             /\ \A i, j \in 1..Len(samples'[p]) :
                   i < j => <<samples'[p][i], samples'[p][j]>> \in Order
  <2> DEFINE pixel == samples[p]
  <2>1. pixel \in Seq(Samples) /\ IsInjective(pixel) /\ Range(pixel) = {t \in Samples : PixelOf(t) = p}
    BY <1>4
  <2>2. StrictOrder(Samples, Order)
    BY OrderStrict
  <2>3. StrictOrder(Range(pixel), Order)
    BY <2>1, <2>2 DEF StrictOrder
  <2>4. samples'[p] = InOrder(pixel, Order)
    BY <1>1
  <2> HIDE DEF pixel
  <2>5. /\ InOrder(pixel, Order) \in Seq(Samples) /\ IsInjective(InOrder(pixel, Order))
        /\ Range(InOrder(pixel, Order)) = Range(pixel)
        /\ Len(InOrder(pixel, Order)) = Len(pixel)
        /\ \A i, j \in 1..Len(pixel) :
              i < j => <<InOrder(pixel, Order)[i], InOrder(pixel, Order)[j]>> \in Order
    BY <2>1, <2>3, InOrderIs
  <2> QED BY <2>1, <2>4, <2>5 DEF pixel
<1>6. samples' \in [Nodes -> Seq(Samples)]
  <2>1. samples' = [p \in Nodes |-> samples'[p]]
    BY <1>1
  <2> QED BY <1>5, <2>1
<1>7. PixelsInv'
  <2>1. samples' \in [Nodes' -> Seq(Samples')] /\ Nodes' = {PixelOf(t)' : t \in Added'}
    BY <1>2, <1>4, <1>6
  <2>2. ASSUME NEW p \in Nodes'
        PROVE  /\ IsInjective(samples'[p])
               /\ Range(samples'[p]) = {t \in Added' : PixelOf(t)' = p}
               /\ \A i, j \in 1..Len(samples'[p]) :
                     i < j => <<samples'[p][i], samples'[p][j]>> \in Order'
    BY <1>2, <1>3, <1>5
  <2> QED BY <2>1, <2>2 DEF PixelsInv
<1> DEFINE seqs == [i \in 1..Len(pixelids) |-> samples'[pixelids[i]]]
<1>8. /\ pixelids \in Seq(Int) /\ IsInjective(pixelids) /\ Range(pixelids) = Nodes
      /\ Len(pixelids) \in Nat /\ DOMAIN pixelids = 1..Len(pixelids)
  BY DEF StoreInv
<1>9. \A i \in 1..Len(pixelids) : pixelids[i] \in Nodes /\ Search(pixelids[i]) = pixelids[i]
  <2> SUFFICES ASSUME NEW i \in 1..Len(pixelids)
               PROVE  pixelids[i] \in Nodes /\ Search(pixelids[i]) = pixelids[i]
    OBVIOUS
  <2>1. pixelids[i] \in Nodes
    BY <1>8 DEF Range
  <2>2. Search(pixelids[i]) = pixelids[i]
    BY <2>1, StoreInvSound DEF StoreSound
  <2> QED BY <2>1, <2>2
<1>10. order' = FlattenSeq(seqs)
  <2>1. [i \in DOMAIN pixelids |-> samples'[Search(pixelids[i])]] = seqs
    BY <1>8, <1>9
  <2> QED BY <1>1, <2>1
<1>11. /\ seqs \in Seq(Seq(Samples)) /\ Len(seqs) = Len(pixelids)
       /\ \A i \in 1..Len(pixelids) : seqs[i] = samples'[pixelids[i]]
  <2>1. \A i \in 1..Len(pixelids) : samples'[pixelids[i]] \in Seq(Samples)
    BY <1>5, <1>9
  <2> QED BY <1>8, <2>1
<1> HIDE DEF seqs
<1>12. /\ \A i \in 1..Len(seqs) : IsInjective(seqs[i])
       /\ \A i \in 1..Len(seqs) : Range(seqs[i]) = {t \in Samples : PixelOf(t) = pixelids[i]}
  BY <1>5, <1>9, <1>11
<1>13. ASSUME NEW i \in 1..Len(seqs), NEW k \in 1..Len(seqs), i # k
       PROVE  Range(seqs[i]) \cap Range(seqs[k]) = {}
  <2>1. pixelids[i] # pixelids[k]
    BY <1>8, <1>11, <1>13 DEF IsInjective
  <2> QED BY <1>12, <2>1
<1>14. /\ order' \in Seq(Samples) /\ IsInjective(order')
       /\ \A x : x \in Range(order') <=> \E i \in 1..Len(seqs) : x \in Range(seqs[i])
  BY <1>10, <1>11, <1>12, <1>13, FlattenOnce
<1>15. Range(order') = Samples
  <2>1. ASSUME NEW t \in Samples PROVE t \in Range(order')
    <3>1. PixelOf(t) \in Range(pixelids)
      BY <1>4, <1>8
    <3>2. PICK i \in 1..Len(pixelids) : pixelids[i] = PixelOf(t)
      BY <1>8, <3>1 DEF Range
    <3> QED BY <1>11, <1>12, <1>14, <3>2
  <2>2. ASSUME NEW t \in Range(order') PROVE t \in Samples
    BY <1>12, <1>14
  <2> QED BY <2>1, <2>2
<1>16. Len(order') = Len(field)
  <2>1. Cardinality(Range(order')) = Len(order')
    BY <1>14, InjectiveSeq
  <2>2. Cardinality(1..Len(field)) = Len(field)
    <3>1. 1 \in Int /\ Len(field) \in Int
      BY <1>2
    <3>2. Cardinality(1..Len(field)) = IF 1 > Len(field) THEN 0 ELSE Len(field) - 1 + 1
      BY <3>1, FS_Interval
    <3> QED BY <1>2, <3>2
  <2> QED BY <1>2, <1>15, <2>1, <2>2
<1>17. OrderInv'
  BY <1>1, <1>2, <1>14, <1>15, <1>16 DEF OrderInv
<1> QED BY <1>7, <1>17

\* The calls are made in the main loop only.
LEMMA PhaseNext ==
  SkyInv /\ PhaseInv /\ [Next]_vars => PhaseInv'
<1> SUFFICES ASSUME SkyInv, PhaseInv, [Next]_vars PROVE PhaseInv'
  OBVIOUS
<1>1. field' = field
  BY DEF Next, Match, AddSample, SortPixels, NextSample, Refuse, Link, Return, Matched,
         MoveRef, Finish, vars, sky
<1>2. Len(field) \in Nat
  BY DEF SkyInv
<1>3. CASE AddSample
  BY <1>1, <1>2, <1>3 DEF AddSample, PhaseInv
<1>4. CASE SortPixels
  BY <1>1, <1>2, <1>4 DEF SortPixels, PhaseInv
<1>5. CASE NextSample
  BY <1>1, <1>2, <1>5 DEF NextSample, PhaseInv
<1>6. CASE Refuse \/ Link \/ Return
  BY <1>1, <1>2, <1>6 DEF Refuse, Link, Return, PhaseInv
<1>7. CASE Matched \/ MoveRef \/ Finish
  BY <1>1, <1>2, <1>7 DEF Matched, MoveRef, Finish, PhaseInv
<1>8. CASE UNCHANGED vars
  BY <1>1, <1>8 DEF vars, PhaseInv
<1> QED BY <1>3, <1>4, <1>5, <1>6, <1>7, <1>8 DEF Next, Match

LEMMA PixelsStep ==
  ASSUME LongBytes >= IdBytes, SkyInv, StoreInv, PhaseInv, PixelsInv, OrderInv, [Next]_vars
  PROVE  PixelsInv' /\ OrderInv'
<1>1. CASE AddSample
  BY <1>1, AddedPixels
<1>2. CASE SortPixels
  BY <1>2, SortedPixels
<1>3. CASE Match \/ UNCHANGED vars
  <2>1. /\ field' = field /\ pos' = pos /\ epoch' = epoch /\ samples' = samples /\ tree' = tree
        /\ order' = order
    BY <1>3 DEF Match, NextSample, Refuse, Link, Return, Matched, MoveRef, Finish,
                vars, sky, stored, store
  <2>2. /\ Samples' = Samples /\ Nodes' = Nodes /\ \A t : PixelOf(t)' = PixelOf(t)
        /\ Order' = Order
    BY <2>1 DEF Samples, Nodes, PixelOf, Order, Precedes, Compare
  <2>3. (phase # "add" /\ phase' # "add") \/ (phase' = phase /\ turn' = turn)
    BY <1>3 DEF Match, NextSample, Refuse, Link, Return, Matched, MoveRef, Finish, PhaseInv, vars
  <2>4. Added' = Added /\ (phase = "add" <=> phase' = "add")
    BY <2>2, <2>3 DEF Added
  <2>5. PixelsInv'
    BY <2>1, <2>2, <2>4 DEF PixelsInv
  <2>6. OrderInv'
    BY <2>1, <2>2, <2>4 DEF OrderInv
  <2> QED BY <2>5, <2>6
<1> QED BY <1>1, <1>2, <1>3 DEF Next

---------------------------------------------------------------------------
(* The calls of cross_sample *)

\* In the direction of a call, t is beyond s; or at least not before it.
Beyond(dir, s, t) == IF dir = "up" THEN Compare(s, t) < 0 ELSE Compare(t, s) < 0
NotBefore(dir, s, t) == IF dir = "up" THEN Compare(s, t) <= 0 ELSE Compare(t, s) <= 0

\* What a call for s tries in a pixel: detections beyond s, in the order of the
\* direction.
Tries(s, dir, q) ==
    /\ q \in Seq(Samples)
    /\ \A i \in 1..Len(q) : Beyond(dir, s, q[i])
    /\ \A i, j \in 1..Len(q) : i < j => NotBefore(dir, q[i], q[j])

\* What is in a pixel, sorted.
Cell(pixel, p) ==
    /\ pixel \in Seq(Samples) /\ Range(pixel) = {t \in Samples : PixelOf(t) = p}
    /\ \A i, j \in 1..Len(pixel) : i < j => Compare(pixel[i], pixel[j]) <= 0

\* PixelStore_get gives all detections of a pixel, in order.
LEMMA GotCell ==
  ASSUME LongBytes >= IdBytes, SkyInv, StoreInv, PixelsInv, phase # "add", NEW p \in Int
  PROVE  Cell(PixelStore_get(p), p)
<1>1. Search(p) = IF p \in Nodes THEN p ELSE NULL
  <2>1. PICK D : Sound(tree, Nodes, D)
    BY DEF StoreInv
  <2> QED BY <2>1, SearchIs
<1>2. /\ p # NULL /\ Added = Samples
  BY NullAssumption DEF Added
<1>3. CASE p \in Nodes
  <2>1. /\ PixelStore_get(p) = samples[p] /\ samples[p] \in Seq(Samples)
        /\ Range(samples[p]) = {t \in Samples : PixelOf(t) = p}
        /\ \A i, j \in 1..Len(samples[p]) : i < j => <<samples[p][i], samples[p][j]>> \in Order
    BY <1>1, <1>2, <1>3 DEF PixelStore_get, PixelsInv
  <2>2. \A i \in 1..Len(samples[p]) : samples[p][i] \in Samples
    BY <2>1
  <2>3. \A a, b \in Samples : <<a, b>> \in Order => Compare(a, b) <= 0
    BY OrderStrict
  <2> QED BY <2>1, <2>2, <2>3 DEF Cell
<1>4. CASE p \notin Nodes
  <2>1. PixelStore_get(p) = <<>> /\ \A t \in Samples : PixelOf(t) # p
    BY <1>1, <1>2, <1>4 DEF PixelStore_get, PixelsInv
  <2>2. Range(<<>>) = {} /\ <<>> \in Seq(Samples) /\ Len(<<>>) = 0
    BY DEF Range
  <2> QED BY <2>1, <2>2 DEF Cell
<1> QED BY <1>3, <1>4

LEMMA SubSeqIs ==
  ASSUME NEW T, NEW w \in Seq(T), NEW l \in 0..Len(w), NEW h \in 0..Len(w)
  PROVE  /\ SubSeq(w, h + 1, Len(w)) \in Seq(T)
         /\ Len(SubSeq(w, h + 1, Len(w))) = Len(w) - h
         /\ \A i \in 1..Len(w) - h : h + i \in 1..Len(w) /\ SubSeq(w, h + 1, Len(w))[i] = w[h + i]
         /\ Reverse(SubSeq(w, 1, l)) \in Seq(T)
         /\ Len(Reverse(SubSeq(w, 1, l))) = l
         /\ \A i \in 1..l : l - i + 1 \in 1..Len(w) /\ Reverse(SubSeq(w, 1, l))[i] = w[l - i + 1]
<1>1. Len(w) \in Nat /\ \A i \in 1..Len(w) : w[i] \in T
  OBVIOUS
<1>2. /\ SubSeq(w, h + 1, Len(w)) \in Seq(T)
      /\ Len(SubSeq(w, h + 1, Len(w))) = Len(w) - h
      /\ \A i \in 1..Len(w) - h : h + i \in 1..Len(w) /\ SubSeq(w, h + 1, Len(w))[i] = w[h + i]
  BY <1>1
<1> DEFINE low == SubSeq(w, 1, l)
<1>3. low \in Seq(T) /\ Len(low) = l /\ \A i \in 1..l : low[i] = w[i]
  BY <1>1
<1> HIDE DEF low
<1>4. Reverse(low) = [i \in 1..l |-> low[l - i + 1]]
  BY <1>3 DEF Reverse
<1>5. \A i \in 1..l : l - i + 1 \in 1..l /\ l - i + 1 \in 1..Len(w)
  BY <1>1
<1>6. Reverse(low) = [i \in 1..l |-> w[l - i + 1]]
  BY <1>3, <1>4, <1>5
<1>7. Reverse(low) \in Seq(T) /\ Len(Reverse(low)) = l
  <2>1. Reverse(low) \in [1..l -> T]
    BY <1>1, <1>5, <1>6
  <2> QED BY <1>1, <2>1
<1> QED BY <1>2, <1>5, <1>6, <1>7 DEF low

\* cross_sample misses no detection beyond s in the pixels it visits.
LEMMA TriedIs ==
  ASSUME LongBytes >= IdBytes, SkyInv, StoreInv, PixelsInv, phase # "add",
         NEW s \in Samples, NEW dir \in {"up", "down"}, NEW p \in Int
  PROVE  /\ Tries(s, dir, Tried(s, dir, p))
         /\ \A t \in Samples : PixelOf(t) = p /\ Beyond(dir, s, t) => t \in Range(Tried(s, dir, p))
<1> DEFINE pixel == PixelStore_get(p)
           over == {t \in Samples : Compare(s, t) < 0}
           from == {t \in Samples : Compare(s, t) <= 0}
           n == Len(pixel)
           higher == Bisect(pixel, over)
           lower == Bisect(pixel, from)
           q == Tried(s, dir, p)
<1>1. Cell(pixel, p)
  BY GotCell
<1>2. q = IF dir = "up" THEN SubSeq(pixel, higher + 1, n) ELSE Reverse(SubSeq(pixel, 1, lower))
  BY DEF Tried
<1> HIDE DEF pixel
<1>3. /\ pixel \in Seq(Samples) /\ Range(pixel) = {t \in Samples : PixelOf(t) = p}
      /\ \A i, j \in 1..n : i < j => Compare(pixel[i], pixel[j]) <= 0
  BY <1>1 DEF Cell
<1>4. n \in Nat /\ DOMAIN pixel = 1..n /\ \A i \in 1..n : pixel[i] \in Samples
  BY <1>3
<1>5. \A i, j \in 1..n : i < j => /\ pixel[i] \in over => pixel[j] \in over
                                  /\ pixel[i] \in from => pixel[j] \in from
  <2> SUFFICES ASSUME NEW i \in 1..n, NEW j \in 1..n, i < j
               PROVE  /\ pixel[i] \in over => pixel[j] \in over
                      /\ pixel[i] \in from => pixel[j] \in from
    OBVIOUS
  <2>1. pixel[i] \in Samples /\ pixel[j] \in Samples /\ Compare(pixel[i], pixel[j]) <= 0
    BY <1>3, <1>4
  <2>2. /\ Compare(s, pixel[i]) < 0 /\ Compare(pixel[i], pixel[j]) <= 0 => Compare(s, pixel[j]) < 0
        /\ Compare(s, pixel[i]) <= 0 /\ Compare(pixel[i], pixel[j]) <= 0 => Compare(s, pixel[j]) <= 0
    BY <2>1, CompareOrder
  <2> QED BY <2>1, <2>2
<1>6. /\ higher \in 0..n /\ \A i \in 1..n : pixel[i] \in over <=> higher < i
      /\ lower \in 0..n /\ \A i \in 1..n : pixel[i] \in from <=> lower < i
  <2> HIDE DEF over, from
  <2>1. higher \in 0..n /\ \A i \in 1..n : pixel[i] \in over <=> higher < i
    BY <1>3, <1>5, BisectIs
  <2>2. lower \in 0..n /\ \A i \in 1..n : pixel[i] \in from <=> lower < i
    BY <1>3, <1>5, BisectIs
  <2> QED BY <2>1, <2>2
<1>7. \A a, b \in Samples : Compare(a, b) = -Compare(b, a) /\ Compare(a, b) \in {-1, 0, 1}
  BY CompareIs
<1> HIDE DEF higher, lower, q, n
<1>8. CASE dir = "up"
  <2>1. /\ q \in Seq(Samples) /\ Len(q) = n - higher
        /\ \A i \in 1..n - higher : higher + i \in 1..n /\ q[i] = pixel[higher + i]
    BY <1>2, <1>3, <1>6, <1>8, SubSeqIs DEF n
  <2>2. \A i \in 1..Len(q) : Beyond(dir, s, q[i])
    BY <1>4, <1>6, <1>8, <2>1 DEF Beyond
  <2>3. \A i, j \in 1..Len(q) : i < j => NotBefore(dir, q[i], q[j])
    BY <1>3, <1>4, <1>6, <1>8, <2>1 DEF NotBefore
  <2>4. ASSUME NEW t \in Samples, PixelOf(t) = p, Beyond(dir, s, t)
        PROVE  t \in Range(q)
    <3>1. PICK i \in 1..n : t = pixel[i]
      BY <1>3, <1>4, <2>4 DEF Range
    <3>2. higher < i
      BY <1>6, <1>8, <2>4, <3>1 DEF Beyond
    <3>3. i - higher \in 1..n - higher /\ higher + (i - higher) = i
      BY <1>4, <1>6, <3>2
    <3> QED BY <2>1, <3>1, <3>3 DEF Range
  <2> QED BY <2>1, <2>2, <2>3, <2>4 DEF Tries, q
<1>9. CASE dir = "down"
  <2>1. /\ q \in Seq(Samples) /\ Len(q) = lower
        /\ \A i \in 1..lower : lower - i + 1 \in 1..n /\ q[i] = pixel[lower - i + 1]
    BY <1>2, <1>3, <1>6, <1>9, SubSeqIs DEF n
  <2>2. \A i \in 1..Len(q) : Beyond(dir, s, q[i])
    <3> SUFFICES ASSUME NEW i \in 1..lower PROVE Beyond(dir, s, q[i])
      BY <2>1
    <3>1. q[i] \in Samples /\ q[i] \notin from
      BY <1>4, <1>6, <2>1
    <3> QED BY <1>7, <1>9, <3>1 DEF Beyond
  <2>3. \A i, j \in 1..Len(q) : i < j => NotBefore(dir, q[i], q[j])
    <3> SUFFICES ASSUME NEW i \in 1..lower, NEW j \in 1..lower, i < j
                 PROVE  NotBefore(dir, q[i], q[j])
      BY <2>1
    <3>1. lower - j + 1 < lower - i + 1
      BY <1>6
    <3> QED BY <1>3, <1>9, <2>1, <3>1 DEF NotBefore
  <2>4. ASSUME NEW t \in Samples, PixelOf(t) = p, Beyond(dir, s, t)
        PROVE  t \in Range(q)
    <3>1. PICK i \in 1..n : t = pixel[i]
      BY <1>3, <1>4, <2>4 DEF Range
    <3>2. pixel[i] \notin from
      BY <1>7, <1>9, <2>4, <3>1 DEF Beyond
    <3>3. i <= lower
      BY <1>4, <1>6, <3>2
    <3>4. lower - i + 1 \in 1..lower /\ lower - (lower - i + 1) + 1 = i
      BY <1>4, <1>6, <3>3
    <3> QED BY <2>1, <3>1, <3>4 DEF Range
  <2> QED BY <2>1, <2>2, <2>3, <2>4 DEF Tries, q
<1> QED BY <1>8, <1>9

---------------------------------------------------------------------------
(* What a call has left to try *)

LEMMA SeqRanges ==
  ASSUME NEW T, NEW u \in Seq(T), NEW v \in Seq(T)
  PROVE  /\ u \o v \in Seq(T) /\ Range(u \o v) = Range(u) \cup Range(v)
         /\ Range(u) \subseteq T
         /\ (u = <<>> <=> Range(u) = {})
         /\ u # <<>> => /\ Head(u) \in T /\ Tail(u) \in Seq(T)
                        /\ Range(u) = {Head(u)} \cup Range(Tail(u))
                        /\ Head(u) = u[1] /\ Len(Tail(u)) = Len(u) - 1
                        /\ \A i \in 1..Len(u) - 1 : Tail(u)[i] = u[i + 1]
<1>1. /\ Len(u) \in Nat /\ DOMAIN u = 1..Len(u) /\ Len(v) \in Nat /\ DOMAIN v = 1..Len(v)
      /\ \A i \in 1..Len(u) : u[i] \in T
  OBVIOUS
<1>2. Range(u) \subseteq T /\ (u = <<>> <=> Range(u) = {})
  <2>1. u = <<>> <=> Len(u) = 0
    OBVIOUS
  <2>2. Range(u) \subseteq T
    BY <1>1 DEF Range
  <2>3. Len(u) = 0 => Range(u) = {}
    BY <1>1 DEF Range
  <2>4. Len(u) # 0 => Range(u) # {}
    <3>1. Len(u) # 0 => 1 \in DOMAIN u
      BY <1>1
    <3>2. 1 \in DOMAIN u => u[1] \in Range(u)
      BY DEF Range
    <3> QED BY <3>1, <3>2
  <2> QED BY <2>1, <2>2, <2>3, <2>4
<1>3. u \o v \in Seq(T) /\ Range(u \o v) = Range(u) \cup Range(v)
  <2> DEFINE w == u \o v
  <2>1. /\ w \in Seq(T) /\ DOMAIN w = 1..Len(u) + Len(v)
        /\ \A i \in 1..Len(u) : w[i] = u[i]
        /\ \A i \in 1..Len(v) : w[Len(u) + i] = v[i]
    BY <1>1
  <2> HIDE DEF w
  <2>2. ASSUME NEW x \in Range(w) PROVE x \in Range(u) \cup Range(v)
    <3>1. PICK i \in 1..Len(u) + Len(v) : x = w[i]
      BY <2>1 DEF Range
    <3>2. CASE i <= Len(u)
      <4>1. i \in 1..Len(u)
        BY <1>1, <3>2
      <4> QED BY <1>1, <2>1, <3>1, <4>1 DEF Range
    <3>3. CASE i > Len(u)
      <4>1. i - Len(u) \in 1..Len(v) /\ Len(u) + (i - Len(u)) = i
        BY <1>1, <3>3
      <4>2. x = v[i - Len(u)]
        BY <2>1, <3>1, <4>1
      <4> QED BY <1>1, <4>1, <4>2 DEF Range
    <3> QED BY <1>1, <3>2, <3>3
  <2>3. \A i \in 1..Len(u) : i \in DOMAIN w
    BY <1>1, <2>1
  <2>4. \A i \in 1..Len(v) : Len(u) + i \in DOMAIN w
    BY <1>1, <2>1
  <2>5. Range(u) \subseteq Range(w)
    BY <1>1, <2>1, <2>3 DEF Range
  <2>6. Range(v) \subseteq Range(w)
    BY <1>1, <2>1, <2>4 DEF Range
  <2> QED BY <2>1, <2>2, <2>5, <2>6 DEF w
<1>4. ASSUME u # <<>>
      PROVE  /\ Head(u) \in T /\ Tail(u) \in Seq(T)
             /\ Range(u) = {Head(u)} \cup Range(Tail(u))
             /\ Head(u) = u[1] /\ Len(Tail(u)) = Len(u) - 1
             /\ \A i \in 1..Len(u) - 1 : Tail(u)[i] = u[i + 1]
  <2>1. /\ Head(u) = u[1] /\ Tail(u) \in Seq(T) /\ Len(Tail(u)) = Len(u) - 1
        /\ \A i \in 1..Len(u) - 1 : Tail(u)[i] = u[i + 1]
    BY <1>4
  <2>2. DOMAIN Tail(u) = 1..Len(u) - 1
    BY <2>1
  <2>3. 1 \in 1..Len(u) /\ \A i \in 1..Len(u) - 1 : i + 1 \in 1..Len(u)
    <3>1. Len(u) # 0
      BY <1>4
    <3> QED BY <1>1, <3>1
  <2>4. \A i \in 1..Len(u) : i = 1 \/ (i - 1 \in 1..Len(u) - 1 /\ (i - 1) + 1 = i)
    BY <1>1
  <2> DEFINE rest == Tail(u)
             hd == Head(u)
  <2> HIDE DEF rest, hd
  <2>a. /\ hd = u[1] /\ DOMAIN rest = 1..Len(u) - 1
        /\ \A i \in 1..Len(u) - 1 : rest[i] = u[i + 1]
    BY <2>1, <2>2 DEF rest, hd
  <2>5. Range(u) = {hd} \cup Range(rest)
    <3>1. ASSUME NEW x \in Range(u) PROVE x \in {hd} \cup Range(rest)
      <4>1. PICK i \in 1..Len(u) : x = u[i]
        BY <1>1 DEF Range
      <4>2. i # 1 => x = rest[i - 1] /\ i - 1 \in DOMAIN rest
        BY <2>4, <2>a, <4>1
      <4> QED BY <2>a, <4>1, <4>2 DEF Range
    <3>2. hd \in Range(u)
      BY <1>1, <2>3, <2>a DEF Range
    <3>3. Range(rest) \subseteq Range(u)
      BY <1>1, <2>3, <2>a DEF Range
    <3> QED BY <3>1, <3>2, <3>3
  <2>6. Range(u) = {Head(u)} \cup Range(Tail(u))
    BY <2>5 DEF rest, hd
  <2>7. Head(u) \in T
    BY <1>1, <2>1, <2>3
  <2> QED BY <2>1, <2>6, <2>7
<1> QED BY <1>2, <1>3, <1>4

LEMMA Single ==
  ASSUME NEW T, NEW x \in T
  PROVE  <<x>> \in Seq(T) /\ Range(<<x>>) = {x}
BY DEF Range

Calls == [of : Samples, dir : {"up", "down"}, nested : Nat, left : Seq(Seq(Samples))]

\* A call that goes on as cross_sample does.
CallOk(c) == /\ c \in Calls
             /\ \A q \in Range(c.left) : q # <<>> /\ Tries(c.of, c.dir, q)

\* What it has still to try.
Lists(c, t) == \E q \in Range(c.left) : t \in Range(q)

Near(a, b) == PixelOf(b) \in Range(Around(PixelOf(a)))

LEMMA PendingIs ==
  ASSUME NEW T, NEW q \in Seq(T)
  PROVE  /\ Pending(q) \in Seq(Seq(T))
         /\ Range(Pending(q)) = IF q = <<>> THEN {} ELSE {q}
<1>1. <<q>> \in Seq(Seq(T)) /\ Range(<<q>>) = {q}
  BY Single
<1>2. <<>> \in Seq(Seq(T)) /\ Range(<<>>) = {}
  BY DEF Range
<1> QED BY <1>1, <1>2 DEF Pending

\* A new call tries every detection beyond s in the pixels around it.
LEMMA CrossSampleIs ==
  ASSUME LongBytes >= IdBytes, SkyInv, StoreInv, PixelsInv, phase # "add",
         NEW s \in Samples, NEW dir \in {"up", "down"}, NEW nested \in Nat
  PROVE  /\ CallOk(CrossSample(s, dir, nested))
         /\ CrossSample(s, dir, nested).of = s /\ CrossSample(s, dir, nested).dir = dir
         /\ \A t \in Samples :
               Near(s, t) /\ Beyond(dir, s, t) => Lists(CrossSample(s, dir, nested), t)
<1> DEFINE p == PixelOf(s)
           T(x) == Tried(s, dir, x)
           call == CrossSample(s, dir, nested)
           left == Pending(T(p)) \o Pending(T(p - 1)) \o Pending(T(p + 1))
<1>1. p \in Int
  BY PixelOfIs
<1>2. \A i \in {1, 2, 3} : Around(p)[i] = IF i = 1 THEN p ELSE IF i = 2 THEN p - 1 ELSE p + 1
  BY DEF Around
<1>3. call = [of |-> s, dir |-> dir, nested |-> nested, left |-> left]
  <2>1. Around(p)[1] = p /\ Around(p)[2] = p - 1 /\ Around(p)[3] = p + 1
    BY DEF Around
  <2> QED BY <2>1 DEF CrossSample
<1>4. Range(Around(p)) = {p, p - 1, p + 1}
  BY <1>1 DEF Around, Range
<1> HIDE DEF p
<1>5. ASSUME NEW x \in Int
      PROVE  /\ Tries(s, dir, T(x)) /\ T(x) \in Seq(Samples)
             /\ \A t \in Samples : PixelOf(t) = x /\ Beyond(dir, s, t) => t \in Range(T(x))
             /\ Pending(T(x)) \in Seq(Seq(Samples))
             /\ Range(Pending(T(x))) = IF T(x) = <<>> THEN {} ELSE {T(x)}
  <2>1. /\ Tries(s, dir, T(x))
        /\ \A t \in Samples : PixelOf(t) = x /\ Beyond(dir, s, t) => t \in Range(T(x))
    BY TriedIs
  <2>2. T(x) \in Seq(Samples)
    BY <2>1 DEF Tries
  <2> HIDE DEF T
  <2> QED BY <2>1, <2>2, PendingIs
<1> HIDE DEF T
<1>6. p - 1 \in Int /\ p + 1 \in Int
  BY <1>1
<1>7. /\ left \in Seq(Seq(Samples))
      /\ Range(left) = Range(Pending(T(p))) \cup Range(Pending(T(p - 1)))
                          \cup Range(Pending(T(p + 1)))
  <2> DEFINE u == Pending(T(p))
             v == Pending(T(p - 1))
             w == Pending(T(p + 1))
  <2>1. u \in Seq(Seq(Samples)) /\ v \in Seq(Seq(Samples)) /\ w \in Seq(Seq(Samples))
    BY <1>1, <1>5, <1>6
  <2> DEFINE uv == u \o v
  <2> HIDE DEF u, v, w
  <2>2. uv \in Seq(Seq(Samples)) /\ Range(uv) = Range(u) \cup Range(v)
    BY <2>1, SeqRanges
  <2> HIDE DEF uv
  <2>3. uv \o w \in Seq(Seq(Samples)) /\ Range(uv \o w) = Range(uv) \cup Range(w)
    BY <2>1, <2>2, SeqRanges
  <2>4. left = uv \o w
    BY DEF u, v, w, uv
  <2> QED BY <2>2, <2>3, <2>4 DEF u, v, w
<1> HIDE DEF left
<1>8. ASSUME NEW q \in Range(left) PROVE q # <<>> /\ Tries(s, dir, q)
  BY <1>1, <1>5, <1>6, <1>7
<1>9. call \in Calls
  BY <1>3, <1>7 DEF Calls
<1>10. CallOk(call)
  BY <1>3, <1>8, <1>9 DEF CallOk
<1>11. ASSUME NEW t \in Samples, Near(s, t), Beyond(dir, s, t) PROVE Lists(call, t)
  <2>1. PICK x \in {p, p - 1, p + 1} : PixelOf(t) = x
    BY <1>4, <1>11 DEF Near, p
  <2>2. x \in Int /\ t \in Range(T(x))
    BY <1>1, <1>5, <1>6, <1>11, <2>1
  <2>3. T(x) # <<>>
    <3>1. T(x) = <<>> => Range(T(x)) = {}
      BY DEF Range
    <3> QED BY <2>2, <3>1
  <2>4. T(x) \in Range(left)
    BY <1>5, <1>7, <2>1, <2>2, <2>3
  <2> QED BY <1>3, <2>2, <2>4 DEF Lists
<1> QED BY <1>3, <1>10, <1>11 DEF call

\* A call that has tried one detection, or has left a pixel.
Tail1(c) == [c EXCEPT !.left = Pending(Tail(Head(@))) \o Tail(@)]
Tail2(c) == [c EXCEPT !.left = Tail(@)]

\* A call that goes on lists what it has listed, but for the detection it has
\* tried; leaving a pixel it drops what is not before that detection.
LEMMA CallSteps ==
  ASSUME SkyInv, NEW c, CallOk(c), c.left # <<>>
  PROVE  LET q == Head(c.left)
             t == Head(q)
         IN  /\ t \in Samples /\ Beyond(c.dir, c.of, t) /\ c.of \in Samples /\ c.dir \in {"up", "down"}
             /\ CallOk(Tail1(c)) /\ Tail1(c).of = c.of /\ Tail1(c).dir = c.dir
             /\ CallOk(Tail2(c)) /\ Tail2(c).of = c.of /\ Tail2(c).dir = c.dir
             /\ \A x : Lists(c, x) => x = t \/ Lists(Tail1(c), x)
             /\ \A x : Lists(c, x) => x \in Samples /\ (Lists(Tail2(c), x) \/ NotBefore(c.dir, t, x))
<1> DEFINE q == Head(c.left)
           t == Head(q)
           more == Tail(c.left)
           rest == Tail(q)
<1>1. /\ c \in Calls /\ c.left \in Seq(Seq(Samples))
      /\ \A w \in Range(c.left) : w # <<>> /\ Tries(c.of, c.dir, w)
  BY DEF CallOk, Calls
<1>2. /\ q \in Seq(Samples) /\ more \in Seq(Seq(Samples)) /\ Range(c.left) = {q} \cup Range(more)
  BY <1>1, SeqRanges
<1>3. q # <<>> /\ Tries(c.of, c.dir, q)
  BY <1>1, <1>2
<1> HIDE DEF q, more
<1>4. /\ t \in Samples /\ rest \in Seq(Samples) /\ Range(q) = {t} \cup Range(rest)
      /\ t = q[1] /\ Len(rest) = Len(q) - 1 /\ \A i \in 1..Len(q) - 1 : rest[i] = q[i + 1]
  BY <1>2, <1>3, SeqRanges
<1>5. Len(q) \in Nat /\ Len(q) # 0 /\ DOMAIN q = 1..Len(q)
  BY <1>2, <1>3
<1> HIDE DEF t, rest
<1>6. /\ \A i \in 1..Len(q) : Beyond(c.dir, c.of, q[i])
      /\ \A i, j \in 1..Len(q) : i < j => NotBefore(c.dir, q[i], q[j])
  BY <1>3 DEF Tries
<1>7. Beyond(c.dir, c.of, t)
  BY <1>4, <1>5, <1>6
<1>8. Tries(c.of, c.dir, rest)
  <2>1. \A i \in 1..Len(rest) : Beyond(c.dir, c.of, rest[i])
    BY <1>4, <1>5, <1>6
  <2>2. \A i, j \in 1..Len(rest) : i < j => NotBefore(c.dir, rest[i], rest[j])
    BY <1>4, <1>5, <1>6
  <2> QED BY <1>4, <2>1, <2>2 DEF Tries
<1>9. \A x \in Range(q) : NotBefore(c.dir, t, x) /\ x \in Samples
  <2> SUFFICES ASSUME NEW x \in Range(q) PROVE NotBefore(c.dir, t, x) /\ x \in Samples
    OBVIOUS
  <2>1. PICK i \in 1..Len(q) : x = q[i]
    BY <1>5 DEF Range
  <2>2. x \in Samples
    BY <1>2, <2>1
  <2>3. CASE i = 1
    <3>1. Compare(t, t) = 0
      BY <1>4, CompareIs
    <3> QED BY <1>4, <2>1, <2>2, <2>3, <3>1 DEF NotBefore
  <2>4. CASE i # 1
    BY <1>4, <1>5, <1>6, <2>1, <2>2, <2>4
  <2> QED BY <2>3, <2>4
<1> DEFINE left1 == Pending(rest) \o more
<1>10. left1 \in Seq(Seq(Samples)) /\ Range(left1) = Range(Pending(rest)) \cup Range(more)
  <2>1. Pending(rest) \in Seq(Seq(Samples))
    BY <1>4, PendingIs
  <2> QED BY <1>2, <2>1, SeqRanges
<1>11. Range(Pending(rest)) = IF rest = <<>> THEN {} ELSE {rest}
  BY <1>4, PendingIs
<1> HIDE DEF left1
<1>12. /\ Tail1(c) \in Calls /\ Tail1(c).left = left1
       /\ Tail1(c).of = c.of /\ Tail1(c).dir = c.dir
  BY <1>1, <1>10 DEF Tail1, Calls, left1, rest, more, q
<1>13. /\ Tail2(c) \in Calls /\ Tail2(c).left = more
       /\ Tail2(c).of = c.of /\ Tail2(c).dir = c.dir
  BY <1>1, <1>2 DEF Tail2, Calls, more
<1>14. CallOk(Tail1(c))
  BY <1>1, <1>2, <1>8, <1>10, <1>11, <1>12 DEF CallOk
<1>15. CallOk(Tail2(c))
  BY <1>1, <1>2, <1>13 DEF CallOk
<1>16. ASSUME NEW x, Lists(c, x) PROVE x = t \/ Lists(Tail1(c), x)
  <2>1. PICK w \in Range(c.left) : x \in Range(w)
    BY <1>16 DEF Lists
  <2>2. CASE w = q
    <3>1. rest = <<>> => Range(rest) = {}
      BY DEF Range
    <3> QED BY <1>4, <1>10, <1>11, <1>12, <2>1, <2>2, <3>1 DEF Lists
  <2>3. CASE w \in Range(more)
    BY <1>10, <1>12, <2>1, <2>3 DEF Lists
  <2> QED BY <1>2, <2>1, <2>2, <2>3
<1>17. ASSUME NEW x, Lists(c, x)
       PROVE  x \in Samples /\ (Lists(Tail2(c), x) \/ NotBefore(c.dir, t, x))
  <2>1. PICK w \in Range(c.left) : x \in Range(w)
    BY <1>17 DEF Lists
  <2>2. x \in Samples
    <3>1. Range(c.left) \subseteq Seq(Samples)
      BY <1>1, SeqRanges
    <3>2. w \in Seq(Samples)
      BY <3>1
    <3>3. Range(w) \subseteq Samples
      BY <3>2, SeqRanges
    <3> QED BY <2>1, <3>3
  <2>3. CASE w = q
    BY <1>9, <2>1, <2>2, <2>3
  <2>4. CASE w \in Range(more)
    BY <1>13, <2>1, <2>2, <2>4 DEF Lists
  <2> QED BY <1>2, <2>1, <2>3, <2>4
<1> QED BY <1>1, <1>4, <1>7, <1>12, <1>13, <1>14, <1>15, <1>16, <1>17 DEF t, q, Calls

---------------------------------------------------------------------------
(* The links in the main loop *)

\* Every call in progress goes on as cross_sample does.
StackInv == stack \in Seq(Calls) /\ \A c \in Range(stack) : CallOk(c)

LinksInv == /\ next \in [Samples -> Samples \cup {0}] /\ prev \in [Samples -> Samples \cup {0}]
            /\ LinksMutual

\* Links lead forwards in time, over no more than the radius.
Forward == \A a \in Samples : next[a] # 0 => Compare(a, next[a]) < 0 /\ Dist(a, next[a]) <= Radius

\* The main loop has not come to b yet.
Awaited(b) == \E k \in turn + 1..Len(field) : order[k] = b

\* A call has still to try the pair.
Covers(c, a, b) == \/ c.of = a /\ c.dir = "up" /\ Lists(c, b)
                   \/ c.of = b /\ c.dir = "down" /\ Lists(c, a)

\* Two detections that would rather be linked to each other will be tried.
Covered == \A a, b \in Samples : Near(a, b) /\ Blocking(a, b) =>
                Awaited(b) \/ \E c \in Range(stack) : Covers(c, a, b)

Settled == Forward /\ \A a, b \in Samples : Near(a, b) => ~Blocking(a, b)

MatchInv == /\ phase = "match" => Forward /\ Covered
            /\ AllMatched => Settled

\* Two pixels are each other's neighbours.
LEMMA NearBoth ==
  ASSUME SkyInv, NEW a \in Samples, NEW b \in Samples, Near(a, b)
  PROVE  Near(b, a)
<1>1. PixelOf(a) \in Int /\ PixelOf(b) \in Int
  BY PixelOfIs
<1>2. \A p \in Int : Range(Around(p)) = {p, p - 1, p + 1}
  BY DEF Around, Range
<1> QED BY <1>1, <1>2 DEF Near

\* The call on top and the pair it tries.
LEMMA TopIs ==
  ASSUME SkyInv, StackInv, stack # <<>>
  PROVE  /\ Top \in Calls /\ CallOk(Top) /\ Tail(stack) \in Seq(Calls)
         /\ Range(stack) = {Top} \cup Range(Tail(stack))
         /\ Top.left # <<>> => /\ Trial \in Samples /\ Older \in Samples /\ Newer \in Samples
                               /\ Compare(Older, Newer) < 0 /\ Older # Newer
<1>1. stack \in Seq(Calls) /\ \A c \in Range(stack) : CallOk(c)
  BY DEF StackInv
<1>2. /\ Top \in Calls /\ Tail(stack) \in Seq(Calls)
      /\ Range(stack) = {Top} \cup Range(Tail(stack))
  BY <1>1, SeqRanges DEF Top
<1>3. CallOk(Top)
  BY <1>1, <1>2
<1>4. ASSUME Top.left # <<>>
      PROVE  /\ Trial \in Samples /\ Older \in Samples /\ Newer \in Samples
             /\ Compare(Older, Newer) < 0 /\ Older # Newer
  <2>1. /\ Trial \in Samples /\ Beyond(Top.dir, Top.of, Trial)
        /\ Top.of \in Samples /\ Top.dir \in {"up", "down"}
    BY <1>3, <1>4, CallSteps DEF Trial
  <2>2. Older \in Samples /\ Newer \in Samples /\ Compare(Older, Newer) < 0
    BY <2>1 DEF Older, Newer, Beyond
  <2>3. Compare(Older, Older) = 0
    BY <2>2, CompareIs
  <2> QED BY <2>1, <2>2, <2>3
<1> QED BY <1>2, <1>3, <1>4

\* What crossmatch says of a pair, and what the pair thinks of it.
LEMMA VerdictIs ==
  ASSUME SkyInv, LinksInv, NEW a \in Samples, NEW b \in Samples
  PROVE  /\ Verdict(a, b) = "link" <=> Dist(a, b) <= Radius /\ WantsNext(a, b) /\ WantsPrev(a, b)
         /\ Verdict(a, b) = "A_HAVE_CLOSEST" => next[a] \in Samples /\ Compare(next[a], b) < 0
         /\ Verdict(a, b) = "B_HAVE_CLOSEST" => prev[b] \in Samples /\ Compare(a, prev[b]) < 0
<1>1. /\ next[a] \in Samples \cup {0} /\ prev[b] \in Samples \cup {0} /\ 0 \notin Samples
      /\ Radius \in Nat /\ Dist(a, b) \in Nat
  <2>1. next[a] \in Samples \cup {0} /\ prev[b] \in Samples \cup {0}
    BY DEF LinksInv
  <2>2. Dist(a, b) \in Nat
    BY CompareIs
  <2> QED BY <2>1, <2>2, NoZero, RadiusAssumption
<1>2. next[a] # 0 => /\ Compare(next[a], b) \in {-1, 0, 1} /\ Compare(b, next[a]) = -Compare(next[a], b)
                     /\ Dist(next[a], a) \in Nat /\ Dist(a, next[a]) = Dist(next[a], a)
  BY <1>1, CompareIs
<1>3. prev[b] # 0 => /\ Compare(a, prev[b]) \in {-1, 0, 1} /\ Compare(prev[b], a) = -Compare(a, prev[b])
                     /\ Dist(b, prev[b]) \in Nat /\ Dist(prev[b], b) = Dist(b, prev[b])
  BY <1>1, CompareIs
<1>4. WantsNext(a, b) <=> ~(next[a] # 0 /\ (Compare(next[a], b) = -1 \/ (Compare(next[a], b) = 0 /\ Dist(next[a], a) <= Dist(a, b))))
  BY <1>1, <1>2 DEF WantsNext
<1>5. WantsPrev(a, b) <=> ~(prev[b] # 0 /\ (Compare(a, prev[b]) = -1 \/ (Compare(a, prev[b]) = 0 /\ Dist(b, prev[b]) <= Dist(a, b))))
  BY <1>1, <1>3 DEF WantsPrev
<1>6. Dist(a, b) > Radius <=> ~(Dist(a, b) <= Radius)
  BY <1>1
<1>7. Verdict(a, b) = "link" <=> Dist(a, b) <= Radius /\ WantsNext(a, b) /\ WantsPrev(a, b)
  BY <1>4, <1>5, <1>6 DEF Verdict
<1>8. Verdict(a, b) = "A_HAVE_CLOSEST" => next[a] \in Samples /\ Compare(next[a], b) < 0
  BY <1>1 DEF Verdict
<1>9. Verdict(a, b) = "B_HAVE_CLOSEST" => prev[b] \in Samples /\ Compare(a, prev[b]) < 0
  BY <1>1 DEF Verdict
<1> QED BY <1>7, <1>8, <1>9

\* A detection that would take b would take what is no later than b, or as
\* late and no farther; and the same backwards.
LEMMA WantsMore ==
  ASSUME SkyInv, LinksInv, NEW a \in Samples, NEW b \in Samples, NEW c \in Samples
  PROVE  /\ WantsNext(a, b) /\ (Compare(c, b) < 0 \/ (Compare(c, b) = 0 /\ Dist(a, c) < Dist(a, b)))
               => WantsNext(a, c)
         /\ WantsPrev(b, a) /\ (Compare(b, c) < 0 \/ (Compare(b, c) = 0 /\ Dist(c, a) < Dist(b, a)))
               => WantsPrev(c, a)
<1>1. next[a] \in Samples \cup {0} /\ prev[a] \in Samples \cup {0}
  BY DEF LinksInv
<1>2. ASSUME WantsNext(a, b), Compare(c, b) < 0 \/ (Compare(c, b) = 0 /\ Dist(a, c) < Dist(a, b))
      PROVE  WantsNext(a, c)
  <2>1. CASE next[a] = 0
    BY <2>1 DEF WantsNext
  <2>2. CASE next[a] \in Samples
    <3> DEFINE n == next[a]
    <3>1. /\ Compare(b, n) < 0 \/ (Compare(b, n) = 0 /\ Dist(a, b) < Dist(a, n)) \/ n = 0
      BY <1>2 DEF WantsNext
    <3>2. n \in Samples
      BY <2>2
    <3> HIDE DEF n
    <3>3. /\ Compare(c, n) \in {-1, 0, 1} /\ Compare(c, b) \in {-1, 0, 1} /\ Compare(b, n) \in {-1, 0, 1}
          /\ Dist(a, b) \in Nat /\ Dist(a, c) \in Nat /\ Dist(a, n) \in Nat /\ n # 0
      BY <3>2, CompareIs
    <3>4. /\ Compare(c, b) < 0 /\ Compare(b, n) <= 0 => Compare(c, n) < 0
          /\ Compare(c, b) <= 0 /\ Compare(b, n) < 0 => Compare(c, n) < 0
          /\ Compare(c, b) <= 0 /\ Compare(b, n) <= 0 => Compare(c, n) <= 0
      BY <3>2, CompareOrder
    <3>5. Compare(c, n) < 0 \/ (Compare(c, n) = 0 /\ Dist(a, c) < Dist(a, n))
      BY <1>2, <3>1, <3>3, <3>4
    <3> QED BY <3>5 DEF WantsNext, n
  <2> QED BY <1>1, <2>1, <2>2
<1>3. ASSUME WantsPrev(b, a), Compare(b, c) < 0 \/ (Compare(b, c) = 0 /\ Dist(c, a) < Dist(b, a))
      PROVE  WantsPrev(c, a)
  <2>1. CASE prev[a] = 0
    BY <2>1 DEF WantsPrev
  <2>2. CASE prev[a] \in Samples
    <3> DEFINE n == prev[a]
    <3>1. /\ Compare(n, b) < 0 \/ (Compare(n, b) = 0 /\ Dist(b, a) < Dist(n, a)) \/ n = 0
      BY <1>3 DEF WantsPrev
    <3>2. n \in Samples
      BY <2>2
    <3> HIDE DEF n
    <3>3. /\ Compare(n, c) \in {-1, 0, 1} /\ Compare(b, c) \in {-1, 0, 1} /\ Compare(n, b) \in {-1, 0, 1}
          /\ Dist(b, a) \in Nat /\ Dist(c, a) \in Nat /\ Dist(n, a) \in Nat /\ n # 0
      BY <3>2, CompareIs
    <3>4. /\ Compare(n, b) < 0 /\ Compare(b, c) <= 0 => Compare(n, c) < 0
          /\ Compare(n, b) <= 0 /\ Compare(b, c) < 0 => Compare(n, c) < 0
          /\ Compare(n, b) <= 0 /\ Compare(b, c) <= 0 => Compare(n, c) <= 0
      BY <3>2, CompareOrder
    <3>5. Compare(n, c) < 0 \/ (Compare(n, c) = 0 /\ Dist(c, a) < Dist(n, a))
      BY <1>3, <3>1, <3>3, <3>4
    <3> QED BY <3>5 DEF WantsPrev, n
  <2> QED BY <1>1, <2>1, <2>2
<1> QED BY <1>2, <1>3

\* What depends on the sky alone does not change with the links.
LEMMA SameSky ==
  ASSUME field' = field /\ pos' = pos /\ epoch' = epoch
  PROVE  /\ Samples' = Samples /\ Calls' = Calls
         /\ \A a, b : Compare(a, b)' = Compare(a, b) /\ Dist(a, b)' = Dist(a, b)
         /\ \A a, b : Near(a, b)' = Near(a, b)
         /\ \A c : CallOk(c)' = CallOk(c) /\ \A t : Lists(c, t)' = Lists(c, t)
<1>1. /\ Samples' = Samples
      /\ \A a, b : Compare(a, b)' = Compare(a, b) /\ Dist(a, b)' = Dist(a, b)
      /\ \A a, b : Near(a, b)' = Near(a, b)
      /\ \A c, t : Lists(c, t)' = Lists(c, t)
  BY DEF Samples, Compare, Dist, Near, PixelOf, Lists
<1>2. Calls' = Calls
  BY <1>1 DEF Calls
<1>3. \A c : CallOk(c)' = CallOk(c)
  BY <1>1, <1>2 DEF CallOk, Tries, Beyond, NotBefore
<1> QED BY <1>1, <1>2, <1>3

\* The calls for a partner that is left alone cover all its pairs.
LEMMA RelinkIs ==
  ASSUME LongBytes >= IdBytes, SkyInv, StoreInv, PixelsInv, StackInv, phase # "add",
         stack # <<>>, NEW s \in Samples \cup {0}, NEW dir \in {"up", "down"}
  PROVE  /\ Relink(s, dir) \in Seq(Calls) /\ \A c \in Range(Relink(s, dir)) : CallOk(c)
         /\ s # 0 => \A t \in Samples : Near(s, t) /\ Beyond(dir, s, t) =>
               \E c \in Range(Relink(s, dir)) : c.of = s /\ c.dir = dir /\ Lists(c, t)
<1>1. Top.nested + 1 \in Nat
  <2>1. Top \in Calls
    BY TopIs
  <2> QED BY <2>1 DEF Calls
<1>2. CASE s = 0
  <2>1. Relink(s, dir) = <<>> /\ <<>> \in Seq(Calls) /\ Range(<<>>) = {}
    BY <1>2 DEF Relink, Range
  <2> QED BY <1>2, <2>1
<1>3. CASE s # 0
  <2> DEFINE c == CrossSample(s, dir, Top.nested + 1)
  <2>1. s \in Samples
    BY <1>3
  <2>2. /\ CallOk(c) /\ c.of = s /\ c.dir = dir
        /\ \A t \in Samples : Near(s, t) /\ Beyond(dir, s, t) => Lists(c, t)
    BY <1>1, <2>1, CrossSampleIs
  <2>3. Relink(s, dir) = <<c>>
    BY <1>3 DEF Relink
  <2> HIDE DEF c
  <2>4. <<c>> \in Seq(Calls) /\ Range(<<c>>) = {c}
    <3>1. c \in Calls
      BY <2>2 DEF CallOk
    <3> QED BY <3>1, Single
  <2> QED BY <2>2, <2>3, <2>4
<1> QED BY <1>2, <1>3

\* A pair the top call has tried or passes over is not one that would rather
\* be linked.
LEMMA RefuseCovers ==
  ASSUME SkyInv, StackInv, LinksInv, Forward, Covered, Refuse
  PROVE  StackInv' /\ LinksInv' /\ Forward' /\ Covered'
<1> DEFINE closest == IF Top.dir = "up" THEN "A_HAVE_CLOSEST" ELSE "B_HAVE_CLOSEST"
           passed == Verdict(Older, Newer) = closest
           top == IF passed THEN Tail2(Top) ELSE Tail1(Top)
           rest == Tail(stack)
<1>1. /\ stack # <<>> /\ Top.left # <<>> /\ Verdict(Older, Newer) # "link"
      /\ stack' = <<top>> \o rest
      /\ field' = field /\ pos' = pos /\ epoch' = epoch /\ order' = order /\ turn' = turn
      /\ next' = next /\ prev' = prev /\ samples' = samples /\ tree' = tree
  BY DEF Refuse, Advanced, NextPixel, Tail1, Tail2, sky, stored, store
<1>2. /\ Top \in Calls /\ CallOk(Top) /\ rest \in Seq(Calls) /\ Range(stack) = {Top} \cup Range(rest)
      /\ Trial \in Samples /\ Older \in Samples /\ Newer \in Samples
      /\ Compare(Older, Newer) < 0
  BY <1>1, TopIs
<1>3. /\ Top.of \in Samples /\ Top.dir \in {"up", "down"}
      /\ CallOk(Tail1(Top)) /\ Tail1(Top).of = Top.of /\ Tail1(Top).dir = Top.dir
      /\ CallOk(Tail2(Top)) /\ Tail2(Top).of = Top.of /\ Tail2(Top).dir = Top.dir
      /\ \A x : Lists(Top, x) => x = Trial \/ Lists(Tail1(Top), x)
      /\ \A x : Lists(Top, x) => x \in Samples /\ (Lists(Tail2(Top), x) \/ NotBefore(Top.dir, Trial, x))
  BY <1>1, <1>2, CallSteps DEF Trial
<1>4. CallOk(top) /\ top \in Calls /\ top.of = Top.of /\ top.dir = Top.dir
  BY <1>3 DEF CallOk
<1> HIDE DEF top, rest
<1>5. stack' \in Seq(Calls) /\ Range(stack') = {top} \cup Range(rest)
  <2> DEFINE one == <<top>>
  <2>1. one \in Seq(Calls) /\ Range(one) = {top} /\ stack' = one \o rest
    BY <1>1, <1>4, Single
  <2> HIDE DEF one
  <2>2. one \o rest \in Seq(Calls) /\ Range(one \o rest) = Range(one) \cup Range(rest)
    BY <1>2, <2>1, SeqRanges
  <2> QED BY <2>1, <2>2
<1>6. /\ Samples' = Samples /\ Calls' = Calls
      /\ \A a, b : Compare(a, b)' = Compare(a, b) /\ Dist(a, b)' = Dist(a, b)
      /\ \A a, b : Near(a, b)' = Near(a, b) /\ Blocking(a, b)' = Blocking(a, b)
      /\ \A c : CallOk(c)' = CallOk(c) /\ \A t : Lists(c, t)' = Lists(c, t)
      /\ \A b : Awaited(b)' = Awaited(b)
  <2>1. /\ Samples' = Samples /\ Calls' = Calls
        /\ \A a, b : Compare(a, b)' = Compare(a, b) /\ Dist(a, b)' = Dist(a, b)
        /\ \A a, b : Near(a, b)' = Near(a, b)
        /\ \A c : CallOk(c)' = CallOk(c) /\ \A t : Lists(c, t)' = Lists(c, t)
    BY <1>1, SameSky
  <2>2. \A a, b : WantsNext(a, b)' = WantsNext(a, b) /\ WantsPrev(a, b)' = WantsPrev(a, b)
    BY <1>1, <2>1 DEF WantsNext, WantsPrev
  <2>3. \A a, b : Blocking(a, b)' = Blocking(a, b)
    BY <2>1, <2>2 DEF Blocking
  <2>4. \A b : Awaited(b)' = Awaited(b)
    BY <1>1 DEF Awaited
  <2> QED BY <2>1, <2>3, <2>4
<1>7. StackInv'
  <2>1. \A c \in Range(rest) : CallOk(c)
    BY <1>2 DEF StackInv
  <2> QED BY <1>4, <1>5, <1>6, <2>1 DEF StackInv
<1>8. LinksInv' /\ Forward'
  BY <1>1, <1>6 DEF LinksInv, LinksMutual, Forward
<1>9. ~Blocking(Older, Newer)
  BY <1>1, <1>2, VerdictIs DEF Blocking
<1>10. ASSUME NEW a \in Samples, NEW b \in Samples, Blocking(a, b), Covers(Top, a, b)
       PROVE  Covers(top, a, b)
  <2> DEFINE x == IF Top.dir = "up" THEN b ELSE a
  <2>1. Top.of = (IF Top.dir = "up" THEN a ELSE b) /\ Lists(Top, x)
    BY <1>10 DEF Covers
  <2>2. CASE passed
    <3>1. NotBefore(Top.dir, Trial, x) => ~Blocking(a, b)
      <4>1. CASE Top.dir = "up"
        <5>1. Older = a /\ Newer = Trial /\ x = b
          BY <2>1, <4>1 DEF Older, Newer
        <5>2. next[a] \in Samples /\ Compare(next[a], Trial) < 0
          BY <1>2, <2>2, <4>1, <5>1, VerdictIs
        <5>3. Compare(Trial, b) <= 0 => Compare(next[a], b) < 0
          BY <1>2, <5>2, CompareOrder
        <5>4. Compare(next[a], b) < 0 => ~WantsNext(a, b)
          <6>1. /\ Compare(b, next[a]) = -Compare(next[a], b) /\ next[a] # 0
                /\ Compare(next[a], b) \in {-1, 0, 1}
            BY <5>2, CompareIs
          <6> QED BY <6>1 DEF WantsNext
        <5> QED BY <4>1, <5>1, <5>3, <5>4 DEF NotBefore, Blocking
      <4>2. CASE Top.dir = "down"
        <5>1. Older = Trial /\ Newer = b /\ x = a
          BY <2>1, <4>2 DEF Older, Newer
        <5>2. prev[b] \in Samples /\ Compare(Trial, prev[b]) < 0
          BY <1>2, <2>2, <4>2, <5>1, VerdictIs
        <5>3. Compare(a, Trial) <= 0 => Compare(a, prev[b]) < 0
          BY <1>2, <5>2, CompareOrder
        <5>4. Compare(a, prev[b]) < 0 => ~WantsPrev(a, b)
          <6>1. /\ Compare(prev[b], a) = -Compare(a, prev[b]) /\ prev[b] # 0
                /\ Compare(a, prev[b]) \in {-1, 0, 1}
            BY <5>2, CompareIs
          <6> QED BY <6>1 DEF WantsPrev
        <5> QED BY <4>2, <5>1, <5>3, <5>4 DEF NotBefore, Blocking
      <4> QED BY <1>3, <4>1, <4>2
    <3>2. Lists(Tail2(Top), x)
      BY <1>3, <1>10, <2>1, <3>1
    <3> QED BY <1>3, <2>1, <2>2, <3>2 DEF Covers, top
  <2>3. CASE ~passed
    <3>1. x # Trial
      <4>1. x = Trial => Older = a /\ Newer = b
        BY <1>3, <2>1 DEF Older, Newer
      <4> QED BY <1>9, <1>10, <4>1
    <3>2. Lists(Tail1(Top), x)
      BY <1>3, <2>1, <3>1
    <3> QED BY <1>3, <2>1, <2>3, <3>2 DEF Covers, top
  <2> QED BY <2>2, <2>3
<1>11. Covered'
  <2> SUFFICES ASSUME NEW a \in Samples, NEW b \in Samples, Near(a, b), Blocking(a, b)
               PROVE  Awaited(b) \/ \E c \in Range(stack') : Covers(c, a, b)
    BY <1>6 DEF Covered, Covers
  <2>1. Awaited(b) \/ \E c \in Range(stack) : Covers(c, a, b)
    BY DEF Covered
  <2>2. CASE Awaited(b)
    BY <2>2
  <2>3. CASE \E c \in Range(stack) : Covers(c, a, b)
    <3>1. PICK c \in Range(stack) : Covers(c, a, b)
      BY <2>3
    <3>2. CASE c = Top
      BY <1>5, <1>10, <3>1, <3>2
    <3>3. CASE c \in Range(rest)
      BY <1>5, <3>1, <3>3
    <3> QED BY <1>2, <3>2, <3>3
  <2> QED BY <2>1, <2>2, <2>3
<1> QED BY <1>7, <1>8, <1>11

\* What linking a and b does to the links.
Linked(a, b) ==
    /\ next' = [s \in Samples |-> IF s = a THEN b ELSE IF s = prev[b] THEN 0 ELSE next[s]]
    /\ prev' = [s \in Samples |-> IF s = b THEN a ELSE IF s = next[a] THEN 0 ELSE prev[s]]

\* Linking a pair and unlinking the partners it had keeps the links mutual.
LEMMA LinkedMutual ==
  ASSUME SkyInv, LinksInv, NEW a \in Samples, NEW b \in Samples, Linked(a, b), Samples' = Samples
  PROVE  LinksInv'
<1>1. /\ next \in [Samples -> Samples \cup {0}] /\ prev \in [Samples -> Samples \cup {0}]
      /\ \A x, y \in Samples : next[x] = y <=> prev[y] = x
      /\ 0 \notin Samples
  BY NoZero DEF LinksInv, LinksMutual
<1>2. /\ next' \in [Samples -> Samples \cup {0}] /\ prev' \in [Samples -> Samples \cup {0}]
  BY <1>1 DEF Linked
<1>3. ASSUME NEW x \in Samples, NEW y \in Samples PROVE next'[x] = y <=> prev'[y] = x
  <2>1. /\ next'[x] = IF x = a THEN b ELSE IF x = prev[b] THEN 0 ELSE next[x]
        /\ prev'[y] = IF y = b THEN a ELSE IF y = next[a] THEN 0 ELSE prev[y]
    BY DEF Linked
  <2>2. /\ next[x] = y <=> prev[y] = x
        /\ x # 0 /\ y # 0
        /\ next[a] = y <=> prev[y] = a
        /\ next[x] = b <=> prev[b] = x
    BY <1>1
  <2> QED BY <2>1, <2>2
<1> QED BY <1>2, <1>3 DEF LinksInv, LinksMutual

\* Linking a pair that would rather be linked leaves no other such pair that
\* has not been one before, or has lost a partner.
LEMMA LinkedBlocks ==
  ASSUME SkyInv, LinksInv, NEW a \in Samples, NEW b \in Samples, Linked(a, b),
         field' = field, pos' = pos, epoch' = epoch,
         WantsNext(a, b), WantsPrev(a, b), Compare(a, b) < 0,
         NEW x \in Samples, NEW y \in Samples, Blocking(x, y)'
  PROVE  /\ Compare(x, y) < 0 /\ (Blocking(x, y) \/ x = prev[b] \/ y = next[a])
         /\ x # a \/ y # b
<1>1. /\ Compare(x, y)' = Compare(x, y) /\ Samples' = Samples
      /\ \A s, t : Compare(s, t)' = Compare(s, t) /\ Dist(s, t)' = Dist(s, t)
  BY SameSky
<1>2. /\ Compare(x, y) < 0 /\ Dist(x, y) <= Radius /\ WantsNext(x, y)' /\ WantsPrev(x, y)'
  BY <1>1 DEF Blocking
<1>3. /\ next'[x] = IF x = a THEN b ELSE IF x = prev[b] THEN 0 ELSE next[x]
      /\ prev'[y] = IF y = b THEN a ELSE IF y = next[a] THEN 0 ELSE prev[y]
  BY DEF Linked
<1>4. /\ next[a] \in Samples \cup {0} /\ prev[b] \in Samples \cup {0} /\ 0 \notin Samples
  <2>1. next[a] \in Samples \cup {0} /\ prev[b] \in Samples \cup {0}
    BY DEF LinksInv
  <2> QED BY <2>1, NoZero
<1>5. /\ WantsNext(x, y)' <=> \/ next'[x] = 0
                              \/ Compare(y, next'[x]) < 0
                              \/ Compare(y, next'[x]) = 0 /\ Dist(x, y) < Dist(x, next'[x])
      /\ WantsPrev(x, y)' <=> \/ prev'[y] = 0
                              \/ Compare(prev'[y], x) < 0
                              \/ Compare(prev'[y], x) = 0 /\ Dist(x, y) < Dist(prev'[y], y)
  BY <1>1 DEF WantsNext, WantsPrev
<1>6. x # prev[b] => WantsNext(x, y)
  <2>1. CASE x = a
    <3>1. Compare(y, b) < 0 \/ (Compare(y, b) = 0 /\ Dist(a, y) < Dist(a, b))
      BY <1>2, <1>3, <1>4, <1>5, <2>1
    <3> QED BY <2>1, <3>1, WantsMore
  <2>2. CASE x # a
    BY <1>2, <1>3, <1>5, <2>2 DEF WantsNext
  <2> QED BY <2>1, <2>2
<1>7. y # next[a] => WantsPrev(x, y)
  <2>1. CASE y = b
    <3>1. Compare(a, x) < 0 \/ (Compare(a, x) = 0 /\ Dist(x, b) < Dist(a, b))
      BY <1>2, <1>3, <1>4, <1>5, <2>1
    <3> QED BY <2>1, <3>1, WantsMore
  <2>2. CASE y # b
    BY <1>2, <1>3, <1>5, <2>2 DEF WantsPrev
  <2> QED BY <2>1, <2>2
<1>8. x # a \/ y # b
  <2> SUFFICES ASSUME x = a, y = b PROVE FALSE
    OBVIOUS
  <2>1. Compare(b, b) = 0 /\ Dist(a, b) \in Nat
    BY CompareIs
  <2> QED BY <1>2, <1>3, <1>4, <1>5, <2>1
<1> QED BY <1>2, <1>6, <1>7, <1>8 DEF Blocking

\* A new link leaves two detections alone at most, and both look again.
LEMMA LinkCovers ==
  ASSUME LongBytes >= IdBytes, SkyInv, StoreInv, PixelsInv, PhaseInv, StackInv, LinksInv,
         Forward, Covered, Link
  PROVE  StackInv' /\ LinksInv' /\ Forward' /\ Covered'
<1> DEFINE a == Older
           b == Newer
           up == Relink(prev[b], "up")
           down == Relink(next[a], "down")
           one == <<Tail1(Top)>>
           rest == Tail(stack)
           calls == ((up \o down) \o one) \o rest
<1>1. /\ stack # <<>> /\ Top.left # <<>> /\ Verdict(a, b) = "link" /\ Linked(a, b)
      /\ stack' = up \o down \o <<Advanced>> \o rest
      /\ field' = field /\ pos' = pos /\ epoch' = epoch /\ order' = order /\ turn' = turn
      /\ samples' = samples /\ tree' = tree
  BY DEF Link, Linked, sky, stored, store
<1>a. stack' = calls
  BY <1>1 DEF Advanced, Tail1
<1>2. /\ Top \in Calls /\ CallOk(Top) /\ rest \in Seq(Calls) /\ Range(stack) = {Top} \cup Range(rest)
      /\ Trial \in Samples /\ a \in Samples /\ b \in Samples
      /\ Compare(a, b) < 0 /\ a # b
  BY <1>1, TopIs
<1>3. /\ Top.of \in Samples /\ Top.dir \in {"up", "down"}
      /\ CallOk(Tail1(Top)) /\ Tail1(Top).of = Top.of /\ Tail1(Top).dir = Top.dir
      /\ \A x : Lists(Top, x) => x = Trial \/ Lists(Tail1(Top), x)
  BY <1>1, <1>2, CallSteps DEF Trial
<1>4. /\ a = (IF Top.dir = "up" THEN Top.of ELSE Trial)
      /\ b = (IF Top.dir = "up" THEN Trial ELSE Top.of)
  BY DEF Older, Newer
<1>5. phase # "add" /\ prev[b] \in Samples \cup {0} /\ next[a] \in Samples \cup {0} /\ 0 \notin Samples
  <2>1. phase # "add"
    BY <1>1 DEF PhaseInv
  <2>2. prev[b] \in Samples \cup {0} /\ next[a] \in Samples \cup {0}
    BY <1>2 DEF LinksInv
  <2> QED BY <2>1, <2>2, NoZero
<1>6. /\ up \in Seq(Calls) /\ \A c \in Range(up) : CallOk(c)
      /\ prev[b] # 0 => \A t \in Samples : Near(prev[b], t) /\ Beyond("up", prev[b], t) =>
            \E c \in Range(up) : c.of = prev[b] /\ c.dir = "up" /\ Lists(c, t)
  BY <1>1, <1>5, RelinkIs
<1>7. /\ down \in Seq(Calls) /\ \A c \in Range(down) : CallOk(c)
      /\ next[a] # 0 => \A t \in Samples : Near(next[a], t) /\ Beyond("down", next[a], t) =>
            \E c \in Range(down) : c.of = next[a] /\ c.dir = "down" /\ Lists(c, t)
  BY <1>1, <1>5, RelinkIs
<1>8. one \in Seq(Calls) /\ Range(one) = {Tail1(Top)}
  <2>1. Tail1(Top) \in Calls
    BY <1>3 DEF CallOk
  <2> QED BY <2>1, Single
<1>9. WantsNext(a, b) /\ WantsPrev(a, b) /\ Dist(a, b) <= Radius
  BY <1>1, <1>2, VerdictIs
<1> HIDE DEF a, b, up, down, one, rest
<1>10. stack' \in Seq(Calls) /\ Range(stack') = Range(up) \cup Range(down) \cup {Tail1(Top)} \cup Range(rest)
  <2> DEFINE u == up \o down
             v == u \o one
  <2>1. u \in Seq(Calls) /\ Range(u) = Range(up) \cup Range(down)
    BY <1>6, <1>7, SeqRanges
  <2> HIDE DEF u
  <2>2. v \in Seq(Calls) /\ Range(v) = Range(u) \cup Range(one)
    BY <1>8, <2>1, SeqRanges
  <2> HIDE DEF v
  <2>3. v \o rest \in Seq(Calls) /\ Range(v \o rest) = Range(v) \cup Range(rest)
    BY <1>2, <2>2, SeqRanges
  <2>4. stack' = v \o rest
    BY <1>a DEF u, v
  <2> QED BY <1>8, <2>1, <2>2, <2>3, <2>4
<1> HIDE DEF calls
<1>11. /\ Samples' = Samples /\ Calls' = Calls
       /\ \A x, y : Compare(x, y)' = Compare(x, y) /\ Dist(x, y)' = Dist(x, y)
       /\ \A x, y : Near(x, y)' = Near(x, y)
       /\ \A c : CallOk(c)' = CallOk(c) /\ \A t : Lists(c, t)' = Lists(c, t)
       /\ \A y : Awaited(y)' = Awaited(y)
  <2>1. \A y : Awaited(y)' = Awaited(y)
    BY <1>1 DEF Awaited
  <2> QED BY <1>1, <2>1, SameSky
<1>12. StackInv'
  <2>1. \A c \in Range(rest) : CallOk(c)
    BY <1>2 DEF StackInv
  <2> QED BY <1>3, <1>6, <1>7, <1>10, <1>11, <2>1 DEF StackInv
<1>13. LinksInv'
  BY <1>1, <1>2, <1>11, LinkedMutual
<1>14. Forward'
  <2> SUFFICES ASSUME NEW x \in Samples, next'[x] # 0
               PROVE  Compare(x, next'[x]) < 0 /\ Dist(x, next'[x]) <= Radius
    BY <1>11 DEF Forward
  <2>1. next'[x] = IF x = a THEN b ELSE IF x = prev[b] THEN 0 ELSE next[x]
    BY <1>1 DEF Linked
  <2>2. next[x] # 0 => Compare(x, next[x]) < 0 /\ Dist(x, next[x]) <= Radius
    BY DEF Forward
  <2> QED BY <1>2, <1>9, <2>1, <2>2
<1>15. ASSUME NEW x \in Samples, NEW y \in Samples, Near(x, y), Blocking(x, y)'
       PROVE  Awaited(y) \/ \E c \in Range(stack') : Covers(c, x, y)
  <2>1. /\ Compare(x, y) < 0 /\ (Blocking(x, y) \/ x = prev[b] \/ y = next[a])
        /\ x # a \/ y # b
    BY <1>1, <1>2, <1>9, <1>15, LinkedBlocks
  <2>2. CASE x = prev[b]
    <3>1. Beyond("up", x, y)
      BY <2>1 DEF Beyond
    <3>2. PICK c \in Range(up) : c.of = x /\ c.dir = "up" /\ Lists(c, y)
      BY <1>5, <1>6, <1>15, <2>2, <3>1
    <3> QED BY <1>10, <3>2 DEF Covers
  <2>3. CASE y = next[a]
    <3>1. Beyond("down", y, x) /\ Near(y, x)
      BY <1>15, <2>1, NearBoth DEF Beyond
    <3>2. PICK c \in Range(down) : c.of = y /\ c.dir = "down" /\ Lists(c, x)
      BY <1>5, <1>7, <1>15, <2>3, <3>1
    <3> QED BY <1>10, <3>2 DEF Covers
  <2>4. CASE Blocking(x, y)
    <3>1. Awaited(y) \/ \E c \in Range(stack) : Covers(c, x, y)
      BY <1>15, <2>4 DEF Covered
    <3>2. CASE \E c \in Range(stack) : Covers(c, x, y)
      <4>1. PICK c \in Range(stack) : Covers(c, x, y)
        BY <3>2
      <4>2. CASE c = Top
        <5>1. Covers(Top, x, y)
          BY <4>1, <4>2
        <5>2. Covers(Tail1(Top), x, y)
          BY <1>3, <1>4, <2>1, <5>1 DEF Covers
        <5> QED BY <1>10, <5>2
      <4>3. CASE c \in Range(rest)
        BY <1>10, <4>1, <4>3
      <4> QED BY <1>2, <4>2, <4>3
    <3> QED BY <3>1, <3>2
  <2> QED BY <2>1, <2>2, <2>3, <2>4
<1>16. Covered'
  BY <1>11, <1>15 DEF Covered, Covers
<1> QED BY <1>12, <1>13, <1>14, <1>16

\* The call for the next detection covers all pairs it is the newer one of.
LEMMA NextCovers ==
  ASSUME LongBytes >= IdBytes, SkyInv, StoreInv, PixelsInv, PhaseInv, OrderInv, StackInv,
         Covered, NextSample
  PROVE  StackInv' /\ Covered'
<1> DEFINE s == order[turn + 1]
           call == CrossSample(s, "down", 0)
<1>1. /\ phase = "match" /\ stack = <<>> /\ turn < Len(field) /\ turn' = turn + 1
      /\ stack' = <<call>>
      /\ field' = field /\ pos' = pos /\ epoch' = epoch /\ order' = order
      /\ next' = next /\ prev' = prev
  BY DEF NextSample, sky, stored
<1>2. Len(field) \in Nat /\ turn \in Nat
  BY DEF SkyInv
<1>3. s \in Samples
  <2>1. order \in Seq(Samples) /\ turn + 1 \in 1..Len(order)
    BY <1>1, <1>2 DEF OrderInv
  <2> QED BY <2>1
<1> HIDE DEF s
<1>4. /\ CallOk(call) /\ call.of = s /\ call.dir = "down"
      /\ \A t \in Samples : Near(s, t) /\ Beyond("down", s, t) => Lists(call, t)
  BY <1>1, <1>3, CrossSampleIs
<1> HIDE DEF call
<1>5. stack' \in Seq(Calls) /\ Range(stack') = {call}
  <2>1. call \in Calls
    BY <1>4 DEF CallOk
  <2> QED BY <1>1, <2>1, Single
<1>6. /\ Samples' = Samples /\ Calls' = Calls
      /\ \A x, y : Compare(x, y)' = Compare(x, y) /\ Dist(x, y)' = Dist(x, y)
      /\ \A x, y : Near(x, y)' = Near(x, y)
      /\ \A c : CallOk(c)' = CallOk(c) /\ \A t : Lists(c, t)' = Lists(c, t)
  BY <1>1, SameSky
<1>7. \A x, y : Blocking(x, y)' = Blocking(x, y)
  BY <1>1, <1>6 DEF Blocking, WantsNext, WantsPrev
<1>8. ASSUME NEW x \in Samples, NEW y \in Samples, Near(x, y), Blocking(x, y)
      PROVE  Awaited(y)' \/ Covers(call, x, y)
  <2>1. Awaited(y)
    <3>1. ~ \E c \in Range(stack) : Covers(c, x, y)
      BY <1>1 DEF Range
    <3> QED BY <1>8, <3>1 DEF Covered
  <2>2. PICK k \in turn + 1..Len(field) : order[k] = y
    BY <2>1 DEF Awaited
  <2>3. CASE k = turn + 1
    <3>1. y = s /\ Near(y, x) /\ Beyond("down", y, x)
      BY <1>8, <2>2, <2>3, NearBoth DEF s, Blocking, Beyond
    <3> QED BY <1>4, <3>1 DEF Covers
  <2>4. CASE k # turn + 1
    <3>1. k \in turn' + 1..Len(field')
      BY <1>1, <1>2, <2>2, <2>4
    <3> QED BY <1>1, <2>2, <3>1 DEF Awaited
  <2> QED BY <2>3, <2>4
<1>9. Covered'
  BY <1>5, <1>6, <1>7, <1>8 DEF Covered, Covers
<1> QED BY <1>4, <1>5, <1>6, <1>9 DEF StackInv

\* A call that returns had nothing left to try.
LEMMA ReturnCovers ==
  ASSUME SkyInv, StackInv, Covered, Return
  PROVE  StackInv' /\ Covered'
<1>1. /\ stack # <<>> /\ Top.left = <<>> /\ stack' = Tail(stack)
      /\ field' = field /\ pos' = pos /\ epoch' = epoch /\ order' = order /\ turn' = turn
      /\ next' = next /\ prev' = prev
  BY DEF Return, sky, stored
<1>2. /\ Tail(stack) \in Seq(Calls) /\ Range(stack) = {Top} \cup Range(Tail(stack))
  BY <1>1, TopIs
<1>3. /\ Samples' = Samples /\ Calls' = Calls
      /\ \A x, y : Compare(x, y)' = Compare(x, y) /\ Dist(x, y)' = Dist(x, y)
      /\ \A x, y : Near(x, y)' = Near(x, y)
      /\ \A c : CallOk(c)' = CallOk(c) /\ \A t : Lists(c, t)' = Lists(c, t)
  BY <1>1, SameSky
<1>4. \A x, y : Blocking(x, y)' = Blocking(x, y) /\ Awaited(y)' = Awaited(y)
  BY <1>1, <1>3 DEF Blocking, WantsNext, WantsPrev, Awaited
<1>5. \A x, y : ~Covers(Top, x, y)
  BY <1>1 DEF Covers, Lists, Range
<1>6. StackInv'
  BY <1>1, <1>2, <1>3 DEF StackInv
<1>7. Covered'
  BY <1>1, <1>2, <1>3, <1>4, <1>5 DEF Covered, Covers
<1> QED BY <1>6, <1>7

\* In the beginning there are no links, and all detections are awaited.
LEMMA StartCovers ==
  ASSUME LongBytes >= IdBytes, SkyInv, StoreInv, PixelsInv, SortPixels,
         \A s \in Samples : next[s] = 0
  PROVE  Forward' /\ Covered'
<1>1. /\ field' = field /\ pos' = pos /\ epoch' = epoch /\ turn' = 0 /\ phase' = "match"
      /\ next' = next /\ prev' = prev
  BY DEF SortPixels, sky
<1>2. Samples' = Samples
  BY <1>1, SameSky
<1>3. Forward'
  BY <1>1, <1>2 DEF Forward
<1>4. OrderInv'
  BY SortedPixels
<1>5. ASSUME NEW y \in Samples PROVE Awaited(y)'
  <2>1. /\ order' \in Seq(Samples') /\ Range(order') = Samples' /\ Len(order') = Len(field')
    BY <1>1, <1>4 DEF OrderInv
  <2>2. DOMAIN order' = 1..Len(field')
    BY <2>1
  <2>3. PICK k \in 1..Len(field') : order'[k] = y
    BY <1>2, <1>5, <2>1, <2>2 DEF Range
  <2>4. k \in turn' + 1..Len(field')
    BY <1>1, <2>3
  <2> QED BY <2>3, <2>4 DEF Awaited
<1>6. Covered'
  BY <1>2, <1>5 DEF Covered
<1> QED BY <1>3, <1>6

---------------------------------------------------------------------------
(* The chains *)

\* A rank that grows along the links: there are no rings.
Rising(m, rank) == /\ m \in Nat /\ rank \in [Samples -> 0..m]
                   /\ \A a \in Samples : next[a] # 0 => rank[a] < rank[next[a]]

Acyclic == \E m, rank : Rising(m, rank)

LinkTypes == /\ next \in [Samples -> Samples \cup {0}] /\ prev \in [Samples -> Samples \cup {0}]
             /\ 0 \notin Samples
             /\ \A a, b \in Samples : next[a] = b <=> prev[b] = a

\* The recursions that First and Followers are defined by; they have solutions
\* when there are no rings.
Firsts(f) == f = [t \in Samples |-> IF prev[t] = 0 THEN t ELSE f[prev[t]]]
Chains(f) == f = [t \in Samples |-> IF next[t] = 0 THEN {} ELSE {next[t]} \cup f[next[t]]]

\* First is a detection that has none before it.
LEMMA FirstIs ==
  ASSUME LinkTypes, Acyclic, NEW s \in Samples
  PROVE  First(s) \in Samples /\ prev[First(s)] = 0
<1>1. PICK m, rank : Rising(m, rank)
  BY DEF Acyclic
<1>2. /\ m \in Nat /\ rank \in [Samples -> 0..m]
      /\ \A a \in Samples : next[a] # 0 => rank[a] < rank[next[a]]
      /\ \A a \in Samples : prev[a] \in Samples \cup {0}
      /\ \A a \in Samples : prev[a] # 0 => next[prev[a]] = a
  BY <1>1 DEF Rising, LinkTypes
<1> DEFINE step == [xa \in Samples \X (Samples \cup {0}) |-> IF prev[xa[1]] = 0 THEN xa[1] ELSE xa[2]]
<1>3. Walk(Samples, 0, prev, rank, Samples \cup {0}, 0, step)
  <2>1. rank \in [Samples -> Nat]
    BY <1>2
  <2>2. \A x \in Samples : prev[x] # 0 => rank[prev[x]] < rank[x]
    BY <1>2 DEF LinkTypes
  <2>3. \A x \in Samples : \A a \in Samples \cup {0} : step[<<x, a>>] \in Samples \cup {0}
    OBVIOUS
  <2> HIDE DEF step
  <2> QED BY <2>1, <2>2, <2>3 DEF Walk, LinkTypes
<1>4. \E f : Firsts(f)
  <2>1. PICK g : WalkRecursion(Samples, 0, prev, 0, step, g)
                 /\ \A x \in Samples \cup {0} : g[x] \in Samples \cup {0}
    <3> HIDE DEF step
    <3> QED BY <1>3, WalkDefined
  <2>2. ASSUME NEW t \in Samples PROVE g[t] = IF prev[t] = 0 THEN t ELSE g[prev[t]]
    <3>1. t # 0 /\ prev[t] \in Samples \cup {0}
      BY <1>2 DEF LinkTypes
    <3>2. g[t] = step[<<t, g[prev[t]]>>]
      <4> HIDE DEF step
      <4> QED BY <2>1, <3>1 DEF WalkRecursion
    <3>3. g[prev[t]] \in Samples \cup {0}
      BY <2>1, <3>1
    <3> QED BY <3>2, <3>3
  <2> DEFINE f == [t \in Samples |-> g[t]]
  <2>3. f = [t \in Samples |-> IF prev[t] = 0 THEN t ELSE f[prev[t]]]
    BY <1>2, <2>2
  <2> HIDE DEF f
  <2> QED BY <2>3 DEF Firsts
<1>5. PICK f : Firsts(f) /\ First(s) = f[s]
  <2> DEFINE f == CHOOSE f : Firsts(f)
  <2>1. Firsts(f)
    BY <1>4
  <2>2. First(s) = f[s]
    BY DEF First, Firsts
  <2> QED BY <2>1, <2>2
<1> DEFINE G == {x \in Samples : f[x] \in Samples /\ prev[f[x]] = 0}
<1>6. ASSUME NEW x \in Samples, \A y \in Samples : rank[y] < rank[x] => y \in G
      PROVE  x \in G
  <2>1. f[x] = IF prev[x] = 0 THEN x ELSE f[prev[x]]
    BY <1>5 DEF Firsts
  <2>2. prev[x] # 0 => prev[x] \in Samples /\ rank[prev[x]] < rank[x]
    BY <1>2 DEF LinkTypes
  <2>3. prev[x] # 0 => prev[x] \in G
    BY <1>6, <2>2
  <2> QED BY <2>1, <2>3
<1>7. \A x \in Samples : x \in G
  <2>1. rank \in [Samples -> Nat]
    BY <1>2
  <2> HIDE DEF G
  <2> QED BY <1>6, <2>1, RankInduction
<1> QED BY <1>5, <1>7

HasFollowers ==
    \E f : Chains(f) /\ \A s \in Samples : Followers(s) = {t \in f[s] : ~IsRef(t)}

\* Followers is what its recursion says.
LEMMA FollowersAre ==
  ASSUME LinkTypes, Acyclic
  PROVE  HasFollowers
<1>1. PICK m, rank : Rising(m, rank)
  BY DEF Acyclic
<1>2. /\ m \in Nat /\ rank \in [Samples -> 0..m]
      /\ \A a \in Samples : next[a] # 0 => rank[a] < rank[next[a]]
      /\ \A a \in Samples : next[a] \in Samples \cup {0}
  BY <1>1 DEF Rising, LinkTypes
<1> DEFINE A == SUBSET (Samples \cup {0})
           down == [x \in Samples |-> m - rank[x]]
           step == [xa \in Samples \X A |-> IF next[xa[1]] = 0 THEN {} ELSE {next[xa[1]]} \cup xa[2]]
<1>3. Walk(Samples, 0, next, down, A, {}, step)
  <2>1. down \in [Samples -> Nat]
    BY <1>2
  <2>2. \A x \in Samples : next[x] # 0 => down[next[x]] < down[x]
    BY <1>2
  <2>3. \A x \in Samples : \A a \in A : step[<<x, a>>] \in A
    BY <1>2
  <2>4. {} \in A
    OBVIOUS
  <2> HIDE DEF step, down, A
  <2> QED BY <2>1, <2>2, <2>3, <2>4 DEF Walk, LinkTypes
<1>4. \E f : Chains(f)
  <2>1. PICK g : WalkRecursion(Samples, 0, next, {}, step, g)
                 /\ \A x \in Samples \cup {0} : g[x] \in A
    <3> HIDE DEF step, down, A
    <3> QED BY <1>3, WalkDefined
  <2>2. ASSUME NEW t \in Samples PROVE g[t] = IF next[t] = 0 THEN {} ELSE {next[t]} \cup g[next[t]]
    <3>1. t # 0 /\ next[t] \in Samples \cup {0}
      BY <1>2 DEF LinkTypes
    <3>2. g[t] = step[<<t, g[next[t]]>>]
      <4> HIDE DEF step
      <4> QED BY <2>1, <3>1 DEF WalkRecursion
    <3>3. g[next[t]] \in A
      BY <2>1, <3>1
    <3> HIDE DEF A
    <3> QED BY <3>2, <3>3
  <2> DEFINE f == [t \in Samples |-> g[t]]
  <2>3. f = [t \in Samples |-> IF next[t] = 0 THEN {} ELSE {next[t]} \cup f[next[t]]]
    BY <1>2, <2>2
  <2> HIDE DEF f
  <2> QED BY <2>3 DEF Chains
<1> DEFINE f == CHOOSE f : Chains(f)
<1>5. Chains(f)
  BY <1>4
<1>6. \A s \in Samples : Followers(s) = {t \in f[s] : ~IsRef(t)}
  BY DEF Followers, Chains
<1> QED BY <1>5, <1>6 DEF HasFollowers

\* What move_refsamples does to the links: s is taken out of its chain, and may
\* be put before q.
Moved(s, q) ==
    /\ next' = [x \in Samples |-> IF x = s THEN q ELSE IF x = prev[s] THEN next[s] ELSE next[x]]
    /\ prev' = [x \in Samples |-> IF x = s THEN 0 ELSE IF x = q THEN s
                                  ELSE IF x = next[s] THEN prev[s] ELSE prev[x]]

\* A turn does nothing, or takes a reference out of its chain; it may be put
\* before an ordinary detection that has none before it.
LEMMA MoveRefIs ==
  ASSUME SkyInv, OrderInv, PhaseInv, LinkTypes, Acyclic, MoveRef
  PROVE  /\ turn' = turn + 1 /\ turn + 1 \in 1..Len(field) /\ order[turn + 1] \in Samples
         /\ phase = "move" /\ phase' = "move"
         /\ field' = field /\ pos' = pos /\ epoch' = epoch /\ order' = order /\ stack' = stack
         /\ LET s == order[turn + 1]
            IN  \/ next' = next /\ prev' = prev /\ (IsRef(s) => prev[s] = 0)
                \/ /\ IsRef(s) /\ prev[s] # 0
                   /\ \E q \in Samples \cup {0} : /\ q # 0 => prev[q] = 0 /\ ~IsRef(q)
                                                  /\ Moved(s, q)
<1> DEFINE s == order[turn + 1]
           p == prev[s]
           n == next[s]
           first == First(s)
           cutNext == [next EXCEPT ![p] = n, ![s] = 0]
           cutPrev == IF n = 0 THEN [prev EXCEPT ![s] = 0] ELSE [prev EXCEPT ![n] = p, ![s] = 0]
<1>1. /\ turn' = turn + 1 /\ turn < Len(field) /\ phase = "move" /\ phase' = phase
      /\ field' = field /\ pos' = pos /\ epoch' = epoch /\ order' = order /\ stack' = stack
  BY DEF MoveRef, sky, stored
<1>2. \/ (~IsRef(s) \/ p = 0) /\ next' = next /\ prev' = prev
      \/ /\ IsRef(s) /\ p # 0 /\ IsRef(first)
         /\ next' = cutNext /\ prev' = cutPrev
      \/ /\ IsRef(s) /\ p # 0 /\ ~IsRef(first)
         /\ next' = [cutNext EXCEPT ![s] = first] /\ prev' = [cutPrev EXCEPT ![first] = s]
  BY DEF MoveRef
<1>a. ~IsRef(s) \/ p = 0 => next' = next /\ prev' = prev
  BY DEF MoveRef
<1>3. turn + 1 \in 1..Len(field) /\ s \in Samples
  <2>1. Len(field) \in Nat /\ turn \in Nat /\ order \in Seq(Samples) /\ Len(order) = Len(field)
    BY <1>1 DEF SkyInv, OrderInv
  <2>2. turn + 1 \in 1..Len(order)
    BY <1>1, <2>1
  <2>3. order[turn + 1] \in Samples
    BY <2>1, <2>2
  <2> QED BY <2>1, <2>2, <2>3
<1>4. first \in Samples /\ prev[first] = 0
  BY <1>3, FirstIs
<1> HIDE DEF s, first
<1>5. /\ next \in [Samples -> Samples \cup {0}] /\ prev \in [Samples -> Samples \cup {0}]
      /\ p \in Samples \cup {0} /\ n \in Samples \cup {0} /\ 0 \notin Samples
      /\ p # 0 => next[p] = s
      /\ n # 0 => prev[n] = s
  BY <1>3 DEF LinkTypes
<1>6. p # s /\ n # s
  <2>1. next[s] # s
    <3>1. PICK m, rank : Rising(m, rank)
      BY DEF Acyclic
    <3>2. next[s] # 0 => rank[s] < rank[next[s]]
      BY <1>3, <3>1 DEF Rising
    <3>3. rank[s] \in Int
      BY <1>3, <3>1 DEF Rising
    <3> QED BY <1>3, <1>5, <3>2, <3>3
  <2> QED BY <1>3, <1>5, <2>1
<1>7. ASSUME p # 0
      PROVE  /\ cutNext = [x \in Samples |-> IF x = s THEN 0 ELSE IF x = p THEN n ELSE next[x]]
             /\ cutPrev = [x \in Samples |-> IF x = s THEN 0 ELSE IF x = n THEN p ELSE prev[x]]
  <2>1. cutNext = [x \in Samples |-> IF x = s THEN 0 ELSE IF x = p THEN n ELSE next[x]]
    BY <1>3, <1>5, <1>6, <1>7
  <2>2. cutPrev = [x \in Samples |-> IF x = s THEN 0 ELSE IF x = n THEN p ELSE prev[x]]
    BY <1>3, <1>5, <1>6, <1>7
  <2> QED BY <2>1, <2>2
<1> HIDE DEF p, n, cutNext, cutPrev
<1>8. ASSUME p # 0, IsRef(s), IsRef(first) PROVE Moved(s, 0)
  <2>1. next' = cutNext /\ prev' = cutPrev
    BY <1>2, <1>8
  <2> QED BY <1>5, <1>7, <1>8, <2>1 DEF Moved, p, n
<1>9. ASSUME p # 0, IsRef(s), ~IsRef(first) PROVE Moved(s, first)
  <2>1. next' = [cutNext EXCEPT ![s] = first] /\ prev' = [cutPrev EXCEPT ![first] = s]
    BY <1>2, <1>9
  <2>2. first # s /\ first # n
    BY <1>3, <1>4, <1>5, <1>9 DEF p
  <2> QED BY <1>3, <1>4, <1>5, <1>7, <1>9, <2>1, <2>2 DEF Moved, p, n
<1>10. \/ next' = next /\ prev' = prev /\ (IsRef(s) => prev[s] = 0)
       \/ /\ IsRef(s) /\ prev[s] # 0
          /\ \E q \in Samples \cup {0} : /\ q # 0 => prev[q] = 0 /\ ~IsRef(q)
                                         /\ Moved(s, q)
  <2>1. CASE ~IsRef(s) \/ p = 0
    BY <1>a, <2>1 DEF p
  <2>2. CASE IsRef(s) /\ p # 0 /\ IsRef(first)
    BY <1>8, <2>2 DEF p
  <2>3. CASE IsRef(s) /\ p # 0 /\ ~IsRef(first)
    BY <1>4, <1>9, <2>3 DEF p
  <2> QED BY <2>1, <2>2, <2>3
<1> QED BY <1>1, <1>3, <1>10 DEF s

\* Moving a detection keeps the links mutual and makes no ring.
LEMMA MovedLinks ==
  ASSUME LinkTypes, Acyclic, field' = field, NEW s \in Samples, prev[s] # 0,
         NEW q \in Samples \cup {0}, q # 0 => prev[q] = 0, Moved(s, q)
  PROVE  LinkTypes' /\ Acyclic'
<1> DEFINE p == prev[s]
           n == next[s]
<1>1. PICK m, rank : Rising(m, rank)
  BY DEF Acyclic
<1>2. /\ m \in Nat /\ rank \in [Samples -> 0..m]
      /\ \A a \in Samples : next[a] # 0 => rank[a] < rank[next[a]]
  BY <1>1 DEF Rising
<1>3. /\ next \in [Samples -> Samples \cup {0}] /\ prev \in [Samples -> Samples \cup {0}]
      /\ 0 \notin Samples /\ Samples' = Samples
      /\ \A a, b \in Samples : next[a] = b <=> prev[b] = a
  <2>1. Samples' = Samples
    BY DEF Samples
  <2> QED BY <2>1 DEF LinkTypes
<1>4. /\ p \in Samples /\ n \in Samples \cup {0} /\ next[p] = s /\ rank[p] < rank[s] /\ p # s
      /\ n # 0 => /\ prev[n] = s /\ rank[s] < rank[n] /\ n # s
      /\ q # s /\ (q # 0 => q # n)
  <2>1. p \in Samples /\ n \in Samples \cup {0} /\ next[p] = s /\ (n # 0 => prev[n] = s)
    BY <1>3
  <2>2. rank[p] < rank[s] /\ (n # 0 => rank[s] < rank[n])
    BY <1>2, <1>3, <2>1
  <2>3. rank[s] \in Int /\ q # s /\ (q # 0 => q # n)
    BY <1>2, <1>3, <2>1
  <2> QED BY <2>1, <2>2, <2>3
<1>5. /\ \A x \in Samples : next'[x] = IF x = s THEN q ELSE IF x = p THEN n ELSE next[x]
      /\ \A x \in Samples : prev'[x] = IF x = s THEN 0 ELSE IF x = q THEN s
                                       ELSE IF x = n THEN p ELSE prev[x]
      /\ next' \in [Samples -> Samples \cup {0}] /\ prev' \in [Samples -> Samples \cup {0}]
  BY <1>3, <1>4 DEF Moved
<1>6. ASSUME NEW a \in Samples, NEW b \in Samples PROVE next'[a] = b <=> prev'[b] = a
  <2>1. /\ next'[a] = IF a = s THEN q ELSE IF a = p THEN n ELSE next[a]
        /\ prev'[b] = IF b = s THEN 0 ELSE IF b = q THEN s ELSE IF b = n THEN p ELSE prev[b]
    BY <1>5
  <2>2. /\ next[a] = b <=> prev[b] = a
        /\ next[p] = b <=> prev[b] = p
        /\ next[a] = s <=> prev[s] = a
        /\ n # 0 => (next[a] = n <=> prev[n] = a)
        /\ q # 0 => (next[a] = q <=> prev[q] = a)
        /\ a # 0 /\ b # 0
    BY <1>3, <1>4
  <2> HIDE DEF p, n
  <2>3. p = prev[s] /\ n = next[s]
    BY DEF p, n
  <2> QED BY <1>4, <2>1, <2>2, <2>3
<1>7. LinkTypes'
  BY <1>3, <1>5, <1>6 DEF LinkTypes
<1>8. Acyclic'
  <2> DEFINE rank1 == [x \in Samples |-> IF x = s THEN 0 ELSE rank[x] + 1]
  <2>1. rank1 \in [Samples -> 0..m + 1] /\ m + 1 \in Nat
    BY <1>2
  <2>2. ASSUME NEW a \in Samples, next'[a] # 0 PROVE rank1[a] < rank1[next'[a]]
    <3>1. /\ next'[a] = IF a = s THEN q ELSE IF a = p THEN n ELSE next[a]
          /\ next'[a] \in Samples
      BY <1>3, <1>5, <2>2
    <3>2. a # s /\ a # p => next[a] # s
      BY <1>3
    <3>3. CASE a = s
      BY <1>2, <1>4, <3>1, <3>3
    <3>4. CASE a = p
      <4>1. next'[a] = n /\ n # 0
        BY <1>4, <2>2, <3>1, <3>4
      <4>2. rank[p] \in Nat /\ rank[n] \in Nat /\ rank[s] \in Nat
        BY <1>2, <1>4, <4>1
      <4>3. rank[p] + 1 < rank[n] + 1
        BY <1>4, <4>1, <4>2
      <4> HIDE DEF p, n
      <4> QED BY <1>3, <1>4, <3>1, <3>4, <4>1, <4>3
    <3>5. CASE a # s /\ a # p
      BY <1>2, <1>3, <2>2, <3>1, <3>2, <3>5
    <3> QED BY <3>3, <3>4, <3>5
  <2>a. PICK higher : higher = rank1
    OBVIOUS
  <2> HIDE DEF rank1
  <2>3. Rising(m + 1, higher)'
    BY <1>3, <2>1, <2>2, <2>a DEF Rising
  <2> QED BY <2>3 DEF Acyclic
<1> QED BY <1>7, <1>8

\* What follows a detection loses the one that is moved, and nothing else.
LEMMA MovedFollowers ==
  ASSUME LinkTypes, Acyclic, field' = field, NEW s \in Samples, prev[s] # 0, IsRef(s),
         NEW q \in Samples \cup {0}, q # 0 => prev[q] = 0, Moved(s, q),
         NEW x \in Samples, ~IsRef(x)
  PROVE  Followers(x)' = Followers(x)
<1>1. PICK m, rank : Rising(m, rank)
  BY DEF Acyclic
<1>2. /\ m \in Nat /\ rank \in [Samples -> 0..m]
      /\ \A a \in Samples : next[a] # 0 => rank[a] < rank[next[a]]
  BY <1>1 DEF Rising
<1>3. /\ next \in [Samples -> Samples \cup {0}] /\ prev \in [Samples -> Samples \cup {0}]
      /\ 0 \notin Samples /\ Samples' = Samples
      /\ \A a, b \in Samples : next[a] = b <=> prev[b] = a
  <2>1. Samples' = Samples
    BY DEF Samples
  <2> QED BY <2>1 DEF LinkTypes
<1>4. PICK f : Chains(f) /\ \A y \in Samples : Followers(y) = {t \in f[y] : ~IsRef(t)}
  BY FollowersAre DEF HasFollowers
<1>5. PICK g : Chains(g)' /\ \A y \in Samples : Followers(y)' = {t \in g[y] : ~IsRef(t)}
  <2>1. LinkTypes' /\ Acyclic'
    BY MovedLinks
  <2>a. HasFollowers'
    BY <2>1, FollowersAre, PTL
  <2>2. \E g : Chains(g)' /\ \A y \in Samples' : Followers(y)' = {t \in g[y] : ~IsRef(t)'}
    BY <2>a DEF HasFollowers
  <2>3. \A t : IsRef(t)' <=> IsRef(t)
    BY DEF IsRef
  <2> QED BY <1>3, <2>2, <2>3
<1> DEFINE p == prev[s]
           n == next[s]
           down == [y \in Samples |-> m - rank[y]]
           G == {y \in Samples : y # s => g[y] = f[y] \ {s}}
<1>6. ASSUME NEW y \in Samples
      PROVE  /\ f[y] = IF next[y] = 0 THEN {} ELSE {next[y]} \cup f[next[y]]
             /\ g[y] = IF next'[y] = 0 THEN {} ELSE {next'[y]} \cup g[next'[y]]
             /\ next'[y] = IF y = s THEN q ELSE IF y = p THEN n ELSE next[y]
             /\ next[y] # 0 => next[y] \in Samples /\ rank[y] < rank[next[y]] /\ next[y] # y
             /\ next[y] = s => y = p
  <2>1. f[y] = IF next[y] = 0 THEN {} ELSE {next[y]} \cup f[next[y]]
    BY <1>4 DEF Chains
  <2>2. g[y] = IF next'[y] = 0 THEN {} ELSE {next'[y]} \cup g[next'[y]]
    BY <1>3, <1>5 DEF Chains
  <2>3. next'[y] = IF y = s THEN q ELSE IF y = p THEN n ELSE next[y]
    BY DEF Moved
  <2>4. next[y] # 0 => next[y] \in Samples /\ rank[y] < rank[next[y]]
    BY <1>2, <1>3
  <2>5. rank[y] \in Int
    BY <1>2
  <2>6. next[y] = s => y = p
    BY <1>3
  <2> QED BY <2>1, <2>2, <2>3, <2>4, <2>5, <2>6
<1>7. p \in Samples /\ next[p] = s /\ rank[p] < rank[s]
  <2>1. p \in Samples /\ next[p] = s
    BY <1>3
  <2> QED BY <1>2, <1>3, <2>1
<1>8. n # 0 => n \in Samples /\ n # s /\ rank[s] < rank[n]
  BY <1>6
<1> HIDE DEF p
<1>9. ASSUME NEW y \in Samples, \A z \in Samples : down[z] < down[y] => z \in G
      PROVE  y \in G
  <2> SUFFICES ASSUME y # s PROVE g[y] = f[y] \ {s}
    OBVIOUS
  <2>1. CASE y = p
    <3>a. f[p] = (IF next[p] = 0 THEN {} ELSE {next[p]} \cup f[next[p]])
      BY <1>6, <1>7
    <3>b. f[s] = IF n = 0 THEN {} ELSE {n} \cup f[n]
      BY <1>6
    <3>c. g[p] = IF next'[p] = 0 THEN {} ELSE {next'[p]} \cup g[next'[p]]
      BY <1>6, <1>7
    <3>d. next'[p] = n /\ next[p] = s /\ s # 0
      <4>1. p # s
        <5>1. rank[s] \in Int
          BY <1>2
        <5> QED BY <1>7, <5>1
      <4>2. next'[p] = IF p = s THEN q ELSE IF p = p THEN n ELSE next[p]
        BY <1>6, <1>7
      <4> QED BY <1>3, <1>7, <4>1, <4>2
    <3> HIDE DEF n
    <3>1. f[y] = {s} \cup f[s] /\ f[s] = IF n = 0 THEN {} ELSE {n} \cup f[n]
      BY <2>1, <3>a, <3>b, <3>d
    <3>2. g[y] = IF n = 0 THEN {} ELSE {n} \cup g[n]
      BY <2>1, <3>c, <3>d
    <3>3. n # 0 => g[n] = f[n] \ {s}
      <4>1. n # 0 => down[n] < down[y]
        BY <1>2, <1>7, <1>8, <2>1
      <4>2. n # 0 => n \in G
        BY <1>8, <1>9, <4>1
      <4> QED BY <1>8, <4>2
    <3> QED BY <1>8, <3>1, <3>2, <3>3
  <2>2. CASE y # p
    <3> DEFINE z == next[y]
    <3>1. next'[y] = z /\ z # s /\ (z # 0 => z \in Samples /\ rank[y] < rank[z])
      BY <1>6, <2>2
    <3>a. f[y] = IF z = 0 THEN {} ELSE {z} \cup f[z]
      BY <1>6
    <3>b. g[y] = IF next'[y] = 0 THEN {} ELSE {next'[y]} \cup g[next'[y]]
      BY <1>6
    <3>2. f[y] = (IF z = 0 THEN {} ELSE {z} \cup f[z]) /\ g[y] = (IF z = 0 THEN {} ELSE {z} \cup g[z])
      <4>1. next'[y] = z
        BY <3>1
      <4> HIDE DEF z
      <4> QED BY <3>a, <3>b, <4>1
    <3> HIDE DEF z
    <3>3. z # 0 => g[z] = f[z] \ {s}
      <4>1. z # 0 => down[z] < down[y]
        BY <1>2, <3>1
      <4>2. z # 0 => z \in G
        BY <1>9, <3>1, <4>1
      <4> QED BY <3>1, <4>2
    <3> QED BY <3>1, <3>2, <3>3
  <2> QED BY <2>1, <2>2
<1>10. \A y \in Samples : y \in G
  <2>1. down \in [Samples -> Nat]
    BY <1>2
  <2> HIDE DEF G, down
  <2> QED BY <1>9, <2>1, RankInduction
<1>11. g[x] = f[x] \ {s}
  <2>1. x # s
    OBVIOUS
  <2> QED BY <1>10, <2>1
<1>12. {t \in g[x] : ~IsRef(t)} = {t \in f[x] : ~IsRef(t)}
  BY <1>11
<1> QED BY <1>4, <1>5, <1>12

---------------------------------------------------------------------------
(* The chains through all phases *)

\* Before the main loops there are no links; afterwards there are no rings, and
\* the references that have had their turn lead.
ChainInv ==
    /\ LinkTypes
    /\ phase = "add" => \A s \in Samples : next[s] = 0
    /\ phase \in {"move", "done"} => /\ Acyclic
                                     /\ phase = "move" => \A k \in 1..turn :
                                           IsRef(order[k]) => prev[order[k]] = 0
    /\ RefsLead

\* Links that lead forwards in time make no ring.
LEMMA ForwardRises ==
  ASSUME SkyInv, LinkTypes, Forward
  PROVE  Acyclic
<1>1. IsFiniteSet(Samples)
  <2>1. Len(field) \in Nat /\ Samples = 1..Len(field)
    BY DEF SkyInv, Samples
  <2> QED BY <2>1, FS_Interval
<1>2. StrictOrder(Samples, Order) /\ \A a, b \in Samples : Compare(a, b) < 0 => <<a, b>> \in Order
  BY OrderStrict
<1> DEFINE m == Cardinality(Samples)
           rank == [a \in Samples |-> RankBy(Samples, Order, a)]
<1>3. /\ m \in Nat /\ \A a \in Samples : RankBy(Samples, Order, a) \in 0..m - 1
      /\ \A a, b \in Samples : RankBy(Samples, Order, a) < RankBy(Samples, Order, b) <=> <<a, b>> \in Order
  BY <1>1, <1>2, OrderRanks
<1> HIDE DEF m
<1>4. rank \in [Samples -> 0..m]
  <2>1. \A a \in Samples : RankBy(Samples, Order, a) \in 0..m
    BY <1>3
  <2> QED BY <2>1
<1>5. ASSUME NEW a \in Samples, next[a] # 0 PROVE rank[a] < rank[next[a]]
  <2>1. next[a] \in Samples /\ <<a, next[a]>> \in Order
    BY <1>2, <1>5 DEF LinkTypes, Forward
  <2> QED BY <1>3, <2>1
<1> HIDE DEF rank
<1>6. Rising(m, rank)
  BY <1>3, <1>4, <1>5 DEF Rising
<1> QED BY <1>6 DEF Acyclic

Inv == /\ SkyInv /\ StoreInv /\ PhaseInv /\ PixelsInv /\ OrderInv
       /\ StackInv /\ MatchInv /\ ChainInv

\* The invariant holds in the beginning ...
LEMMA InvFirst ==
  Init => Inv
<1> SUFFICES ASSUME Init PROVE Inv
  OBVIOUS
<1>1. SkyInv /\ StoreInv
  BY SkyFirst
<1>2. /\ PixelStore_new /\ order = <<>> /\ stack = <<>> /\ turn = 0 /\ phase = "add"
      /\ next = [s \in Samples |-> 0] /\ prev = [s \in Samples |-> 0]
  BY DEF Init
<1>3. Len(field) \in Nat /\ 0 \notin Samples
  BY <1>1 DEF SkyInv, Samples
<1>4. PhaseInv
  BY <1>2, <1>3 DEF PhaseInv
<1>5. PixelsInv
  <2>1. tree.up = <<>> /\ samples = <<>>
    BY <1>2 DEF PixelStore_new
  <2>2. Nodes = {} /\ Added = {}
    BY <1>2, <2>1 DEF Nodes, Added
  <2>3. samples \in [Nodes -> Seq(Samples)]
    BY <2>1, <2>2
  <2> QED BY <1>2, <2>2, <2>3 DEF PixelsInv
<1>6. OrderInv
  BY <1>2 DEF OrderInv
<1>7. StackInv
  BY <1>2 DEF StackInv, Range
<1>8. MatchInv
  BY <1>2 DEF MatchInv, AllMatched
<1>9. LinkTypes
  BY <1>2, <1>3 DEF LinkTypes
<1>10. RefsLead
  BY <1>2 DEF RefsLead
<1>11. ChainInv
  BY <1>2, <1>9, <1>10 DEF ChainInv
<1> QED BY <1>1, <1>4, <1>5, <1>6, <1>7, <1>8, <1>11 DEF Inv

\* The links and the calls, at every step.
LEMMA LinksStep ==
  ASSUME LongBytes >= IdBytes, Inv, [Next]_vars
  PROVE  StackInv' /\ MatchInv' /\ ChainInv'
<1>1. /\ SkyInv /\ StoreInv /\ PhaseInv /\ PixelsInv /\ OrderInv
      /\ StackInv /\ MatchInv /\ ChainInv /\ LinkTypes /\ LinksInv
  BY DEF Inv, ChainInv, LinkTypes, LinksInv, LinksMutual
<1>2. field' = field /\ pos' = pos /\ epoch' = epoch
  BY DEF Next, Match, AddSample, SortPixels, NextSample, Refuse, Link, Return, Matched,
         MoveRef, Finish, vars, sky
<1>3. /\ Samples' = Samples /\ Calls' = Calls
      /\ \A x, y : Compare(x, y)' = Compare(x, y) /\ Dist(x, y)' = Dist(x, y)
      /\ \A x, y : Near(x, y)' = Near(x, y)
      /\ \A c : CallOk(c)' = CallOk(c) /\ \A t : Lists(c, t)' = Lists(c, t)
  BY <1>2, SameSky
<1>4. stack' = stack => StackInv'
  BY <1>1, <1>3 DEF StackInv
<1>5. next' = next /\ prev' = prev =>
        /\ LinkTypes' /\ (Acyclic => Acyclic') /\ (Forward => Forward')
        /\ \A x, y : Blocking(x, y)' = Blocking(x, y)
        /\ (phase' # "done" => RefsLead')
  <2> SUFFICES ASSUME next' = next /\ prev' = prev
               PROVE  /\ LinkTypes' /\ (Acyclic => Acyclic') /\ (Forward => Forward')
                      /\ \A x, y : Blocking(x, y)' = Blocking(x, y)
                      /\ (phase' # "done" => RefsLead')
    OBVIOUS
  <2>1. LinkTypes'
    BY <1>1, <1>3 DEF LinkTypes
  <2>2. Acyclic => Acyclic'
    BY <1>3 DEF Acyclic, Rising
  <2>3. Forward => Forward'
    BY <1>3 DEF Forward
  <2>4. \A x, y : Blocking(x, y)' = Blocking(x, y)
    BY <1>3 DEF Blocking, WantsNext, WantsPrev
  <2> QED BY <2>1, <2>2, <2>3, <2>4 DEF RefsLead
<1>6. CASE AddSample
  <2>1. phase = "add" /\ phase' = "add" /\ stack' = stack /\ next' = next /\ prev' = prev
    BY <1>6 DEF AddSample
  <2>2. MatchInv'
    BY <2>1 DEF MatchInv, AllMatched
  <2>3. ChainInv'
    BY <1>1, <1>3, <1>5, <2>1 DEF ChainInv
  <2> QED BY <1>4, <2>1, <2>2, <2>3
<1>7. CASE SortPixels
  <2>1. phase = "add" /\ phase' = "match" /\ stack' = stack /\ next' = next /\ prev' = prev
    BY <1>7 DEF SortPixels
  <2>2. Forward' /\ Covered'
    <3>1. \A s \in Samples : next[s] = 0
      BY <1>1, <2>1 DEF ChainInv
    <3> QED BY <1>1, <1>7, <3>1, StartCovers
  <2>3. MatchInv'
    BY <2>1, <2>2 DEF MatchInv, AllMatched
  <2>4. ChainInv'
    BY <1>5, <2>1 DEF ChainInv
  <2> QED BY <1>4, <2>1, <2>3, <2>4
<1>8. CASE NextSample
  <2>1. phase = "match" /\ phase' = "match" /\ next' = next /\ prev' = prev
    BY <1>8 DEF NextSample
  <2>2. Forward /\ Covered
    BY <1>1, <2>1 DEF MatchInv
  <2>3. StackInv' /\ Covered'
    BY <1>1, <1>8, <2>2, NextCovers
  <2>4. MatchInv'
    BY <1>5, <2>1, <2>2, <2>3 DEF MatchInv, AllMatched
  <2>5. ChainInv'
    BY <1>5, <2>1 DEF ChainInv
  <2> QED BY <2>3, <2>4, <2>5
<1>9. CASE Refuse \/ Link \/ Return
  <2>1. phase = "match" /\ phase' = "match"
    BY <1>1, <1>9 DEF PhaseInv, Refuse, Link, Return
  <2>2. Forward /\ Covered
    BY <1>1, <2>1 DEF MatchInv
  <2>3. StackInv' /\ LinksInv' /\ Forward' /\ Covered'
    <3>1. CASE Refuse
      BY <1>1, <2>2, <3>1, RefuseCovers
    <3>2. CASE Link
      BY <1>1, <2>2, <3>2, LinkCovers
    <3>3. CASE Return
      <4>1. next' = next /\ prev' = prev
        BY <3>3 DEF Return
      <4>2. LinksInv'
        BY <1>1, <1>3, <4>1 DEF LinksInv, LinksMutual
      <4> QED BY <1>1, <1>5, <2>2, <3>3, <4>1, <4>2, ReturnCovers
    <3> QED BY <1>9, <3>1, <3>2, <3>3
  <2>4. MatchInv'
    BY <2>1, <2>3 DEF MatchInv, AllMatched
  <2>5. LinkTypes'
    <3>1. 0 \notin Samples
      BY <1>1 DEF LinkTypes
    <3> QED BY <1>3, <2>3, <3>1 DEF LinksInv, LinksMutual, LinkTypes
  <2>6. ChainInv'
    BY <2>1, <2>5 DEF ChainInv, RefsLead
  <2> QED BY <2>3, <2>4, <2>6
<1>10. CASE Matched
  <2>1. /\ phase = "match" /\ phase' = "move" /\ turn' = 0 /\ stack = <<>> /\ stack' = stack
        /\ turn = Len(field) /\ next' = next /\ prev' = prev
    BY <1>10 DEF Matched
  <2>2. Forward /\ Covered /\ Acyclic
    BY <1>1, <2>1, ForwardRises DEF MatchInv
  <2>3. \A x, y \in Samples : Near(x, y) => ~Blocking(x, y)
    <3>1. \A c : c \notin Range(stack)
      BY <2>1 DEF Range
    <3>2. Len(field) \in Nat
      BY <1>1 DEF SkyInv
    <3>3. \A y : ~Awaited(y)
      BY <2>1, <3>2 DEF Awaited
    <3> QED BY <2>2, <3>1, <3>3 DEF Covered
  <2>4. Settled'
    BY <1>3, <1>5, <2>1, <2>2, <2>3 DEF Settled
  <2>5. MatchInv'
    BY <2>1, <2>4 DEF MatchInv
  <2>6. 1..turn' = {}
    BY <2>1
  <2>7. ChainInv'
    BY <1>5, <2>1, <2>2, <2>6 DEF ChainInv
  <2> QED BY <1>4, <2>1, <2>5, <2>7
<1>11. CASE MoveRef
  <2>0. phase = "move"
    BY <1>11 DEF MoveRef
  <2>a. Acyclic /\ \A k \in 1..turn : IsRef(order[k]) => prev[order[k]] = 0
    BY <1>1, <2>0 DEF ChainInv
  <2> DEFINE s == order[turn + 1]
  <2>1. /\ turn' = turn + 1 /\ turn + 1 \in 1..Len(field) /\ s \in Samples
        /\ phase = "move" /\ phase' = "move" /\ order' = order /\ stack' = stack
        /\ \/ next' = next /\ prev' = prev /\ (IsRef(s) => prev[s] = 0)
           \/ /\ IsRef(s) /\ prev[s] # 0
              /\ \E q \in Samples \cup {0} : /\ q # 0 => prev[q] = 0 /\ ~IsRef(q)
                                             /\ Moved(s, q)
    BY <1>1, <1>11, <2>a, MoveRefIs
  <2>2. turn \in Nat /\ \A k \in 1..turn' : k \in 1..turn \/ k = turn + 1
    BY <1>1, <2>1 DEF SkyInv
  <2>3. \A k \in 1..turn : order[k] \in Samples
    <3>1. order \in Seq(Samples) /\ Len(order) = Len(field) /\ Len(field) \in Nat
      BY <1>1, <2>1 DEF OrderInv, SkyInv
    <3>2. \A k \in 1..turn : k \in 1..Len(order)
      BY <2>1, <2>2, <3>1
    <3> QED BY <3>1, <3>2
  <2>4. LinkTypes' /\ Acyclic' /\ \A k \in 1..turn' : IsRef(order[k]) => prev'[order[k]] = 0
    <3>1. CASE next' = next /\ prev' = prev /\ (IsRef(s) => prev[s] = 0)
      BY <1>5, <2>a, <2>2, <3>1
    <3>2. CASE /\ IsRef(s) /\ prev[s] # 0
               /\ \E q \in Samples \cup {0} : /\ q # 0 => prev[q] = 0 /\ ~IsRef(q)
                                              /\ Moved(s, q)
      <4>1. PICK q \in Samples \cup {0} : (q # 0 => prev[q] = 0 /\ ~IsRef(q)) /\ Moved(s, q)
        BY <3>2
      <4> HIDE DEF s
      <4>2. LinkTypes' /\ Acyclic'
        BY <1>1, <1>2, <2>a, <2>1, <3>2, <4>1, MovedLinks
      <4>3. ASSUME NEW x \in Samples, IsRef(x), x # s => prev[x] = 0
            PROVE  prev'[x] = 0
        <5>1. prev'[x] = IF x = s THEN 0 ELSE IF x = q THEN s
                         ELSE IF x = next[s] THEN prev[s] ELSE prev[x]
          BY <4>1 DEF Moved
        <5>2. x # q
          BY <1>1, <4>1, <4>3 DEF LinkTypes
        <5>3. x # s => x # next[s]
          BY <1>1, <2>1, <4>3 DEF LinkTypes
        <5> QED BY <4>3, <5>1, <5>2, <5>3
      <4>4. \A k \in 1..turn' : IsRef(order[k]) => prev'[order[k]] = 0
        <5> SUFFICES ASSUME NEW k \in 1..turn', IsRef(order[k]) PROVE prev'[order[k]] = 0
          OBVIOUS
        <5>1. order[k] \in Samples /\ (order[k] # s => prev[order[k]] = 0)
          BY <2>a, <2>1, <2>2, <2>3 DEF s
        <5> QED BY <4>3, <5>1
      <4> QED BY <4>2, <4>4
    <3> QED BY <2>1, <3>1, <3>2
  <2>5. MatchInv'
    <3>1. turn' # 0
      BY <2>1, <2>2
    <3> QED BY <2>1, <3>1 DEF MatchInv, AllMatched
  <2>6. ChainInv'
    <3>1. \A t : IsRef(t)' <=> IsRef(t)
      BY <1>2 DEF IsRef
    <3> QED BY <2>1, <2>4, <3>1 DEF ChainInv, RefsLead
  <2> QED BY <1>4, <2>1, <2>5, <2>6
<1>12. CASE Finish
  <2>1. /\ phase = "move" /\ phase' = "done" /\ turn = Len(field) /\ stack' = stack
        /\ next' = next /\ prev' = prev
    BY <1>12 DEF Finish
  <2>2. Acyclic /\ \A k \in 1..turn : IsRef(order[k]) => prev[order[k]] = 0
    BY <1>1, <2>1 DEF ChainInv
  <2>3. ASSUME NEW x \in Samples, IsRef(x) PROVE prev[x] = 0
    <3>1. order \in Seq(Samples) /\ Range(order) = Samples /\ Len(order) = turn
      BY <1>1, <2>1 DEF OrderInv
    <3>2. PICK k \in 1..turn : order[k] = x
      BY <3>1 DEF Range
    <3> QED BY <2>2, <2>3, <3>2
  <2>4. RefsLead'
    BY <1>2, <1>3, <2>1, <2>3 DEF RefsLead, IsRef
  <2>5. MatchInv'
    BY <2>1 DEF MatchInv, AllMatched
  <2>6. ChainInv'
    BY <1>5, <2>1, <2>2, <2>4 DEF ChainInv
  <2> QED BY <1>4, <2>1, <2>5, <2>6
<1>13. CASE UNCHANGED vars
  <2>1. /\ phase' = phase /\ turn' = turn /\ order' = order /\ stack' = stack
        /\ next' = next /\ prev' = prev
    BY <1>13 DEF vars, stored
  <2>2. \A y : Awaited(y)' = Awaited(y)
    BY <1>2, <2>1 DEF Awaited
  <2>3. Covered => Covered'
    BY <1>3, <1>5, <2>1, <2>2 DEF Covered, Covers
  <2>4. MatchInv'
    BY <1>1, <1>3, <1>5, <2>1, <2>3 DEF MatchInv, AllMatched, Settled
  <2>5. RefsLead'
    BY <1>1, <1>2, <1>3, <2>1 DEF ChainInv, RefsLead, IsRef
  <2>6. ChainInv'
    BY <1>1, <1>2, <1>3, <1>5, <2>1, <2>5 DEF ChainInv, IsRef
  <2> QED BY <1>4, <2>1, <2>4, <2>6
<1> QED BY <1>6, <1>7, <1>8, <1>9, <1>10, <1>11, <1>12, <1>13 DEF Next, Match

\* ... and is kept by every step.
LEMMA InvNext ==
  ASSUME LongBytes >= IdBytes, Inv, [Next]_vars
  PROVE  Inv'
<1>1. SkyInv' /\ StoreInv' /\ PhaseInv'
  BY SkyNext, StoreNext, PhaseNext DEF Inv
<1>2. PixelsInv' /\ OrderInv'
  BY PixelsStep DEF Inv
<1>3. StackInv' /\ MatchInv' /\ ChainInv'
  BY LinksStep
<1> QED BY <1>1, <1>2, <1>3 DEF Inv

LEMMA InvStable ==
  Inv => Stable
<1> SUFFICES ASSUME Inv, AllMatched, NEW a \in Samples, NEW b \in Samples
             PROVE  /\ next[a] = b => Compare(a, b) < 0 /\ Dist(a, b) <= Radius
                    /\ Near(a, b) => ~Blocking(a, b)
  BY DEF Stable, Near
<1>1. Settled /\ LinkTypes
  BY DEF Inv, MatchInv, ChainInv
<1>2. b # 0
  BY <1>1 DEF LinkTypes
<1> QED BY <1>1, <1>2 DEF Settled, Forward

\* Moving a reference disturbs no chain of ordinary detections.
LEMMA KeptNext ==
  ASSUME Inv, [Next]_vars, phase = "move", NEW x \in Samples, ~IsRef(x)
  PROVE  Followers(x)' = Followers(x)
<1>1. /\ SkyInv /\ OrderInv /\ PhaseInv /\ LinkTypes /\ Acyclic /\ stack = <<>>
  BY DEF Inv, ChainInv, PhaseInv
<1>2. field' = field
  BY DEF Next, Match, AddSample, SortPixels, NextSample, Refuse, Link, Return, Matched,
         MoveRef, Finish, vars, sky
<1>3. next' = next => Followers(x)' = Followers(x)
  BY <1>2 DEF Followers, Samples, IsRef
<1>4. CASE MoveRef
  <2> DEFINE s == order[turn + 1]
  <2>1. /\ s \in Samples
        /\ \/ next' = next
           \/ /\ IsRef(s) /\ prev[s] # 0
              /\ \E q \in Samples \cup {0} : /\ q # 0 => prev[q] = 0 /\ ~IsRef(q)
                                             /\ Moved(s, q)
    BY <1>1, <1>4, MoveRefIs
  <2> HIDE DEF s
  <2>2. CASE next' = next
    BY <1>3, <2>2
  <2>3. CASE /\ IsRef(s) /\ prev[s] # 0
             /\ \E q \in Samples \cup {0} : /\ q # 0 => prev[q] = 0 /\ ~IsRef(q)
                                            /\ Moved(s, q)
    <3>1. PICK q \in Samples \cup {0} : (q # 0 => prev[q] = 0 /\ ~IsRef(q)) /\ Moved(s, q)
      BY <2>3
    <3> QED BY <1>1, <1>2, <2>1, <2>3, <3>1, MovedFollowers
  <2> QED BY <2>1, <2>2, <2>3
<1>5. CASE ~MoveRef
  <2>1. next' = next
    BY <1>1, <1>5 DEF Next, Match, AddSample, SortPixels, NextSample, Refuse, Link, Return,
                      Matched, Finish, vars
  <2> QED BY <1>3, <2>1
<1> QED BY <1>4, <1>5

---------------------------------------------------------------------------
(* Theorems *)

\* Links are mutual at every step: no detection is in two sources, whoever
\* loses a partner and whichever reference is moved.
THEOREM LinksMutualHolds ==
  LongBytes >= IdBytes => (Spec => []LinksMutual)
<1> SUFFICES ASSUME LongBytes >= IdBytes PROVE Spec => []LinksMutual
  OBVIOUS
<1>1. Inv => LinksMutual
  BY DEF Inv, ChainInv, LinkTypes, LinksMutual
<1> QED BY <1>1, InvFirst, InvNext, PTL DEF Spec

\* "change and relink many samples until it reaches a stable state"
\* (crossid.c:104): when the main loop is over no two detections in
\* neighbouring pixels would rather be linked to each other, and all links
\* lead forwards in time over no more than the radius.
THEOREM StableHolds ==
  LongBytes >= IdBytes => (Spec => []Stable)
<1> SUFFICES ASSUME LongBytes >= IdBytes PROVE Spec => []Stable
  OBVIOUS
<1> QED BY InvStable, InvFirst, InvNext, PTL DEF Spec

\* "Move every refsample at the begining of the linked samples"
\* (crossid.c:399): in the end nothing precedes a reference detection.
THEOREM RefsLeadHolds ==
  LongBytes >= IdBytes => (Spec => []RefsLead)
<1> SUFFICES ASSUME LongBytes >= IdBytes PROVE Spec => []RefsLead
  OBVIOUS
<1>1. Inv => RefsLead
  BY DEF Inv, ChainInv
<1> QED BY <1>1, InvFirst, InvNext, PTL DEF Spec

\* move_refsamples neither cuts nor joins the chains of ordinary detections.
THEOREM OrdinaryKeptHolds ==
  LongBytes >= IdBytes => (Spec => OrdinaryKept)
<1> SUFFICES ASSUME LongBytes >= IdBytes PROVE Spec => OrdinaryKept
  OBVIOUS
<1> DEFINE Kept == phase = "move" => \A s \in Samples : ~IsRef(s) => Followers(s)' = Followers(s)
<1>1. Inv /\ [Next]_vars => [Kept]_vars
  BY KeptNext
<1> HIDE DEF Kept
<1>2. Spec => [][Kept]_vars
  BY <1>1, InvFirst, InvNext, PTL DEF Spec
<1> QED BY <1>2 DEF OrdinaryKept, Kept
==============================================================================
