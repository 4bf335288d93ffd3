----------------------------- MODULE FoldLemmas -----------------------------
(***************************************************************************)
(* Facts about the operators on sets and sequences that the models are     *)
(* built from: the least element of a set of numbers, sums over a finite   *)
(* set, folds, the flattening of a sequence of sequences, the rank of an   *)
(* element among others.  Those operators are defined by recursion; what   *)
(* they compute is shown by induction, which is stated here over sets: the *)
(* numbers that have a property are all the numbers if 0 is among them and *)
(* every successor follows.                                                *)
(***************************************************************************)
EXTENDS SequencesExt, FiniteSetTheorems, WellFoundedInduction, TLAPS

---------------------------------------------------------------------------
(* Induction *)

\* A set of natural numbers has a least element: the order is well founded.
LEMMA Least ==
  ASSUME NEW R, NEW N, IsWellFoundedOn(R, N), N \subseteq Nat,
         \A x, y \in N : x < y => <<x, y>> \in R,
         NEW S, S \subseteq N, S # {}
  PROVE  \E x \in S : \A y \in S : x <= y
<1>1. \E x \in S : \A y \in S : ~ (<<y, x>> \in R)
  BY ONLY WFMin, IsWellFoundedOn(R, N), S \subseteq N, S # {}
<1>2. PICK x \in S : \A y \in S : ~ (<<y, x>> \in R)
  BY <1>1
<1>3. ASSUME NEW y \in S PROVE x <= y
  <2>1. x \in Nat /\ y \in Nat
    OBVIOUS
  <2>2. ~ (y < x)
    BY <1>2, <2>1
  <2> QED BY <2>1, <2>2
<1> QED BY <1>3

LEMMA LeastElement ==
  ASSUME NEW S, S \subseteq Nat, S # {}
  PROVE  \E x \in S : \A y \in S : x <= y
<1>1. IsWellFoundedOn(OpToRel(<, Nat), Nat)
  BY NatLessThanWellFounded, Zenon
<1>2. ASSUME NEW x \in Nat, NEW y \in Nat, x < y PROVE <<x, y>> \in OpToRel(<, Nat)
  BY <1>2 DEF OpToRel
<1> QED BY <1>1, <1>2, Least, Zenon

\* Min(S) is that element.
LEMMA MinInSet ==
  ASSUME NEW S, S \subseteq Nat, S # {}
  PROVE  Min(S) \in S /\ \A x \in S : Min(S) <= x
BY LeastElement DEF Min

\* What holds of 0 and passes from a number to the next holds of all.
LEMMA NumberInduction ==
  ASSUME NEW G, 0 \in G, \A n \in Nat : n \in G => n + 1 \in G
  PROVE  \A n \in Nat : n \in G
<1> SUFFICES ASSUME Nat \ G # {} PROVE FALSE
  OBVIOUS
<1>1. PICK n \in Nat \ G : \A m \in Nat \ G : n <= m
  BY LeastElement
<1>2. n - 1 \in Nat /\ ~(n <= n - 1)
  BY <1>1
<1>3. n - 1 \in G
  BY <1>1, <1>2
<1> QED BY <1>1, <1>2, <1>3

\* What holds of the empty set, and of a set if it holds without the element
\* that CHOOSE picks, holds of all subsets of a finite set.
LEMMA SubsetInduction ==
  ASSUME NEW S, IsFiniteSet(S), NEW G, {} \in G,
         \A T \in SUBSET S : T # {} /\ T \ {CHOOSE x \in T : TRUE} \in G => T \in G
  PROVE  \A T \in SUBSET S : T \in G
<1> DEFINE Good == {n \in Nat : \A T \in SUBSET S : Cardinality(T) = n => T \in G}
<1>1. 0 \in Good
  <2>1. ASSUME NEW T \in SUBSET S, Cardinality(T) = 0 PROVE T = {}
    BY <2>1, FS_Subset, FS_EmptySet
  <2> QED BY <2>1
<1>2. ASSUME NEW n \in Nat, n \in Good PROVE n + 1 \in Good
  <2> SUFFICES ASSUME NEW T \in SUBSET S, Cardinality(T) = n + 1 PROVE T \in G
    OBVIOUS
  <2> DEFINE x == CHOOSE y \in T : TRUE
  <2>1. IsFiniteSet(T)
    BY FS_Subset
  <2>2. T # {} /\ x \in T
    <3>1. T # {}
      BY FS_EmptySet, n + 1 # 0
    <3> QED BY <3>1
  <2>3. Cardinality(T \ {x}) = n
    <3> HIDE DEF x
    <3>1. Cardinality(T \ {x}) = Cardinality(T) - 1
      BY <2>1, <2>2, FS_RemoveElement
    <3> QED BY <3>1
  <2>4. T \ {x} \in G
    BY <1>2, <2>3
  <2> QED BY <2>2, <2>4
<1> HIDE DEF Good
<1>3. \A n \in Nat : n \in Good
  BY <1>1, <1>2, NumberInduction
<1>4. ASSUME NEW T \in SUBSET S PROVE Cardinality(T) \in Nat
  BY FS_Subset, FS_CardinalityType
<1> QED BY <1>3, <1>4 DEF Good

---------------------------------------------------------------------------
(* Walks *)

\* What holds of x as soon as it holds of all that rank lower holds of all.
LEMMA RankInduction ==
  ASSUME NEW S, NEW rank \in [S -> Nat], NEW G,
         \A x \in S : (\A y \in S : rank[y] < rank[x] => y \in G) => x \in G
  PROVE  \A x \in S : x \in G
<1> SUFFICES ASSUME NEW z \in S \ G PROVE FALSE
  OBVIOUS
<1> DEFINE bad == {rank[x] : x \in S \ G}
<1>1. bad \subseteq Nat /\ bad # {}
  OBVIOUS
<1>2. PICK r \in bad : \A s \in bad : r <= s
  <2> HIDE DEF bad
  <2> QED BY <1>1, LeastElement
<1>3. PICK x \in S \ G : r = rank[x]
  BY <1>2
<1>4. ASSUME NEW y \in S, rank[y] < rank[x] PROVE y \in G
  <2>1. y \notin G => rank[y] \in bad
    OBVIOUS
  <2>2. rank[y] \in Nat /\ rank[x] \in Nat
    BY <1>3
  <2> HIDE DEF bad
  <2>3. y \notin G => rank[x] <= rank[y]
    BY <1>2, <1>3, <2>1
  <2> QED BY <1>4, <2>2, <2>3
<1> QED BY <1>3, <1>4

\* The recursion along a walk from x to the link place, and so on to the end.
WalkRecursion(S, end, link, base, step, g) ==
    g = [x \in S \cup {end} |-> IF x = end THEN base ELSE step[<<x, g[link[x]]>>]]

\* Every place of the walk ranks lower than the one before; the values that are
\* computed on the way are in A.
Walk(S, end, link, rank, A, base, step) ==
    /\ end \notin S /\ link \in [S -> S \cup {end}] /\ rank \in [S -> Nat]
    /\ \A x \in S : link[x] # end => rank[link[x]] < rank[x]
    /\ base \in A /\ \A x \in S : \A a \in A : step[<<x, a>>] \in A

LEMMA WalkDefined ==
  ASSUME NEW S, NEW end, NEW link, NEW rank, NEW A, NEW base, NEW step,
         Walk(S, end, link, rank, A, base, step)
  PROVE  \E g : /\ WalkRecursion(S, end, link, base, step, g)
                /\ \A x \in S \cup {end} : g[x] \in A
<1>a. /\ end \notin S /\ link \in [S -> S \cup {end}] /\ rank \in [S -> Nat]
      /\ \A x \in S : link[x] # end => rank[link[x]] < rank[x]
      /\ base \in A /\ \A x \in S : \A a \in A : step[<<x, a>>] \in A
  BY DEF Walk
<1> USE <1>a
<1> DEFINE upto(n) == {x \in S : rank[x] < n}
           val(h, x) == step[<<x, IF link[x] = end THEN base ELSE h[link[x]]>>]
           Solves(n, h) == h = [x \in upto(n) |-> val(h, x)]
<1>0. ASSUME NEW n \in Nat, NEW x \in upto(n), link[x] # end
      PROVE  /\ link[x] \in upto(n) /\ link[x] \in S /\ rank[link[x]] < rank[x]
             /\ rank[link[x]] \in Nat /\ rank[x] \in Nat /\ rank[x] < n
  <2>1. link[x] \in S /\ rank[link[x]] < rank[x] /\ rank[x] < n
    BY <1>0
  <2>2. rank[link[x]] \in Nat /\ rank[x] \in Nat
    BY <2>1
  <2> QED BY <2>1, <2>2
<1>1. \A n \in Nat : \E h : Solves(n, h)
  <2> DEFINE Good == {n \in Nat : \E h : Solves(n, h)}
  <2>1. 0 \in Good
    <3>1. upto(0) = {}
      OBVIOUS
    <3> DEFINE none == [x \in {} |-> base]
    <3>2. none = [x \in upto(0) |-> val(none, x)]
      BY <3>1
    <3> HIDE DEF none
    <3> QED BY <3>2
  <2>2. ASSUME NEW n \in Nat, n \in Good PROVE n + 1 \in Good
    <3>1. PICK h : Solves(n, h)
      BY <2>2
    <3> DEFINE e == [x \in upto(n + 1) |-> val(h, x)]
    <3>2. ASSUME NEW x \in upto(n + 1) PROVE e[x] = val(e, x)
      <4>1. CASE link[x] = end
        BY <4>1
      <4>2. CASE link[x] # end
        <5>1. link[x] \in upto(n + 1) /\ link[x] \in upto(n)
          <6>1. link[x] \in upto(n + 1) /\ link[x] \in S /\ rank[link[x]] < rank[x]
                /\ rank[link[x]] \in Nat /\ rank[x] \in Nat /\ rank[x] < n + 1
            BY <1>0, <4>2
          <6> QED BY <6>1
        <5>2. h[link[x]] = val(h, link[x]) /\ e[link[x]] = val(h, link[x])
          BY <3>1, <5>1
        <5>3. e[x] = val(h, x)
          OBVIOUS
        <5> HIDE DEF e
        <5>4. val(h, x) = val(e, x)
          BY <5>2
        <5> QED BY <5>3, <5>4
      <4> QED BY <4>1, <4>2
    <3>3. e = [x \in upto(n + 1) |-> e[x]]
      OBVIOUS
    <3> HIDE DEF e, val, upto
    <3>4. Solves(n + 1, e)
      BY <3>2, <3>3
    <3> HIDE DEF Solves
    <3> QED BY <3>4
  <2> HIDE DEF Good
  <2>3. \A n \in Nat : n \in Good
    BY <2>1, <2>2, NumberInduction
  <2> QED BY <2>3 DEF Good
<1> DEFINE Same == {x \in S : \A m, n \in Nat : \A g, h :
                       Solves(m, g) /\ Solves(n, h) /\ x \in upto(m) /\ x \in upto(n)
                          => g[x] = h[x] /\ g[x] \in A}
<1>2. \A x \in S : x \in Same
  <2>1. ASSUME NEW x \in S, \A y \in S : rank[y] < rank[x] => y \in Same
        PROVE  x \in Same
    <3> SUFFICES ASSUME NEW m \in Nat, NEW n \in Nat, NEW g, NEW h, Solves(m, g), Solves(n, h),
                        x \in upto(m), x \in upto(n)
                 PROVE  g[x] = h[x] /\ g[x] \in A
      <4> HIDE DEF Solves, upto
      <4> QED OBVIOUS
    <3>1. g[x] = val(g, x) /\ h[x] = val(h, x)
      OBVIOUS
    <3>2. CASE link[x] = end
      BY <3>1, <3>2
    <3>3. CASE link[x] # end
      <4>1. link[x] \in upto(m) /\ link[x] \in upto(n) /\ link[x] \in S /\ rank[link[x]] < rank[x]
        BY <1>0, <3>3
      <4>0. link[x] \in Same
        <5> HIDE DEF Same
        <5> QED BY <2>1, <4>1
      <4>2. g[link[x]] = h[link[x]] /\ g[link[x]] \in A
        <5> HIDE DEF Solves, upto
        <5> QED BY <4>0, <4>1
      <4> HIDE DEF Same, Solves
      <4> QED BY <3>1, <3>3, <4>2
    <3> QED BY <3>2, <3>3
  <2> HIDE DEF Same
  <2> QED BY <2>1, RankInduction
<1> DEFINE sol(n) == CHOOSE h : Solves(n, h)
           g == [x \in S \cup {end} |-> IF x = end THEN base ELSE sol(rank[x] + 1)[x]]
<1>3. \A n \in Nat : Solves(n, sol(n))
  <2> HIDE DEF Solves
  <2> QED BY <1>1
<1> HIDE DEF sol
<1>4. ASSUME NEW x \in S PROVE g[x] = step[<<x, g[link[x]]>>] /\ g[x] \in A
  <2>1. rank[x] \in Nat /\ rank[x] + 1 \in Nat /\ x \in upto(rank[x] + 1)
    OBVIOUS
  <2>2. Solves(rank[x] + 1, sol(rank[x] + 1))
    BY <1>3, <2>1
  <2>3. g[x] = sol(rank[x] + 1)[x]
    OBVIOUS
  <2>4. sol(rank[x] + 1)[x] = val(sol(rank[x] + 1), x)
    BY <2>1, <2>2
  <2>5. sol(rank[x] + 1)[x] \in A
    <3> HIDE DEF Solves, upto
    <3> QED BY <1>2, <2>1, <2>2
  <2>6. (IF link[x] = end THEN base ELSE sol(rank[x] + 1)[link[x]]) = g[link[x]]
    <3>1. CASE link[x] = end
      BY <3>1
    <3>2. CASE link[x] # end
      <4> DEFINE y == link[x]
      <4>1. /\ y \in upto(rank[x] + 1) /\ y \in S /\ rank[y] \in Nat /\ rank[y] + 1 \in Nat
            /\ y \in upto(rank[y] + 1)
        BY <1>0, <2>1, <3>2
      <4>2. Solves(rank[y] + 1, sol(rank[y] + 1))
        BY <1>3, <4>1
      <4>3. y \in Same
        BY <1>2, <4>1
      <4>4. sol(rank[x] + 1)[y] = sol(rank[y] + 1)[y]
        <5> HIDE DEF y, Solves, upto
        <5> QED BY <2>1, <2>2, <4>1, <4>2, <4>3
      <4>5. g[y] = sol(rank[y] + 1)[y]
        BY <4>1
      <4> QED BY <3>2, <4>4, <4>5
    <3> QED BY <3>1, <3>2
  <2> HIDE DEF g, Solves
  <2> QED BY <2>3, <2>4, <2>5, <2>6
<1>5. g = [x \in S \cup {end} |-> IF x = end THEN base ELSE step[<<x, g[link[x]]>>]]
  <2>1. g = [x \in S \cup {end} |-> g[x]] /\ g[end] = base
    OBVIOUS
  <2> HIDE DEF g
  <2> QED BY <1>4, <2>1
<1>6. \A x \in S \cup {end} : g[x] \in A
  <2>1. g[end] = base
    OBVIOUS
  <2> HIDE DEF g
  <2> QED BY <1>4, <2>1
<1> HIDE DEF g
<1> QED BY <1>5, <1>6 DEF WalkRecursion

---------------------------------------------------------------------------
(* Sums over a finite set *)

\* The recursion that SumFunctionOnSet(f, S) is defined by; it has a solution.
SumRecursion(f, S, g) ==
    g = [T \in SUBSET S |-> IF T = {} THEN 0
                            ELSE f[CHOOSE x \in T : TRUE] + g[T \ {CHOOSE x \in T : TRUE}]]

LEMMA SumDefined ==
  ASSUME NEW S, IsFiniteSet(S), NEW f
  PROVE  \E g : SumFunctionOnSet(f, S) = g[S] /\ SumRecursion(f, S, g)
<1> DEFINE pick(T) == CHOOSE x \in T : TRUE
           small(n) == {T \in SUBSET S : Cardinality(T) <= n}
           step(g, T) == IF T = {} THEN 0 ELSE f[pick(T)] + g[T \ {pick(T)}]
           Good == {n \in Nat : \E g : g = [T \in small(n) |-> step(g, T)]}
<1>1. ASSUME NEW T \in SUBSET S, T # {}
      PROVE  /\ pick(T) \in T /\ T \ {pick(T)} \in SUBSET S
             /\ Cardinality(T) \in Nat \ {0}
             /\ Cardinality(T \ {pick(T)}) = Cardinality(T) - 1
  <2>1. pick(T) \in T
    BY <1>1
  <2>2. IsFiniteSet(T)
    BY FS_Subset
  <2>3. Cardinality(T) \in Nat /\ Cardinality(T) # 0
    BY <1>1, <2>2, FS_CardinalityType, FS_EmptySet
  <2> HIDE DEF pick
  <2> QED BY <2>1, <2>2, <2>3, FS_RemoveElement
<1>2. 0 \in Good
  <2>1. ASSUME NEW T \in small(0) PROVE T = {}
    <3>1. Cardinality(T) <= 0
      OBVIOUS
    <3>2. T # {} => Cardinality(T) \in Nat \ {0}
      BY <1>1
    <3> QED BY <3>1, <3>2
  <2> DEFINE g == [T \in small(0) |-> 0]
  <2>2. g = [T \in small(0) |-> step(g, T)]
    BY <2>1
  <2> HIDE DEF g
  <2> QED BY <2>2
<1> HIDE DEF pick
<1>3. ASSUME NEW n \in Nat, n \in Good PROVE n + 1 \in Good
  <2>1. PICK g : g = [T \in small(n) |-> step(g, T)]
    BY <1>3
  <2> DEFINE h == [T \in small(n + 1) |-> step(g, T)]
  <2>2. ASSUME NEW T \in small(n + 1) PROVE h[T] = step(h, T)
    <3>1. CASE T = {}
      BY <3>1
    <3>2. CASE T # {}
      <4> DEFINE U == T \ {pick(T)}
      <4>1. U \in small(n)
        BY <1>1, <3>2
      <4>2. U \in small(n + 1)
        BY <1>1, <3>2
      <4>3. g[U] = step(g, U)
        BY <2>1, <4>1
      <4>4. h[U] = step(g, U)
        BY <4>2
      <4> HIDE DEF U
      <4>5. h[T] = f[pick(T)] + g[U]
        BY <3>2 DEF U
      <4>6. step(h, T) = f[pick(T)] + h[U]
        BY <3>2 DEF U
      <4> QED BY <4>3, <4>4, <4>5, <4>6
    <3> QED BY <3>1, <3>2
  <2>3. h = [T \in small(n + 1) |-> step(h, T)]
    BY <2>2
  <2> HIDE DEF h
  <2>4. \E k : k = [T \in small(n + 1) |-> step(k, T)]
    BY <2>3, Zenon
  <2> HIDE DEF small, step
  <2> QED BY <2>4
<1>4. \A n \in Nat : n \in Good
  <2> HIDE DEF Good
  <2> QED BY <1>2, <1>3, NumberInduction
<1>5. small(Cardinality(S)) = SUBSET S /\ Cardinality(S) \in Nat
  BY FS_CardinalityType, FS_Subset
<1>6. \E g : g = [T \in SUBSET S |-> step(g, T)]
  BY <1>4, <1>5
<1> DEFINE sum == CHOOSE g : g = [T \in SUBSET S |-> step(g, T)]
<1>7. sum = [T \in SUBSET S |-> step(sum, T)]
  BY <1>6
<1>8. SumFunctionOnSet(f, S) = sum[S]
  BY DEF SumFunctionOnSet, FoldFunctionOnSet, MapThenFoldSet, pick
<1>9. SumRecursion(f, S, sum)
  BY <1>7 DEF SumRecursion, pick
<1> HIDE DEF sum
<1> QED BY <1>8, <1>9
LEMMA SumNat ==
  ASSUME NEW S, IsFiniteSet(S), NEW f \in [S -> Nat]
  PROVE  SumFunctionOnSet(f, S) \in Nat
<1>1. PICK g : SumFunctionOnSet(f, S) = g[S] /\ SumRecursion(f, S, g)
  BY SumDefined
<1> DEFINE G == {T \in SUBSET S : g[T] \in Nat}
<1>2. {} \in G
  BY <1>1 DEF SumRecursion
<1>3. ASSUME NEW T \in SUBSET S, T # {}, T \ {CHOOSE x \in T : TRUE} \in G
      PROVE  T \in G
  <2> DEFINE x == CHOOSE y \in T : TRUE
  <2>1. g[T] = f[x] + g[T \ {x}]
    BY <1>1, <1>3 DEF SumRecursion
  <2>2. x \in S
    BY <1>3
  <2>3. g[T \ {x}] \in Nat
    BY <1>3
  <2> HIDE DEF x
  <2> QED BY <2>1, <2>2, <2>3
<1> HIDE DEF G
<1>4. \A T \in SUBSET S : T \in G
  BY <1>2, <1>3, SubsetInduction
<1> QED BY <1>1, <1>4 DEF G

\* A sum changes by as much as the one term that changes.
DifferAt(f, h, S, x) == /\ f \in [S -> Int] /\ h \in [S -> Int] /\ x \in S
                        /\ \A y \in S \ {x} : h[y] = f[y]
SumsDiffer(f, h, S, x) == /\ SumFunctionOnSet(f, S) \in Int
                          /\ SumFunctionOnSet(h, S) = SumFunctionOnSet(f, S) + h[x] - f[x]

LEMMA SumChanges ==
  ASSUME NEW S, IsFiniteSet(S), NEW f, NEW h, NEW x, DifferAt(f, h, S, x)
  PROVE  SumsDiffer(f, h, S, x)
<1>0. /\ f \in [S -> Int] /\ h \in [S -> Int] /\ x \in S
      /\ \A y \in S \ {x} : h[y] = f[y]
  BY DEF DifferAt
<1>1. PICK g : SumFunctionOnSet(f, S) = g[S] /\ SumRecursion(f, S, g)
  BY SumDefined
<1>2. PICK k : SumFunctionOnSet(h, S) = k[S] /\ SumRecursion(h, S, k)
  BY SumDefined
<1> DEFINE G == {T \in SUBSET S : /\ g[T] \in Int
                                  /\ x \in T => k[T] = g[T] + h[x] - f[x]
                                  /\ x \notin T => k[T] = g[T]}
<1>3. {} \in G
  BY <1>0, <1>1, <1>2 DEF SumRecursion
<1>4. ASSUME NEW T \in SUBSET S, T # {}, T \ {CHOOSE y \in T : TRUE} \in G
      PROVE  T \in G
  <2> DEFINE z == CHOOSE y \in T : TRUE
             U == T \ {z}
  <2>1. g[T] = f[z] + g[U] /\ k[T] = h[z] + k[U]
    BY <1>0, <1>1, <1>2, <1>4 DEF SumRecursion
  <2>2. z \in T /\ z \in S
    BY <1>4
  <2>3. U \in G /\ U \in SUBSET S /\ z \notin U /\ T = U \cup {z}
    BY <1>4, <2>2
  <2> HIDE DEF z, U
  <2>4. g[T] \in Int
    BY <1>0, <2>1, <2>2, <2>3
  <2>5. CASE z = x
    BY <1>0, <2>1, <2>2, <2>3, <2>4, <2>5
  <2>6. CASE z # x
    <3>1. f[z] = h[z]
      BY <1>0, <2>2, <2>6
    <3>2. x \in T <=> x \in U
      BY <2>3, <2>6
    <3> QED BY <1>0, <2>1, <2>2, <2>3, <2>4, <3>1, <3>2
  <2> QED BY <2>5, <2>6
<1> HIDE DEF G
<1>5. \A T \in SUBSET S : T \in G
  BY <1>3, <1>4, SubsetInduction
<1> QED BY <1>0, <1>1, <1>2, <1>5 DEF G, SumsDiffer

\* A sum of zeroes.
LEMMA SumZero ==
  ASSUME NEW S, IsFiniteSet(S), NEW f, \A x \in S : f[x] = 0
  PROVE  SumFunctionOnSet(f, S) = 0
<1>1. PICK g : SumFunctionOnSet(f, S) = g[S] /\ SumRecursion(f, S, g)
  BY SumDefined
<1> DEFINE G == {T \in SUBSET S : g[T] = 0}
<1>2. {} \in G
  BY <1>1 DEF SumRecursion
<1>3. ASSUME NEW T \in SUBSET S, T # {}, T \ {CHOOSE x \in T : TRUE} \in G
      PROVE  T \in G
  <2> DEFINE x == CHOOSE y \in T : TRUE
  <2>1. g[T] = f[x] + g[T \ {x}]
    BY <1>1, <1>3 DEF SumRecursion
  <2>2. x \in S
    BY <1>3
  <2>3. g[T \ {x}] = 0
    BY <1>3
  <2> HIDE DEF x
  <2> QED BY <2>1, <2>2, <2>3
<1> HIDE DEF G
<1>4. \A T \in SUBSET S : T \in G
  BY <1>2, <1>3, SubsetInduction
<1> QED BY <1>1, <1>4 DEF G

\* Whatever element is taken first, the others sum to the rest.
LEMMA SumWithout ==
  ASSUME NEW S, IsFiniteSet(S), NEW f, \A y \in S : f[y] \in Int, NEW x \in S
  PROVE  /\ SumFunctionOnSet(f, S \ {x}) \in Int
         /\ SumFunctionOnSet(f, S) = f[x] + SumFunctionOnSet(f, S \ {x})
<1>1. PICK g : SumFunctionOnSet(f, S) = g[S] /\ SumRecursion(f, S, g)
  BY SumDefined
<1> DEFINE G == {T \in SUBSET S :
                   g[T] \in Int /\ \A z \in T : g[T \ {z}] \in Int /\ g[T] = f[z] + g[T \ {z}]}
           Good == {n \in Nat : \A T \in SUBSET S : Cardinality(T) = n => T \in G}
<1>2. 0 \in Good
  <2>1. ASSUME NEW T \in SUBSET S, Cardinality(T) = 0 PROVE T = {}
    BY <2>1, FS_Subset, FS_EmptySet
  <2> QED BY <1>1, <2>1 DEF SumRecursion
<1>3. ASSUME NEW n \in Nat, n \in Good PROVE n + 1 \in Good
  <2> SUFFICES ASSUME NEW T \in SUBSET S, Cardinality(T) = n + 1 PROVE T \in G
    OBVIOUS
  <2> DEFINE y == CHOOSE z \in T : TRUE
  <2>1. T # {} /\ IsFiniteSet(T)
    BY FS_EmptySet, FS_Subset, n + 1 # 0
  <2>2. y \in T /\ g[T] = f[y] + g[T \ {y}]
    BY <1>1, <2>1 DEF SumRecursion
  <2> HIDE DEF y
  <2>3. ASSUME NEW z \in T PROVE T \ {z} \in G
    <3>1. Cardinality(T \ {z}) = Cardinality(T) - 1
      BY <2>1, FS_RemoveElement
    <3>2. Cardinality(T \ {z}) = n /\ T \ {z} \in SUBSET S
      BY <3>1
    <3> HIDE DEF G
    <3> QED BY <1>3, <3>2
  <2>4. ASSUME NEW z \in T PROVE g[T \ {z}] \in Int /\ g[T] = f[z] + g[T \ {z}]
    <3>1. CASE z = y
      BY <2>2, <2>3, <3>1
    <3>2. CASE z # y
      <4>1. /\ g[T \ {y}] = f[z] + g[(T \ {y}) \ {z}]
            /\ g[T \ {z}] = f[y] + g[(T \ {z}) \ {y}]
            /\ g[T \ {z}] \in Int /\ g[(T \ {y}) \ {z}] \in Int
        BY <2>2, <2>3, <3>2
      <4>2. (T \ {y}) \ {z} = (T \ {z}) \ {y}
        OBVIOUS
      <4>3. f[y] \in Int /\ f[z] \in Int
        BY <2>2
      <4> DEFINE r == g[(T \ {y}) \ {z}]
      <4>4. g[T \ {y}] = f[z] + r /\ g[T \ {z}] = f[y] + r /\ r \in Int
        BY <4>1, <4>2
      <4> HIDE DEF r
      <4> QED BY <2>2, <4>1, <4>3, <4>4
    <3> QED BY <3>1, <3>2
  <2>5. g[T] \in Int
    <3>1. f[y] \in Int /\ g[T \ {y}] \in Int
      BY <2>2, <2>3
    <3> QED BY <2>2, <3>1
  <2> QED BY <2>4, <2>5
<1> HIDE DEF Good
<1>4. \A n \in Nat : n \in Good
  BY <1>2, <1>3, NumberInduction
<1>5. \A T \in SUBSET S : T \in G
  <2>1. ASSUME NEW T \in SUBSET S PROVE Cardinality(T) \in Nat
    BY FS_Subset, FS_CardinalityType
  <2> HIDE DEF G
  <2> QED BY <1>4, <2>1 DEF Good
<1>6. PICK k : SumFunctionOnSet(f, S \ {x}) = k[S \ {x}] /\ SumRecursion(f, S \ {x}, k)
  BY SumDefined, FS_Subset
<1> DEFINE H == {T \in SUBSET (S \ {x}) : k[T] = g[T]}
<1>7. {} \in H
  BY <1>1, <1>6 DEF SumRecursion
<1>8. ASSUME NEW T \in SUBSET (S \ {x}), T # {}, T \ {CHOOSE y \in T : TRUE} \in H
      PROVE  T \in H
  <2> DEFINE y == CHOOSE z \in T : TRUE
  <2>1. k[T] = f[y] + k[T \ {y}] /\ g[T] = f[y] + g[T \ {y}]
    BY <1>1, <1>6, <1>8 DEF SumRecursion
  <2>2. k[T \ {y}] = g[T \ {y}]
    BY <1>8
  <2> QED BY <2>1, <2>2
<1> HIDE DEF H
<1>9. \A T \in SUBSET (S \ {x}) : T \in H
  <2>1. IsFiniteSet(S \ {x})
    BY FS_Subset
  <2> QED BY <1>7, <1>8, <2>1, SubsetInduction
<1>10. k[S \ {x}] = g[S \ {x}] /\ g[S \ {x}] \in Int /\ g[S] = f[x] + g[S \ {x}]
  BY <1>5, <1>9 DEF H
<1> QED BY <1>1, <1>6, <1>10

---------------------------------------------------------------------------
(* A fold over a sequence, from the first element to the last *)

LEMMA MaxInSet ==
  ASSUME NEW n \in Nat, NEW S, S \subseteq 1..n, S # {}
  PROVE  Max(S) \in S /\ \A x \in S : x <= Max(S)
<1> DEFINE R == {n - x : x \in S}
<1>1. R \subseteq Nat /\ R # {}
  <2>1. ASSUME NEW x \in S PROVE n - x \in Nat
    OBVIOUS
  <2>2. PICK x \in S : TRUE
    OBVIOUS
  <2>3. n - x \in R
    OBVIOUS
  <2> QED BY <2>1, <2>3
<1>2. PICK r \in R : \A q \in R : r <= q
  <2> HIDE DEF R
  <2> QED BY <1>1, LeastElement
<1>3. n - r \in S /\ \A x \in S : x <= n - r
  <2>1. PICK y \in S : r = n - y
    BY <1>2
  <2>2. y \in Nat /\ n - r = y
    BY <2>1
  <2>3. ASSUME NEW x \in S PROVE x <= n - r
    BY <1>2, <2>1
  <2> QED BY <2>2, <2>3
<1>4. \E x \in S : \A y \in S : x >= y
  BY <1>3
<1> QED BY <1>4 DEF Max

\* The recursion that FoldLeft is defined by; it has a solution.
FoldRecursion(n, base, step, g) ==
    g = [T \in SUBSET (1..n) |-> IF T = {} THEN base ELSE step[<<Max(T), g[T \ {Max(T)}]>>]]

LEMMA FoldDefined ==
  ASSUME NEW n \in Nat, NEW A, NEW base \in A, NEW step,
         \A i \in 1..n : \A a \in A : step[<<i, a>>] \in A
  PROVE  \E g : FoldRecursion(n, base, step, g) /\ \A T \in SUBSET (1..n) : g[T] \in A
<1> DEFINE S == 1..n
           small(m) == {T \in SUBSET S : Cardinality(T) <= m}
           next(g, T) == IF T = {} THEN base ELSE step[<<Max(T), g[T \ {Max(T)}]>>]
           Good == {m \in Nat : \E g : /\ g = [T \in small(m) |-> next(g, T)]
                                       /\ \A T \in small(m) : g[T] \in A}
<1>0. IsFiniteSet(S)
  BY FS_Interval
<1>1. ASSUME NEW T \in SUBSET S, T # {}
      PROVE  /\ Max(T) \in T /\ Max(T) \in 1..n /\ T \ {Max(T)} \in SUBSET S
             /\ Cardinality(T) \in Nat \ {0}
             /\ Cardinality(T \ {Max(T)}) = Cardinality(T) - 1
  <2>1. Max(T) \in T
    BY <1>1, MaxInSet
  <2>2. IsFiniteSet(T)
    BY <1>0, FS_Subset
  <2>3. Cardinality(T) \in Nat /\ Cardinality(T) # 0
    BY <1>1, <2>2, FS_CardinalityType, FS_EmptySet
  <2> QED BY <2>1, <2>2, <2>3, FS_RemoveElement
<1> HIDE DEF S
<1>2. 0 \in Good
  <2>1. ASSUME NEW T \in small(0) PROVE T = {}
    <3>1. Cardinality(T) <= 0
      OBVIOUS
    <3>2. T # {} => Cardinality(T) \in Nat \ {0}
      BY <1>1
    <3> QED BY <3>1, <3>2
  <2> DEFINE g == [T \in small(0) |-> base]
  <2>2. g = [T \in small(0) |-> next(g, T)] /\ \A T \in small(0) : g[T] \in A
    BY <2>1
  <2> HIDE DEF g
  <2> QED BY <2>2
<1>3. ASSUME NEW m \in Nat, m \in Good PROVE m + 1 \in Good
  <2>1. PICK g : g = [T \in small(m) |-> next(g, T)] /\ \A T \in small(m) : g[T] \in A
    BY <1>3
  <2> DEFINE h == [T \in small(m + 1) |-> next(g, T)]
  <2>2. ASSUME NEW T \in small(m + 1) PROVE h[T] = next(h, T) /\ h[T] \in A
    <3>1. CASE T = {}
      BY <3>1
    <3>2. CASE T # {}
      <4> DEFINE U == T \ {Max(T)}
      <4>1. U \in small(m) /\ Max(T) \in 1..n
        BY <1>1, <3>2
      <4>2. U \in small(m + 1)
        BY <1>1, <3>2
      <4>3. g[U] = next(g, U) /\ g[U] \in A
        BY <2>1, <4>1
      <4>4. h[U] = next(g, U)
        BY <4>2
      <4> HIDE DEF U
      <4>5. h[T] = step[<<Max(T), g[U]>>]
        BY <3>2 DEF U
      <4>6. next(h, T) = step[<<Max(T), h[U]>>]
        BY <3>2 DEF U
      <4> HIDE DEF h, next
      <4> QED BY <4>1, <4>3, <4>4, <4>5, <4>6
    <3> QED BY <3>1, <3>2
  <2>3. h = [T \in small(m + 1) |-> next(h, T)]
    BY <2>2
  <2> HIDE DEF h
  <2>4. \E k : /\ k = [T \in small(m + 1) |-> next(k, T)]
               /\ \A T \in small(m + 1) : k[T] \in A
    BY <2>2, <2>3, Zenon
  <2> HIDE DEF small, next
  <2> QED BY <2>4
<1>4. \A m \in Nat : m \in Good
  <2> HIDE DEF Good
  <2> QED BY <1>2, <1>3, NumberInduction
<1>5. small(Cardinality(S)) = SUBSET S /\ Cardinality(S) \in Nat
  BY <1>0, FS_CardinalityType, FS_Subset
<1>6. \E g : g = [T \in SUBSET S |-> next(g, T)] /\ \A T \in SUBSET S : g[T] \in A
  <2>1. Cardinality(S) \in Good
    <3> HIDE DEF Good, small
    <3> QED BY <1>4, <1>5
  <2>2. \E g : /\ g = [T \in small(Cardinality(S)) |-> next(g, T)]
               /\ \A T \in small(Cardinality(S)) : g[T] \in A
    <3> HIDE DEF small, next
    <3> QED BY <2>1
  <2> HIDE DEF small, next
  <2> QED BY <1>5, <2>2
<1> QED BY <1>6 DEF S, FoldRecursion

\* What a solution gives for the first m elements.
LEMMA FoldPrefix ==
  ASSUME NEW n \in Nat, NEW m \in 1..n
  PROVE  /\ 1..m \in SUBSET (1..n) /\ 1..m # {}
         /\ Max(1..m) = m /\ (1..m) \ {Max(1..m)} = 1..m - 1
<1>1. 1..m \in SUBSET (1..n) /\ 1..m # {} /\ m \in 1..m
  OBVIOUS
<1>2. Max(1..m) \in 1..m /\ m <= Max(1..m)
  BY <1>1, MaxInSet
<1>3. Max(1..m) = m
  BY <1>2
<1> QED BY <1>1, <1>3
\* The recursion of a function on 0..n; it has a solution.
StepsRecursion(n, base, step, g) ==
    g = [k \in 0..n |-> IF k = 0 THEN base ELSE step[<<k, g[k - 1]>>]]

LEMMA StepsDefined ==
  ASSUME NEW n \in Nat, NEW A, NEW base \in A, NEW step,
         \A i \in 1..n : \A a \in A : step[<<i, a>>] \in A
  PROVE  \E g : StepsRecursion(n, base, step, g) /\ \A k \in 0..n : g[k] \in A
<1>1. PICK h : FoldRecursion(n, base, step, h) /\ \A T \in SUBSET (1..n) : h[T] \in A
  BY FoldDefined
<1> DEFINE g == [k \in 0..n |-> h[1..k]]
<1>2. \A k \in 0..n : 1..k \in SUBSET (1..n)
  OBVIOUS
<1>3. ASSUME NEW k \in 0..n PROVE g[k] = IF k = 0 THEN base ELSE step[<<k, g[k - 1]>>]
  <2>1. CASE k = 0
    <3>1. 1..k = {} /\ {} \in SUBSET (1..n)
      BY <2>1
    <3>2. h[{}] = base
      BY <1>1, <3>1 DEF FoldRecursion
    <3> QED BY <2>1, <3>1, <3>2
  <2>2. CASE k # 0
    <3>1. k \in 1..n /\ k - 1 \in 0..n
      BY <2>2
    <3>2. /\ 1..k \in SUBSET (1..n) /\ 1..k # {}
          /\ Max(1..k) = k /\ (1..k) \ {Max(1..k)} = 1..k - 1
      BY <3>1, FoldPrefix
    <3>3. h[1..k] = step[<<Max(1..k), h[(1..k) \ {Max(1..k)}]>>]
      BY <1>1, <3>2 DEF FoldRecursion
    <3> QED BY <2>2, <3>1, <3>2, <3>3
  <2> QED BY <2>1, <2>2
<1>4. \A k \in 0..n : g[k] \in A
  BY <1>1, <1>2
<1>5. g = [k \in 0..n |-> IF k = 0 THEN base ELSE step[<<k, g[k - 1]>>]]
  <2>1. g = [k \in 0..n |-> g[k]]
    OBVIOUS
  <2> HIDE DEF g
  <2> QED BY <1>3, <2>1
<1> HIDE DEF g
<1> QED BY <1>4, <1>5 DEF StepsRecursion

---------------------------------------------------------------------------
(* The flattening of a sequence of sequences *)

\* What FlattenSeq has put together after each of its parts.
Flattening(seqs, F) ==
    F = [i \in 1..Len(seqs) |-> IF i = 1 THEN seqs[i] ELSE F[i - 1] \o seqs[i]]

LEMMA FlattenDefined ==
  ASSUME NEW T, NEW seqs \in Seq(T), seqs # <<>>
  PROVE  \E F : Flattening(seqs, F) /\ FlattenSeq(seqs) = F[Len(seqs)]
<1> DEFINE n == Len(seqs)
           step(F, i) == IF i = 1 THEN seqs[i] ELSE F[i - 1] \o seqs[i]
           Good == {m \in Nat : \E F : F = [i \in 1..m |-> step(F, i)]}
<1>1. n \in Nat /\ n # 0
  OBVIOUS
<1>2. 0 \in Good
  <2>1. [i \in 1..0 |-> 0] = [i \in 1..0 |-> step([k \in 1..0 |-> 0], i)]
    OBVIOUS
  <2> QED BY <2>1
<1>3. ASSUME NEW m \in Nat, m \in Good PROVE m + 1 \in Good
  <2>1. PICK F : F = [i \in 1..m |-> step(F, i)]
    BY <1>3
  <2> DEFINE H == [i \in 1..m + 1 |-> step(F, i)]
  <2>2. ASSUME NEW i \in 1..m + 1 PROVE H[i] = step(H, i)
    <3>1. CASE i = 1
      BY <3>1
    <3>2. CASE i # 1
      <4>1. i - 1 \in 1..m /\ i - 1 \in 1..m + 1
        BY <3>2
      <4>2. F[i - 1] = step(F, i - 1) /\ H[i - 1] = step(F, i - 1)
        BY <2>1, <4>1
      <4>3. H[i] = F[i - 1] \o seqs[i]
        BY <3>2
      <4> HIDE DEF H
      <4> QED BY <3>2, <4>2, <4>3
    <3> QED BY <3>1, <3>2
  <2>3. H = [i \in 1..m + 1 |-> step(H, i)]
    BY <2>2
  <2> HIDE DEF H
  <2>4. \E K : K = [i \in 1..m + 1 |-> step(K, i)]
    BY <2>3, Zenon
  <2> HIDE DEF step
  <2> QED BY <2>4
<1>4. \A m \in Nat : m \in Good
  <2> HIDE DEF Good
  <2> QED BY <1>2, <1>3, NumberInduction
<1>5. \E F : F = [i \in 1..n |-> step(F, i)]
  BY <1>1, <1>4
<1> DEFINE flat == CHOOSE F : F = [i \in 1..n |-> step(F, i)]
<1>6. flat = [i \in 1..n |-> step(flat, i)]
  BY <1>5
<1>7. FlattenSeq(seqs) = flat[n]
  BY <1>1 DEF FlattenSeq
<1>8. Flattening(seqs, flat)
  BY <1>6 DEF Flattening
<1> HIDE DEF flat
<1> QED BY <1>7, <1>8

\* Where each part of a flattened sequence ends.
PartEnds(seqs, end) ==
    /\ end \in [0..Len(seqs) -> Nat]
    /\ end[0] = 0
    /\ \A i \in 1..Len(seqs) : end[i] = end[i - 1] + Len(seqs[i])

\* The first m parts follow each other in F[m], and there is nothing else.
Placed(seqs, end, m, flat) ==
    /\ \A i \in 1..m : \A j \in 1..Len(seqs[i]) :
          /\ end[i - 1] + j \in 1..Len(flat)
          /\ flat[end[i - 1] + j] = seqs[i][j]
    /\ \A p \in 1..Len(flat) : \E i \in 1..m : \E j \in 1..Len(seqs[i]) : p = end[i - 1] + j

\* Another part is put behind those there are.
LEMMA PlaceNext ==
  ASSUME NEW T, NEW seqs, NEW m \in Nat, seqs[m + 1] \in Seq(T), NEW end,
         NEW flat \in Seq(T), end[m] = Len(flat), Placed(seqs, end, m, flat)
  PROVE  Placed(seqs, end, m + 1, flat \o seqs[m + 1])
<1> DEFINE S == seqs[m + 1]
           both == flat \o S
<1>1. /\ Len(flat) \in Nat /\ Len(S) \in Nat /\ Len(both) = Len(flat) + Len(S)
      /\ \A p \in 1..Len(flat) : both[p] = flat[p] /\ p \in 1..Len(both)
      /\ \A j \in 1..Len(S) : both[Len(flat) + j] = S[j] /\ Len(flat) + j \in 1..Len(both)
      /\ (m + 1) - 1 = m /\ m + 1 \in 1..m + 1 /\ \A i \in 1..m : i \in 1..m + 1
  OBVIOUS
<1> HIDE DEF both
<1>2. ASSUME NEW i \in 1..m + 1, NEW j \in 1..Len(seqs[i])
      PROVE  /\ end[i - 1] + j \in 1..Len(both)
             /\ both[end[i - 1] + j] = seqs[i][j]
  <2>1. CASE i \in 1..m
    BY <1>1, <2>1 DEF Placed
  <2>2. CASE i = m + 1
    BY <1>1, <2>2
  <2> QED BY <2>1, <2>2
<1>3. ASSUME NEW p \in 1..Len(both)
      PROVE  \E i \in 1..m + 1 : \E j \in 1..Len(seqs[i]) : p = end[i - 1] + j
  <2>1. CASE p \in 1..Len(flat)
    BY <1>1, <2>1 DEF Placed
  <2>2. CASE p \notin 1..Len(flat)
    <3>1. p - Len(flat) \in 1..Len(S)
      BY <1>1, <2>2
    <3>2. end[(m + 1) - 1] = Len(flat) /\ p = Len(flat) + (p - Len(flat))
      BY <1>1
    <3> QED BY <1>1, <3>1, <3>2
  <2> QED BY <2>1, <2>2
<1> QED BY <1>2, <1>3 DEF Placed, both

LEMMA FlattenPlaced ==
  ASSUME NEW T, NEW n \in Nat, NEW seqs, \A i \in 1..n : seqs[i] \in Seq(T), NEW F,
         \A i \in 1..n : F[i] = IF i = 1 THEN seqs[i] ELSE F[i - 1] \o seqs[i],
         NEW end, \A i \in 0..n : end[i] = IF i = 0 THEN 0 ELSE Len(F[i])
  PROVE  \A m \in 1..n : /\ F[m] \in Seq(T)
                         /\ end[m] \in Nat /\ end[m - 1] \in Nat
                         /\ end[m] = end[m - 1] + Len(seqs[m])
                         /\ Placed(seqs, end, m, F[m])
<1> DEFINE P(m) == /\ F[m] \in Seq(T)
                   /\ end[m] \in Nat /\ end[m - 1] \in Nat
                   /\ end[m] = end[m - 1] + Len(seqs[m])
                   /\ Placed(seqs, end, m, F[m])
           Good == {m \in Nat : \A k \in 1..n : k = m + 1 => P(k)}
<1>1. ASSUME 1 \in 1..n PROVE P(1)
  <2>1. F[1] = seqs[1] /\ seqs[1] \in Seq(T) /\ Len(seqs[1]) \in Nat
    BY <1>1
  <2>2. end[0] = 0 /\ end[1] = Len(F[1])
    BY <1>1
  <2>3. Placed(seqs, end, 1, F[1])
    <3>1. \A i \in 1..1 : i = 1 /\ i - 1 = 0
      OBVIOUS
    <3>2. \A p \in 1..Len(F[1]) : p = end[1 - 1] + p
      BY <2>1, <2>2
    <3>3. \A j \in 1..Len(seqs[1]) : end[0] + j = j
      BY <2>1, <2>2
    <3> QED BY <2>1, <3>1, <3>2, <3>3 DEF Placed
  <2> QED BY <2>1, <2>2, <2>3
<1>2. ASSUME NEW k \in 1..n, k # 1, P(k - 1) PROVE P(k)
  <2>1. /\ k - 1 \in 1..n /\ k - 1 \in Nat /\ (k - 1) + 1 = k /\ k \in 0..n /\ k - 1 \in 0..n
        /\ k # 0 /\ k - 1 # 0
    BY <1>2
  <2>2. /\ F[k] = F[k - 1] \o seqs[k] /\ seqs[k] \in Seq(T)
        /\ end[k - 1] = Len(F[k - 1]) /\ end[k] = Len(F[k])
    BY <1>2, <2>1
  <2>3. F[k] \in Seq(T) /\ Len(F[k]) = Len(F[k - 1]) + Len(seqs[k])
    BY <1>2, <2>2
  <2>4. Placed(seqs, end, (k - 1) + 1, F[k - 1] \o seqs[(k - 1) + 1])
    BY <1>2, <2>1, <2>2, PlaceNext
  <2>5. Placed(seqs, end, k, F[k])
    BY <2>1, <2>2, <2>4
  <2>6. Len(F[k]) \in Nat
    <3>1. \A s \in Seq(T) : Len(s) \in Nat
      OBVIOUS
    <3> QED BY <2>3, <3>1, Zenon
  <2> QED BY <1>2, <2>2, <2>3, <2>5, <2>6
<1> HIDE DEF P
<1>3. 0 \in Good
  BY <1>1
<1>4. ASSUME NEW m \in Nat, m \in Good PROVE m + 1 \in Good
  <2> SUFFICES ASSUME NEW k \in 1..n, k = (m + 1) + 1 PROVE P(k)
    OBVIOUS
  <2>1. k # 1 /\ k - 1 \in 1..n /\ k - 1 = m + 1
    OBVIOUS
  <2> QED BY <1>2, <1>4, <2>1
<1> HIDE DEF Good
<1>5. \A m \in Nat : m \in Good
  BY <1>3, <1>4, NumberInduction
<1>6. ASSUME NEW m \in 1..n PROVE m - 1 \in Nat /\ m = (m - 1) + 1
  OBVIOUS
<1> QED BY <1>5, <1>6 DEF Good, P

LEMMA FlattenParts ==
  ASSUME NEW T, NEW seqs \in Seq(Seq(T))
  PROVE  /\ FlattenSeq(seqs) \in Seq(T)
         /\ \E end : /\ PartEnds(seqs, end)
                     /\ Len(FlattenSeq(seqs)) = end[Len(seqs)]
                     /\ Placed(seqs, end, Len(seqs), FlattenSeq(seqs))
<1>1. Len(seqs) \in Nat /\ \A i \in 1..Len(seqs) : seqs[i] \in Seq(T) /\ Len(seqs[i]) \in Nat
  OBVIOUS
<1>2. CASE seqs = <<>>
  <2> DEFINE end == [i \in 0..0 |-> 0]
  <2>1. FlattenSeq(seqs) = <<>> /\ Len(seqs) = 0
    BY <1>2 DEF FlattenSeq
  <2>2. PartEnds(seqs, end) /\ end[0] = 0
    BY <2>1 DEF PartEnds
  <2> HIDE DEF end
  <2> QED BY <2>1, <2>2 DEF Placed
<1>3. CASE seqs # <<>>
  <2>1. PICK F : Flattening(seqs, F) /\ FlattenSeq(seqs) = F[Len(seqs)]
    BY <1>3, FlattenDefined
  <2> DEFINE end == [i \in 0..Len(seqs) |-> IF i = 0 THEN 0 ELSE Len(F[i])]
  <2>2. \A i \in 1..Len(seqs) : F[i] = IF i = 1 THEN seqs[i] ELSE F[i - 1] \o seqs[i]
    BY <2>1 DEF Flattening
  <2>3. \A m \in 1..Len(seqs) : /\ F[m] \in Seq(T)
                                /\ end[m] \in Nat /\ end[m - 1] \in Nat
                                /\ end[m] = end[m - 1] + Len(seqs[m])
                                /\ Placed(seqs, end, m, F[m])
    <3>1. \A i \in 0..Len(seqs) : end[i] = IF i = 0 THEN 0 ELSE Len(F[i])
      OBVIOUS
    <3> HIDE DEF end
    <3> QED BY <1>1, <2>2, <3>1, FlattenPlaced
  <2>4. Len(seqs) \in 1..Len(seqs)
    BY <1>1, <1>3
  <2>5. PartEnds(seqs, end)
    <3>1. end[0] = 0 /\ DOMAIN end = 0..Len(seqs)
      BY <1>1
    <3>2. end = [i \in 0..Len(seqs) |-> end[i]]
      OBVIOUS
    <3> HIDE DEF end
    <3>3. \A i \in 0..Len(seqs) : end[i] \in Nat
      BY <1>1, <2>3, <3>1
    <3>4. end \in [0..Len(seqs) -> Nat]
      BY <3>2, <3>3
    <3> QED BY <2>3, <3>1, <3>4 DEF PartEnds
  <2>6. Len(FlattenSeq(seqs)) = end[Len(seqs)]
    BY <1>1, <2>1, <2>4
  <2> HIDE DEF end
  <2> QED BY <2>1, <2>3, <2>4, <2>5, <2>6
<1> QED BY <1>2, <1>3

---------------------------------------------------------------------------
(* Ranks *)

\* The number of elements of S with a lower value.
RankIn(S, v, a) == Cardinality({r \in S : v[r] < v[a]})

LEMMA RankBound ==
  ASSUME NEW S, IsFiniteSet(S), NEW v \in [S -> Int], NEW a \in S
  PROVE  RankIn(S, v, a) \in Nat /\ RankIn(S, v, a) < Cardinality(S) /\ Cardinality(S) \in Nat
<1> DEFINE below == {r \in S : v[r] < v[a]}
<1>1. v[a] \in Int
  OBVIOUS
<1>2. below \subseteq S \ {a}
  BY <1>1
<1>3. /\ IsFiniteSet(S \ {a}) /\ Cardinality(S \ {a}) = Cardinality(S) - 1
      /\ Cardinality(S) \in Nat
  BY FS_RemoveElement, FS_CardinalityType
<1>4. IsFiniteSet(below) /\ Cardinality(below) <= Cardinality(S \ {a})
  BY <1>2, <1>3, FS_Subset
<1>5. Cardinality(below) \in Nat
  BY <1>4, FS_CardinalityType
<1> HIDE DEF below
<1>6. Cardinality(below) \in Nat /\ Cardinality(below) < Cardinality(S)
  BY <1>3, <1>4, <1>5
<1> QED BY <1>3, <1>6 DEF RankIn, below

\* Of two elements the one with the lower value has the lower rank.
LEMMA RankOrder ==
  ASSUME NEW S, IsFiniteSet(S), NEW v \in [S -> Int], NEW a \in S, NEW b \in S, v[a] < v[b]
  PROVE  RankIn(S, v, a) < RankIn(S, v, b)
<1> DEFINE lower == {r \in S : v[r] < v[a]}
           higher == {r \in S : v[r] < v[b]}
<1>1. v[a] \in Int /\ v[b] \in Int /\ \A r \in S : v[r] \in Int
  OBVIOUS
<1>2. lower \subseteq higher \ {a} /\ a \in higher
  BY <1>1
<1>3. IsFiniteSet(higher)
  BY FS_Subset
<1> HIDE DEF lower, higher
<1>4. /\ IsFiniteSet(higher \ {a}) /\ Cardinality(higher \ {a}) = Cardinality(higher) - 1
      /\ Cardinality(higher) \in Nat
  BY <1>2, <1>3, FS_RemoveElement, FS_CardinalityType
<1>5. IsFiniteSet(lower) /\ Cardinality(lower) <= Cardinality(higher \ {a})
  BY <1>2, <1>4, FS_Subset
<1>6. Cardinality(lower) \in Nat
  BY <1>5, FS_CardinalityType
<1>7. Cardinality(lower) < Cardinality(higher)
  BY <1>4, <1>5, <1>6
<1> QED BY <1>7 DEF RankIn, lower, higher

\* If no two elements have the same value, they have different ranks, and some
\* element has every rank there is.
LEMMA RankUnique ==
  ASSUME NEW S, IsFiniteSet(S), NEW v \in [S -> Int], NEW a \in S, NEW b \in S,
         \A r, s \in S : v[r] = v[s] => r = s,
         RankIn(S, v, a) = RankIn(S, v, b)
  PROVE  a = b
<1>1. v[a] \in Int /\ v[b] \in Int
  OBVIOUS
<1>2. RankIn(S, v, a) \in Nat /\ RankIn(S, v, b) \in Nat
  BY RankBound
<1>3. CASE v[a] < v[b]
  BY <1>2, <1>3, RankOrder
<1>4. CASE v[b] < v[a]
  BY <1>2, <1>4, RankOrder
<1> QED BY <1>1, <1>3, <1>4

LEMMA RankOnto ==
  ASSUME NEW S, IsFiniteSet(S), NEW v \in [S -> Int],
         \A r, s \in S : v[r] = v[s] => r = s,
         NEW k \in Nat, k < Cardinality(S)
  PROVE  \E a \in S : RankIn(S, v, a) = k
<1> DEFINE n == Cardinality(S)
           T == 0..n - 1
           f == [a \in S |-> RankIn(S, v, a)]
<1>1. n \in Nat
  BY FS_CardinalityType
<1>2. IsFiniteSet(T) /\ Cardinality(T) = n
  <2> HIDE DEF n
  <2>1. 0 \in Int /\ n - 1 \in Int
    BY <1>1
  <2>2. IsFiniteSet(0..n - 1) /\ Cardinality(0..n - 1) = IF 0 > n - 1 THEN 0 ELSE (n - 1) - 0 + 1
    BY <2>1, FS_Interval
  <2> QED BY <1>1, <2>2
<1>3. \A a \in S : RankIn(S, v, a) \in T
  BY <1>1, RankBound
<1>4. f \in [S -> T]
  BY <1>3
<1>5. \A a, b \in S : f[a] = f[b] => a = b
  BY RankUnique
<1> HIDE DEF f, T, n
<1>6. f \in Injection(S, T)
  BY <1>4, <1>5 DEF Injection, IsInjective
<1>7. f \in Surjection(S, T)
  BY <1>2, <1>6, FS_Injection DEF n
<1>8. k \in T
  BY <1>1 DEF T, n
<1>9. \E a \in S : f[a] = k
  BY <1>7, <1>8 DEF Surjection
<1> QED BY <1>9 DEF f

\* The elements of S before a, in a strict order R.
RankBy(S, R, a) == Cardinality({t \in S : <<t, a>> \in R})

StrictOrder(S, R) ==
    /\ \A a \in S : <<a, a>> \notin R
    /\ \A a, b, c \in S : <<a, b>> \in R /\ <<b, c>> \in R => <<a, c>> \in R
    /\ \A a, b \in S : a = b \/ <<a, b>> \in R \/ <<b, a>> \in R

\* The elements of a finite set in a strict order are numbered from 0 upwards.
LEMMA OrderRanks ==
  ASSUME NEW S, IsFiniteSet(S), NEW R, StrictOrder(S, R)
  PROVE  /\ Cardinality(S) \in Nat
         /\ \A a \in S : RankBy(S, R, a) \in 0..Cardinality(S) - 1
         /\ \A a, b \in S : RankBy(S, R, a) < RankBy(S, R, b) <=> <<a, b>> \in R
         /\ \A a, b \in S : RankBy(S, R, a) = RankBy(S, R, b) => a = b
         /\ \A k \in 0..Cardinality(S) - 1 : \E a \in S : RankBy(S, R, a) = k
<1> DEFINE below(a) == {t \in S : <<t, a>> \in R}
           n == Cardinality(S)
           T == 0..n - 1
           v == [a \in S |-> RankBy(S, R, a)]
<1>1. n \in Nat
  BY FS_CardinalityType
<1>2. ASSUME NEW a \in S
      PROVE  IsFiniteSet(below(a)) /\ RankBy(S, R, a) \in Nat /\ RankBy(S, R, a) < n
  <2>1. below(a) \subseteq S \ {a}
    BY DEF StrictOrder
  <2>2. IsFiniteSet(S \ {a}) /\ Cardinality(S \ {a}) = n - 1
    BY FS_RemoveElement
  <2> HIDE DEF n
  <2>3. /\ IsFiniteSet(below(a)) /\ Cardinality(below(a)) <= n - 1
        /\ Cardinality(below(a)) \in Nat
    <3> DEFINE B == below(a)
    <3>1. B \subseteq S \ {a}
      BY <2>1
    <3> HIDE DEF B
    <3>2. IsFiniteSet(B) /\ Cardinality(B) <= Cardinality(S \ {a})
      BY <2>2, <3>1, FS_Subset
    <3>3. Cardinality(B) \in Nat
      BY <3>2, FS_CardinalityType
    <3> QED BY <2>2, <3>2, <3>3 DEF B
  <2> HIDE DEF below
  <2>4. Cardinality(below(a)) < n
    BY <1>1, <2>3
  <2> QED BY <2>3, <2>4 DEF RankBy, below
<1>3. ASSUME NEW a \in S, NEW b \in S, <<a, b>> \in R
      PROVE  RankBy(S, R, a) < RankBy(S, R, b)
  <2> DEFINE A == below(a)
             B == below(b)
  <2>1. a \in B /\ A \subseteq B \ {a}
    BY <1>3 DEF StrictOrder
  <2>2. IsFiniteSet(B)
    BY <1>2
  <2>3. RankBy(S, R, a) = Cardinality(A) /\ RankBy(S, R, b) = Cardinality(B)
    BY DEF RankBy
  <2> HIDE DEF A, B
  <2>4. /\ IsFiniteSet(B \ {a}) /\ Cardinality(B \ {a}) = Cardinality(B) - 1
        /\ Cardinality(B) \in Nat
    BY <2>1, <2>2, FS_RemoveElement, FS_CardinalityType
  <2>5. IsFiniteSet(A) /\ Cardinality(A) <= Cardinality(B \ {a})
    BY <2>1, <2>4, FS_Subset
  <2>6. Cardinality(A) \in Nat
    BY <2>5, FS_CardinalityType
  <2> QED BY <2>3, <2>4, <2>5, <2>6
<1>4. ASSUME NEW a \in S, NEW b \in S
      PROVE  /\ RankBy(S, R, a) < RankBy(S, R, b) <=> <<a, b>> \in R
             /\ RankBy(S, R, a) = RankBy(S, R, b) => a = b
  <2>1. RankBy(S, R, a) \in Nat /\ RankBy(S, R, b) \in Nat
    BY <1>2
  <2>2. CASE a = b
    BY <2>1, <2>2 DEF StrictOrder
  <2>3. CASE <<a, b>> \in R
    <3>1. RankBy(S, R, a) < RankBy(S, R, b)
      BY <1>3, <2>3
    <3> QED BY <2>1, <2>3, <3>1
  <2>4. CASE <<b, a>> \in R
    <3>1. <<a, b>> \notin R
      BY <2>4 DEF StrictOrder
    <3>2. RankBy(S, R, b) < RankBy(S, R, a)
      BY <1>3, <2>4
    <3> QED BY <2>1, <3>1, <3>2
  <2> QED BY <2>2, <2>3, <2>4 DEF StrictOrder
<1>5. \A a \in S : RankBy(S, R, a) \in T
  <2> SUFFICES ASSUME NEW a \in S PROVE RankBy(S, R, a) \in T
    OBVIOUS
  <2>1. RankBy(S, R, a) \in Nat /\ RankBy(S, R, a) < n
    BY <1>2
  <2> HIDE DEF n
  <2> QED BY <1>1, <2>1
<1>6. IsFiniteSet(T) /\ Cardinality(T) = n
  <2> HIDE DEF n
  <2>1. 0 \in Int /\ n - 1 \in Int
    BY <1>1
  <2>2. IsFiniteSet(0..n - 1) /\ Cardinality(0..n - 1) = IF 0 > n - 1 THEN 0 ELSE (n - 1) - 0 + 1
    BY <2>1, FS_Interval
  <2> QED BY <1>1, <2>2
<1>7. v \in [S -> T] /\ \A a, b \in S : v[a] = v[b] => a = b
  BY <1>4, <1>5
<1> HIDE DEF v, T, n
<1>8. v \in Injection(S, T)
  BY <1>7 DEF Injection, IsInjective
<1>9. v \in Surjection(S, T)
  BY <1>6, <1>8, FS_Injection DEF n
<1>10. \A k \in T : \E a \in S : v[a] = k
  BY <1>9 DEF Surjection
<1> QED BY <1>1, <1>4, <1>5, <1>10 DEF v, T, n

\* An injective sequence is as long as it has elements.
LEMMA InjectiveSeq ==
  ASSUME NEW T, NEW q \in Seq(T), IsInjective(q)
  PROVE  /\ IsFiniteSet(Range(q)) /\ Cardinality(Range(q)) = Len(q) /\ Len(q) \in Nat
         /\ DOMAIN q = 1..Len(q) /\ \A i \in 1..Len(q) : q[i] \in Range(q)
         /\ \A x \in Range(q) : \E i \in 1..Len(q) : q[i] = x
<1>1. Len(q) \in Nat /\ DOMAIN q = 1..Len(q) /\ q = [i \in 1..Len(q) |-> q[i]]
  OBVIOUS
<1>2. /\ \A i \in 1..Len(q) : q[i] \in Range(q)
      /\ \A x \in Range(q) : \E i \in 1..Len(q) : q[i] = x
  BY <1>1 DEF Range
<1>3. IsFiniteSet(1..Len(q)) /\ Cardinality(1..Len(q)) = Len(q)
  <2>1. 1 \in Int /\ Len(q) \in Int
    BY <1>1
  <2>2. IsFiniteSet(1..Len(q)) /\ Cardinality(1..Len(q)) = IF 1 > Len(q) THEN 0 ELSE Len(q) - 1 + 1
    BY <2>1, FS_Interval
  <2> QED BY <1>1, <2>2
<1>4. q \in Bijection(1..Len(q), Range(q))
  <2>1. q \in [1..Len(q) -> Range(q)]
    BY <1>1, <1>2
  <2> QED BY <1>2, <2>1 DEF Bijection, Injection, Surjection
<1>5. ExistsBijection(1..Len(q), Range(q))
  BY <1>4 DEF ExistsBijection
<1>6. IsFiniteSet(Range(q)) /\ Cardinality(Range(q)) = Cardinality(1..Len(q))
  BY <1>3, <1>5, FS_Bijection
<1> QED BY <1>1, <1>2, <1>3, <1>6
=============================================================================
