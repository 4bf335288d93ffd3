--------------------------- MODULE PipelineProofs ---------------------------
(***************************************************************************)
(* For any groups of fields, any instruments and settings, any number of   *)
(* workers and any chains: what the pools that calibrate the exposures     *)
(* keep, step by step.                                                     *)
(*                                                                         *)
(* A pool is in the middle of its life (PoolInv) or, before the first one, *)
(* there is none (NoPoolYet).  Every invariant below rests on that, and on *)
(* what the worker that is at work, or has found no work left, says of the *)
(* pool's own data.                                                        *)
(***************************************************************************)
EXTENDS Pipeline, ThreadPoolProofs, FoldLemmas, SequenceTheorems

---------------------------------------------------------------------------
(* Groups, fields and sets *)

LEMMA ShapeFacts ==
  /\ NGroup \in Nat
  /\ \A g \in 0..NGroup - 1 :
        /\ NFieldOf(g) \in Nat \ {0}
        /\ \A f \in 0..NFieldOf(g) - 1 : NSetOf(g, f) \in Nat \ {0}
<1>1. Shape \in Seq(Seq(Nat \ {0})) /\ \A g \in DOMAIN Shape : Shape[g] # <<>>
  BY ShapeAssumption DEF ShapeAssumption
<1>2. ASSUME NEW g \in 0..NGroup - 1
      PROVE  /\ NFieldOf(g) \in Nat \ {0}
             /\ \A f \in 0..NFieldOf(g) - 1 : NSetOf(g, f) \in Nat \ {0}
  <2>1. g + 1 \in DOMAIN Shape /\ Shape[g + 1] \in Seq(Nat \ {0}) /\ Shape[g + 1] # <<>>
    BY <1>1 DEF NGroup
  <2> DEFINE F == Shape[g + 1]
  <2>2. Len(F) \in Nat \ {0} /\ \A f \in 0..Len(F) - 1 : F[f + 1] \in Nat \ {0}
    <3> HIDE DEF F
    <3>1. F \in Seq(Nat \ {0}) /\ F # <<>>
      BY <2>1 DEF F
    <3> QED BY <3>1
  <2> QED BY <2>2 DEF NFieldOf, NSetOf
<1> QED BY <1>1, <1>2 DEF NGroup

LEMMA FieldFacts ==
  /\ \A g, f : <<g, f>> \in Fields <=> g \in 0..NGroup - 1 /\ f \in 0..NFieldOf(g) - 1
  /\ \A fd \in Fields : fd = <<fd[1], fd[2]>>
BY DEF Fields

LEMMA SetFacts ==
  /\ \A g, f, s : <<g, f, s>> \in Sets <=> <<g, f>> \in Fields /\ s \in 0..NSetOf(g, f) - 1
  /\ \A s \in Sets : s = <<s[1], s[2], s[3]>> /\ FieldOf(s) \in Fields
  /\ \A fd \in Fields : SetsOf(fd) = {s \in Sets : FieldOf(s) = fd}
<1>1. ASSUME NEW g, NEW f, NEW s
      PROVE  <<g, f, s>> \in Sets <=> <<g, f>> \in Fields /\ s \in 0..NSetOf(g, f) - 1
  <2>1. ASSUME <<g, f, s>> \in Sets
        PROVE  <<g, f>> \in Fields /\ s \in 0..NSetOf(g, f) - 1
    <3>1. PICK fd \in Fields : <<g, f, s>> \in SetsOf(fd)
      BY <2>1 DEF Sets
    <3>2. fd = <<fd[1], fd[2]>> /\ g = fd[1] /\ f = fd[2] /\ s \in 0..NSetOf(fd[1], fd[2]) - 1
      BY <3>1, FieldFacts DEF SetsOf
    <3> QED BY <3>2
  <2>2. ASSUME <<g, f>> \in Fields, s \in 0..NSetOf(g, f) - 1
        PROVE  <<g, f, s>> \in Sets
    <3>1. <<g, f, s>> \in SetsOf(<<g, f>>)
      BY <2>2 DEF SetsOf
    <3> QED BY <2>2, <3>1 DEF Sets
  <2> QED BY <2>1, <2>2
<1>2. ASSUME NEW s \in Sets PROVE s = <<s[1], s[2], s[3]>> /\ FieldOf(s) \in Fields
  <2>1. PICK fd \in Fields : s \in SetsOf(fd)
    BY DEF Sets
  <2> QED BY <2>1, FieldFacts DEF SetsOf, FieldOf
<1>3. ASSUME NEW fd \in Fields PROVE SetsOf(fd) = {s \in Sets : FieldOf(s) = fd}
  <2>1. fd = <<fd[1], fd[2]>>
    BY FieldFacts
  <2>2. ASSUME NEW s \in SetsOf(fd) PROVE s \in Sets /\ FieldOf(s) = fd
    BY <2>1 DEF SetsOf, Sets, FieldOf
  <2>3. ASSUME NEW s \in Sets, FieldOf(s) = fd PROVE s \in SetsOf(fd)
    <3>1. <<s[1], s[2]>> = fd /\ s[3] \in 0..NSetOf(s[1], s[2]) - 1 /\ s = <<s[1], s[2], s[3]>>
      BY <1>1, <1>2, <2>3 DEF FieldOf
    <3> QED BY <2>1, <3>1 DEF SetsOf
  <2> QED BY <2>2, <2>3
<1> QED BY <1>1, <1>2, <1>3

LEMMA SetNumbers ==
  \A s \in Sets : /\ s[1] \in Nat /\ s[2] \in Nat /\ s[3] \in Nat
                  /\ s[1] < NGroup /\ s[2] < NFieldOf(s[1]) /\ s[3] < NSetOf(s[1], s[2])
<1> SUFFICES ASSUME NEW s \in Sets
             PROVE  /\ s[1] \in Nat /\ s[2] \in Nat /\ s[3] \in Nat
                    /\ s[1] < NGroup /\ s[2] < NFieldOf(s[1]) /\ s[3] < NSetOf(s[1], s[2])
  OBVIOUS
<1>1. s[1] \in 0..NGroup - 1 /\ s[2] \in 0..NFieldOf(s[1]) - 1 /\ s[3] \in 0..NSetOf(s[1], s[2]) - 1
  BY SetFacts, FieldFacts DEF FieldOf
<1>2. NFieldOf(s[1]) \in Nat /\ NSetOf(s[1], s[2]) \in Nat /\ NGroup \in Nat
  BY <1>1, ShapeFacts
<1> QED BY <1>1, <1>2

---------------------------------------------------------------------------
(* The order of the fields *)

\* The place a cursor has behind the first n fields.
FieldAt(n) == IF n < Len(FieldSeq) THEN FieldSeq[n + 1] ELSE <<NGroup, 0>>

LEMMA FieldSeqParts ==
  \E end : /\ FieldSeq \in Seq(Fields)
           /\ end \in [0..NGroup -> Nat] /\ end[0] = 0 /\ Len(FieldSeq) = end[NGroup]
           /\ \A g \in 0..NGroup - 1 :
                 /\ end[g + 1] = end[g] + NFieldOf(g)
                 /\ \A j \in 1..NFieldOf(g) : /\ end[g] + j \in 1..Len(FieldSeq)
                                              /\ FieldSeq[end[g] + j] = <<g, j - 1>>
           /\ \A p \in 1..Len(FieldSeq) :
                 \E g \in 0..NGroup - 1 : \E j \in 1..NFieldOf(g) : p = end[g] + j
<1> DEFINE part(g) == [f \in 1..NFieldOf(g - 1) |-> <<g - 1, f - 1>>]
           parts == [g \in 1..NGroup |-> part(g)]
<1>1. NGroup \in Nat
  BY ShapeFacts
<1>2. ASSUME NEW g \in 1..NGroup
      PROVE  /\ g - 1 \in 0..NGroup - 1 /\ NFieldOf(g - 1) \in Nat
             /\ part(g) \in Seq(Fields) /\ Len(part(g)) = NFieldOf(g - 1)
  <2>1. g - 1 \in 0..NGroup - 1
    BY <1>1
  <2>2. NFieldOf(g - 1) \in Nat
    BY <2>1, ShapeFacts
  <2>3. ASSUME NEW f \in 1..NFieldOf(g - 1) PROVE <<g - 1, f - 1>> \in Fields
    <3>1. f - 1 \in 0..NFieldOf(g - 1) - 1
      BY <2>2
    <3> QED BY <2>1, <3>1, FieldFacts
  <2> QED BY <2>1, <2>2, <2>3
<1>3. parts \in Seq(Seq(Fields)) /\ Len(parts) = NGroup
  BY <1>1, <1>2
<1>4. FieldSeq = FlattenSeq(parts)
  BY DEF FieldSeq
<1>5. PICK end : /\ PartEnds(parts, end)
                 /\ Len(FieldSeq) = end[NGroup]
                 /\ Placed(parts, end, NGroup, FieldSeq)
  <2> HIDE DEF parts
  <2> QED BY <1>3, <1>4, FlattenParts
<1>6. FieldSeq \in Seq(Fields)
  <2> HIDE DEF parts
  <2> QED BY <1>3, <1>4, FlattenParts
<1>7. end \in [0..NGroup -> Nat] /\ end[0] = 0
  BY <1>3, <1>5 DEF PartEnds
<1>8. ASSUME NEW g \in 0..NGroup - 1
      PROVE  /\ end[g + 1] = end[g] + NFieldOf(g)
             /\ \A j \in 1..NFieldOf(g) : /\ end[g] + j \in 1..Len(FieldSeq)
                                          /\ FieldSeq[end[g] + j] = <<g, j - 1>>
  <2>1. /\ g + 1 \in 1..NGroup /\ (g + 1) - 1 = g
        /\ parts[g + 1] = part(g + 1) /\ Len(parts[g + 1]) = NFieldOf(g)
    <3>1. g + 1 \in 1..NGroup /\ (g + 1) - 1 = g
      BY <1>1
    <3> QED BY <1>2, <3>1
  <2>2. \A j \in 1..NFieldOf(g) : parts[g + 1][j] = <<g, j - 1>>
    BY <2>1
  <2> HIDE DEF parts
  <2>3. end[g + 1] = end[(g + 1) - 1] + Len(parts[g + 1])
    BY <1>3, <1>5, <2>1 DEF PartEnds
  <2>4. \A j \in 1..Len(parts[g + 1]) : /\ end[(g + 1) - 1] + j \in 1..Len(FieldSeq)
                                        /\ FieldSeq[end[(g + 1) - 1] + j] = parts[g + 1][j]
    BY <1>5, <2>1 DEF Placed
  <2> QED BY <2>1, <2>2, <2>3, <2>4
<1>9. ASSUME NEW p \in 1..Len(FieldSeq)
      PROVE  \E g \in 0..NGroup - 1 : \E j \in 1..NFieldOf(g) : p = end[g] + j
  <2>1. PICK i \in 1..NGroup : \E j \in 1..Len(parts[i]) : p = end[i - 1] + j
    BY <1>5 DEF Placed
  <2>2. Len(parts[i]) = NFieldOf(i - 1) /\ i - 1 \in 0..NGroup - 1
    BY <1>2
  <2> QED BY <2>1, <2>2
<1> QED BY <1>5, <1>6, <1>7, <1>8, <1>9

LEMMA FieldOrder ==
  /\ FieldSeq \in Seq(Fields) /\ Len(FieldSeq) \in Nat
  /\ \A fd \in Fields : \E p \in 1..Len(FieldSeq) : FieldSeq[p] = fd
  /\ \A p, q \in 1..Len(FieldSeq) : FieldSeq[p] = FieldSeq[q] => p = q
  /\ FieldAt(0) = <<0, 0>>
  /\ \A n \in 0..Len(FieldSeq) - 1 : FieldAt(n + 1) = NextField(FieldAt(n))
<1>1. PICK end :
         /\ FieldSeq \in Seq(Fields)
         /\ end \in [0..NGroup -> Nat] /\ end[0] = 0 /\ Len(FieldSeq) = end[NGroup]
         /\ \A g \in 0..NGroup - 1 :
               /\ end[g + 1] = end[g] + NFieldOf(g)
               /\ \A j \in 1..NFieldOf(g) : /\ end[g] + j \in 1..Len(FieldSeq)
                                            /\ FieldSeq[end[g] + j] = <<g, j - 1>>
         /\ \A p \in 1..Len(FieldSeq) :
               \E g \in 0..NGroup - 1 : \E j \in 1..NFieldOf(g) : p = end[g] + j
  BY FieldSeqParts
<1>2. NGroup \in Nat /\ Len(FieldSeq) \in Nat /\ \A g \in 0..NGroup - 1 : NFieldOf(g) \in Nat \ {0}
  BY <1>1, ShapeFacts
<1>3. ASSUME NEW fd \in Fields PROVE \E p \in 1..Len(FieldSeq) : FieldSeq[p] = fd
  <2>1. fd = <<fd[1], fd[2]>> /\ fd[1] \in 0..NGroup - 1 /\ fd[2] \in 0..NFieldOf(fd[1]) - 1
    BY FieldFacts
  <2>2. fd[2] + 1 \in 1..NFieldOf(fd[1]) /\ (fd[2] + 1) - 1 = fd[2]
    BY <1>2, <2>1
  <2> DEFINE p == end[fd[1]] + (fd[2] + 1)
  <2>3. p \in 1..Len(FieldSeq) /\ FieldSeq[p] = <<fd[1], (fd[2] + 1) - 1>>
    BY <1>1, <2>1, <2>2
  <2> HIDE DEF p
  <2> QED BY <2>1, <2>2, <2>3
<1>4. ASSUME NEW p \in 1..Len(FieldSeq), NEW q \in 1..Len(FieldSeq), FieldSeq[p] = FieldSeq[q]
      PROVE  p = q
  <2>1. PICK g \in 0..NGroup - 1 : \E j \in 1..NFieldOf(g) : p = end[g] + j
    BY <1>1
  <2>2. PICK j \in 1..NFieldOf(g) : p = end[g] + j
    BY <2>1
  <2>3. PICK h \in 0..NGroup - 1 : \E k \in 1..NFieldOf(h) : q = end[h] + k
    BY <1>1
  <2>4. PICK k \in 1..NFieldOf(h) : q = end[h] + k
    BY <2>3
  <2>5. <<g, j - 1>> = <<h, k - 1>>
    BY <1>1, <1>4, <2>2, <2>4
  <2> QED BY <2>2, <2>4, <2>5
<1>5. FieldAt(0) = <<0, 0>>
  <2>1. CASE NGroup = 0
    BY <1>1, <2>1 DEF FieldAt
  <2>2. CASE NGroup # 0
    <3>1. 0 \in 0..NGroup - 1 /\ 1 \in 1..NFieldOf(0)
      BY <1>2, <2>2
    <3>2. end[0] + 1 \in 1..Len(FieldSeq) /\ FieldSeq[end[0] + 1] = <<0, 1 - 1>>
      BY <1>1, <3>1
    <3> QED BY <1>1, <1>2, <3>2, SMTT(20) DEF FieldAt
  <2> QED BY <2>1, <2>2
<1>6. ASSUME NEW n \in 0..Len(FieldSeq) - 1 PROVE FieldAt(n + 1) = NextField(FieldAt(n))
  <2>1. n + 1 \in 1..Len(FieldSeq) /\ n \in Nat
    BY <1>2
  <2>2. PICK g \in 0..NGroup - 1 : \E j \in 1..NFieldOf(g) : n + 1 = end[g] + j
    BY <1>1, <2>1
  <2>3. PICK j \in 1..NFieldOf(g) : n + 1 = end[g] + j
    BY <2>2
  <2>4. FieldAt(n) = <<g, j - 1>>
    <3>1. FieldAt(n) = FieldSeq[n + 1]
      BY <1>2, <2>1 DEF FieldAt
    <3>2. FieldSeq[end[g] + j] = <<g, j - 1>>
      BY <1>1
    <3> QED BY <2>3, <3>1, <3>2
  <2>5. end[g] \in Nat /\ NFieldOf(g) \in Nat \ {0} /\ g \in Nat /\ g + 1 \in 0..NGroup
    BY <1>1, <1>2
  <2>6. CASE j < NFieldOf(g)
    <3>1. j + 1 \in 1..NFieldOf(g) /\ (j + 1) - 1 = j /\ end[g] + (j + 1) = (n + 1) + 1
      BY <2>1, <2>3, <2>5, <2>6
    <3>2. (n + 1) + 1 \in 1..Len(FieldSeq) /\ FieldSeq[(n + 1) + 1] = <<g, j>>
      BY <1>1, <3>1
    <3>3. FieldAt(n + 1) = <<g, j>>
      BY <1>2, <2>1, <3>2 DEF FieldAt
    <3> QED BY <2>4, <2>6, <3>3 DEF NextField
  <2>7. CASE j = NFieldOf(g)
    <3>1. NextField(FieldAt(n)) = <<g + 1, 0>> /\ n + 1 = end[g + 1]
      <4>1. <<g, j - 1>>[1] = g /\ <<g, j - 1>>[2] = j - 1 /\ ~((j - 1) + 1 < NFieldOf(g))
        BY <2>5, <2>7
      <4>2. NextField(<<g, j - 1>>) = <<g + 1, 0>>
        BY <4>1 DEF NextField
      <4>3. end[g + 1] = end[g] + NFieldOf(g)
        BY <1>1
      <4> QED BY <2>3, <2>4, <2>7, <4>2, <4>3
    <3>2. CASE g + 1 = NGroup
      <4>1. n + 1 = Len(FieldSeq)
        BY <1>1, <3>1, <3>2
      <4>2. FieldAt(n + 1) = <<NGroup, 0>>
        BY <1>2, <4>1 DEF FieldAt
      <4> QED BY <3>1, <3>2, <4>2
    <3>3. CASE g + 1 # NGroup
      <4>1. g + 1 \in 0..NGroup - 1 /\ 1 \in 1..NFieldOf(g + 1)
        BY <1>2, <2>5, <3>3
      <4>2. end[g + 1] + 1 \in 1..Len(FieldSeq) /\ FieldSeq[end[g + 1] + 1] = <<g + 1, 1 - 1>>
        BY <1>1, <4>1
      <4>3. (n + 1) + 1 \in 1..Len(FieldSeq) /\ FieldSeq[(n + 1) + 1] = <<g + 1, 0>>
        BY <3>1, <4>2
      <4>4. FieldAt(n + 1) = FieldSeq[(n + 1) + 1]
        BY <1>2, <2>1, <4>3 DEF FieldAt
      <4> QED BY <3>1, <4>3, <4>4
    <3> QED BY <3>2, <3>3
  <2> QED BY <2>5, <2>6, <2>7
<1> QED BY <1>1, <1>2, <1>3, <1>4, <1>5, <1>6

\* There are finitely many fields and sets.
LEMMA SetsFinite == IsFiniteSet(Fields) /\ IsFiniteSet(Sets)
<1>1. FieldSeq \in Seq(Fields) /\ Len(FieldSeq) \in Nat
      /\ \A fd \in Fields : \E p \in 1..Len(FieldSeq) : FieldSeq[p] = fd
  BY FieldOrder
<1>2. IsFiniteSet(Fields)
  <2>1. FieldSeq \in Surjection(1..Len(FieldSeq), Fields)
    <3>1. FieldSeq \in [1..Len(FieldSeq) -> Fields]
      BY <1>1
    <3> QED BY <1>1, <3>1 DEF Surjection
  <2> QED BY <1>1, <2>1, FS_NatSurjection DEF ExistsSurjection
<1> DEFINE parts == [i \in 1..Len(FieldSeq) |-> SetSeq(FieldSeq[i])]
           flat == FlattenSeq(parts)
<1>3. ASSUME NEW fd \in Fields
      PROVE  /\ SetSeq(fd) \in Seq(Sets) /\ Len(SetSeq(fd)) = NSetOf(fd[1], fd[2])
             /\ \A j \in 1..Len(SetSeq(fd)) : SetSeq(fd)[j] = <<fd[1], fd[2], j - 1>>
  <2>1. fd[1] \in 0..NGroup - 1 /\ fd[2] \in 0..NFieldOf(fd[1]) - 1 /\ fd = <<fd[1], fd[2]>>
    BY FieldFacts
  <2>2. NSetOf(fd[1], fd[2]) \in Nat
    BY <2>1, ShapeFacts
  <2>3. \A j \in 1..NSetOf(fd[1], fd[2]) : <<fd[1], fd[2], j - 1>> \in Sets
    <3> TAKE j \in 1..NSetOf(fd[1], fd[2])
    <3>1. j - 1 \in 0..NSetOf(fd[1], fd[2]) - 1
      BY <2>2
    <3> QED BY <2>1, <3>1, SetFacts
  <2> QED BY <2>2, <2>3 DEF SetSeq
<1>4. parts \in Seq(Seq(Sets)) /\ Len(parts) = Len(FieldSeq)
  <2>1. \A i \in 1..Len(FieldSeq) : FieldSeq[i] \in Fields
    BY <1>1
  <2>2. \A i \in 1..Len(FieldSeq) : SetSeq(FieldSeq[i]) \in Seq(Sets)
    BY <1>3, <2>1
  <2> QED BY <1>1, <2>2
<1>5. PICK end : /\ flat \in Seq(Sets)
                 /\ Len(flat) = end[Len(parts)] /\ Placed(parts, end, Len(parts), flat)
  <2> HIDE DEF parts
  <2> QED BY <1>4, FlattenParts
<1>6. ASSUME NEW s \in Sets PROVE \E p \in 1..Len(flat) : flat[p] = s
  <2>1. PICK i \in 1..Len(FieldSeq) : FieldSeq[i] = FieldOf(s)
    BY <1>1, SetFacts
  <2>2. FieldOf(s) \in Fields /\ s = <<s[1], s[2], s[3]>>
        /\ s[3] \in Nat /\ s[3] < NSetOf(s[1], s[2])
    BY SetFacts, SetNumbers
  <2> DEFINE j == s[3] + 1
  <2>3. parts[i] = SetSeq(FieldOf(s)) /\ Len(parts[i]) = NSetOf(s[1], s[2])
    BY <1>3, <2>1, <2>2 DEF FieldOf
  <2>4. j \in 1..Len(parts[i]) /\ parts[i][j] = s
    <3>1. NSetOf(s[1], s[2]) \in Nat
      BY <2>2, FieldFacts, ShapeFacts DEF FieldOf
    <3>2. j \in 1..NSetOf(s[1], s[2]) /\ j - 1 = s[3]
      BY <2>2, <3>1
    <3>3. parts[i][j] = <<s[1], s[2], j - 1>>
      BY <1>3, <2>2, <2>3, <3>2 DEF FieldOf
    <3> QED BY <2>2, <2>3, <3>2, <3>3
  <2> HIDE DEF j, parts, flat
  <2> QED BY <1>4, <1>5, <2>4 DEF Placed
<1>7. IsFiniteSet(Sets)
  <2> HIDE DEF flat
  <2>1. flat \in [1..Len(flat) -> Sets] /\ Len(flat) \in Nat
    BY <1>5
  <2>2. flat \in Surjection(1..Len(flat), Sets)
    BY <1>6, <2>1 DEF Surjection
  <2> QED BY <2>1, <2>2, FS_NatSurjection DEF ExistsSurjection
<1> QED BY <1>2, <1>7

---------------------------------------------------------------------------
(* The cursor of the pool that fills the equations *)

\* The cursor is at a set or behind all groups.
CursorOK == \/ gindex = NGroup /\ findex = 0 /\ sindex = 0
            \/ <<gindex, findex, sindex>> \in Sets

\* The sets the cursor has passed.
Passed(s) == \/ s[1] < gindex
             \/ s[1] = gindex /\ s[2] < findex
             \/ s[1] = gindex /\ s[2] = findex /\ s[3] < sindex

LEMMA AdvancePasses ==
  ASSUME CursorOK, gindex < NGroup, Advance
  PROVE  /\ CursorOK'
         /\ cursor \in Sets
         /\ \A s \in Sets : Passed(s)' <=> Passed(s) \/ s = cursor
<1>1. /\ gindex \in 0..NGroup - 1 /\ findex \in 0..NFieldOf(gindex) - 1
      /\ sindex \in 0..NSetOf(gindex, findex) - 1 /\ cursor \in Sets
  <2>1. <<gindex, findex, sindex>> \in Sets
    BY ShapeFacts DEF CursorOK
  <2> QED BY <2>1, SetFacts, FieldFacts DEF cursor
<1> DEFINE ns == NSetOf(gindex, findex)
           nf == NFieldOf(gindex)
<1>2. NGroup \in Nat /\ ns \in Nat \ {0} /\ nf \in Nat \ {0}
  BY <1>1, ShapeFacts
<1>3. /\ sindex' = IF sindex + 1 >= ns THEN 0 ELSE sindex + 1
      /\ findex' = IF sindex + 1 >= ns /\ findex + 1 >= nf THEN 0
                   ELSE IF sindex + 1 >= ns THEN findex + 1 ELSE findex
      /\ gindex' = IF sindex + 1 >= ns /\ findex + 1 >= nf THEN gindex + 1 ELSE gindex
  BY DEF Advance
<1>4. ASSUME NEW s \in Sets PROVE Passed(s)' <=> Passed(s) \/ s = cursor
  <2>1. /\ s[1] \in 0..NGroup - 1 /\ s[2] \in 0..NFieldOf(s[1]) - 1
        /\ s[3] \in 0..NSetOf(s[1], s[2]) - 1 /\ s = <<s[1], s[2], s[3]>>
    BY SetFacts, FieldFacts DEF FieldOf
  <2>2. NFieldOf(s[1]) \in Nat \ {0} /\ NSetOf(s[1], s[2]) \in Nat \ {0}
    BY <2>1, ShapeFacts
  <2>3. s = cursor <=> s[1] = gindex /\ s[2] = findex /\ s[3] = sindex
    BY <2>1 DEF cursor
  <2>4. s[1] = gindex => s[2] < nf
    BY <2>1, <2>2
  <2>5. s[1] = gindex /\ s[2] = findex => s[3] < ns
    BY <2>1, <2>2
  <2> HIDE DEF ns, nf
  <2> QED BY <1>1, <1>2, <1>3, <2>1, <2>2, <2>3, <2>4, <2>5 DEF Passed
<1>5. CursorOK'
  <2>1. CASE sindex + 1 < ns
    <3>1. gindex' = gindex /\ findex' = findex /\ sindex' \in 0..ns - 1
      BY <1>1, <1>2, <1>3, <2>1
    <3> QED BY <1>1, <3>1, SetFacts, FieldFacts DEF CursorOK
  <2>2. CASE sindex + 1 >= ns /\ findex + 1 < nf
    <3>1. gindex' = gindex /\ findex' \in 0..nf - 1 /\ sindex' = 0
      BY <1>1, <1>2, <1>3, <2>2
    <3>2. 0 \in 0..NSetOf(gindex, findex') - 1
      BY <1>1, <3>1, ShapeFacts
    <3> QED BY <1>1, <3>1, <3>2, SetFacts, FieldFacts DEF CursorOK
  <2>3. CASE sindex + 1 >= ns /\ findex + 1 >= nf
    <3>1. gindex' = gindex + 1 /\ findex' = 0 /\ sindex' = 0
      BY <1>3, <2>3
    <3>2. CASE gindex + 1 = NGroup
      BY <3>1, <3>2 DEF CursorOK
    <3>3. CASE gindex + 1 \in 0..NGroup - 1
      <4>1. 0 \in 0..NFieldOf(gindex') - 1
        BY <3>1, <3>3, ShapeFacts
      <4>2. 0 \in 0..NSetOf(gindex', 0) - 1
        BY <3>1, <3>3, <4>1, ShapeFacts
      <4> QED BY <3>1, <3>3, <4>1, <4>2, SetFacts, FieldFacts DEF CursorOK
    <3> QED BY <1>1, <1>2, <3>2, <3>3
  <2> QED BY <1>1, <1>2, <2>1, <2>2, <2>3
<1> QED BY <1>1, <1>4, <1>5

---------------------------------------------------------------------------
(* One pool after the other *)

\* The pool that loaded the fields is over, and no other was created.
NoPoolYet == /\ PoolTypeOK
             /\ \A p \in Parties : startIn[p] = 0 /\ stopIn[p] = 0
             /\ pc[Master] = "done" /\ \A w \in Workers : pc[w] = "exited"
             /\ stage \in {"grouped", "mosaic"}

Life == PoolInv \/ NoPoolYet

MosaicTurn(w) == TakeDetector(w) \/ NoDetector(w) \/ AdjustSet(w)
MatchTurn(w) == \/ TakeField(w) \/ NoFieldLeft(w) \/ Align(w) \/ Refine(w)
                \/ Sort(w) \/ Sorted(w) \/ FieldDone(w)
FillTurn(w) == Take(w) \/ Idle(w) \/ Read(w) \/ Write(w) \/ SetDone(w)

MosaicStep == /\ stage = "mosaic" /\ PoolInv
              /\ \/ MosaicReset
                 \/ RunStep /\ UNCHANGED <<wcs, mosaicVars>>
                 \/ \E w \in Workers : MosaicTurn(w)
              /\ UNCHANGED <<stage, prefs, matchVars, fillVars>>
MatchStep == /\ stage = "match" /\ PoolInv
             /\ \/ MatchReset
                \/ RunStep /\ UNCHANGED <<wcs, matchVars>>
                \/ \E w \in Workers : MatchTurn(w)
             /\ UNCHANGED <<stage, prefs, mosaicVars, fillVars>>
FillStep == /\ stage = "fill" /\ PoolInv
            /\ \/ ResetCursor
               \/ RunStep /\ UNCHANGED fillVars
               \/ \E w \in Workers : FillTurn(w)
            /\ UNCHANGED <<stage, prefs, wcs, mosaicVars, matchVars>>

\* Without a pool no step of a pool is possible.
LEMMA NextSteps ==
  ASSUME Life, Next
  PROVE  \/ AdjustMosaic \/ NextInstrument \/ StartMatch \/ StartSolve \/ Solve
         \/ MosaicStep \/ MatchStep \/ FillStep
<1> USE DEF Lifecycle
<1>1. ASSUME NoPoolYet, NEW p \in Parties, Lifecycle(p) PROVE FALSE
  BY <1>1 DEF Parties, NoPoolYet, EnterStart, LeaveStart, EnterStop, LeaveStop
<1>2. ASSUME NoPoolYet, NEW w \in Workers
      PROVE  ~Test(w) /\ ~Create(w) /\ ~Reset /\ ~Finish /\ ~Join /\ ~MosaicTurn(w)
  BY <1>2 DEF NoPoolYet, Test, Create, Reset, Finish, Join, MosaicTurn, TakeDetector,
              NoDetector, AdjustSet
<1> HIDE DEF Lifecycle
<1>3. ASSUME NEW w \in Workers, Worker(w)
      PROVE  MosaicStep \/ MatchStep \/ FillStep
  <2>1. CASE /\ stage = "mosaic" /\ MosaicWorker(w)
             /\ UNCHANGED <<stage, prefs, matchVars, fillVars>>
    <3>1. PoolInv
      BY <1>1, <1>2, <2>1 DEF MosaicWorker, MosaicTurn, Life, Parties
    <3> QED BY <2>1, <3>1 DEF MosaicWorker, MosaicStep, MosaicTurn, RunStep, Parties
  <2>2. CASE /\ stage = "match" /\ MatchWorker(w)
             /\ UNCHANGED <<stage, prefs, mosaicVars, fillVars>>
    BY <2>2 DEF Life, NoPoolYet, MatchWorker, MatchStep, MatchTurn, RunStep, Parties
  <2>3. CASE /\ stage = "fill" /\ FillWorker(w)
             /\ UNCHANGED <<stage, prefs, wcs, mosaicVars, matchVars>>
    BY <2>3 DEF Life, NoPoolYet, FillWorker, FillStep, FillTurn, RunStep, Parties
  <2> QED BY <1>3, <2>1, <2>2, <2>3 DEF Worker
<1>4. ASSUME stage = "mosaic", MosaicMaster, UNCHANGED <<stage, prefs, matchVars, fillVars>>
      PROVE  MosaicStep
  <2>1. PoolInv
    BY <1>1, <1>2, <1>4, WorkersAssumption DEF MosaicMaster, MosaicReset, Life, Parties
  <2> QED BY <1>4, <2>1 DEF MosaicMaster, MosaicStep, RunStep, Parties
<1>5. ASSUME stage = "match", MatchMaster, UNCHANGED <<stage, prefs, mosaicVars, fillVars>>
      PROVE  MatchStep
  BY <1>5 DEF Life, NoPoolYet, MatchMaster, MatchStep, RunStep, Parties
<1>6. ASSUME stage = "fill", FillMaster, UNCHANGED <<stage, prefs, wcs, mosaicVars, matchVars>>
      PROVE  FillStep
  BY <1>6 DEF Life, NoPoolYet, FillMaster, FillStep, RunStep, Parties
<1> QED BY <1>3, <1>4, <1>5, <1>6 DEF Next, MasterStep

LEMMA SamePool ==
  ASSUME PoolInv, UNCHANGED poolVars
  PROVE  PoolInv' /\ \A w \in Workers : Behind(w)' <=> Behind(w)
BY DEF PoolInv, poolVars, PoolTypeOK, StartGate!TypeOK, StopGate!TypeOK, Places, At, Parts, Kept,
       Flag, Behind

LEMMA LifeInit == Init => Life
BY MasterAssumption DEF Init, Life, NoPoolYet, PoolTypeOK, StartGate!Init, StopGate!Init,
   StartGate!TypeOK, StopGate!TypeOK, Locations, Parties, StartCalls, StopCalls

LEMMA LifeNext ==
  ASSUME Life, [Next]_vars
  PROVE  Life'
<1>1. CASE UNCHANGED vars
  <2>1. UNCHANGED poolVars /\ stage' = stage
    BY <1>1 DEF vars
  <2>2. PoolInv => PoolInv'
    BY <2>1, SamePool
  <2>3. NoPoolYet => NoPoolYet'
    BY <2>1 DEF NoPoolYet, PoolTypeOK, StartGate!TypeOK, StopGate!TypeOK, poolVars
  <2> QED BY <2>2, <2>3 DEF Life
<1>2. CASE AdjustMosaic
  <2>1. UNCHANGED poolVars /\ stage' = "mosaic"
    BY <1>2 DEF AdjustMosaic
  <2>2. PoolInv => PoolInv'
    BY <2>1, SamePool
  <2>3. NoPoolYet => NoPoolYet'
    BY <2>1 DEF NoPoolYet, PoolTypeOK, StartGate!TypeOK, StopGate!TypeOK, poolVars
  <2> QED BY <2>2, <2>3 DEF Life
<1>3. CASE NextInstrument \/ StartMatch \/ StartSolve
  <2>1. \E flag \in BOOLEAN : NewPool(flag)
    BY <1>3 DEF NextInstrument, StartMatch, StartSolve, StartMosaic, StartFill
  <2> QED BY <2>1, NewPoolLife DEF Life
<1>4. CASE Solve
  BY <1>4, SamePool DEF Solve, Life, NoPoolYet
<1>5. CASE MosaicStep
  <2>1. ASSUME NEW w \in Workers, MosaicTurn(w) PROVE PoolInv'
    BY <1>5, <2>1, TurnPool DEF MosaicStep, MosaicTurn, TakeDetector, NoDetector, AdjustSet
  <2> QED BY <1>5, <2>1, ResetPool, LifeSteps DEF Life, LifeStep, MosaicStep, MosaicReset
<1>6. CASE MatchStep
  <2>1. ASSUME NEW w \in Workers, TakeField(w) \/ NoFieldLeft(w) \/ FieldDone(w) PROVE PoolInv'
    BY <1>6, <2>1, TurnPool DEF MatchStep, TakeField, NoFieldLeft, FieldDone
  <2>2. ASSUME NEW w \in Workers, Align(w) \/ Refine(w) \/ Sort(w) \/ Sorted(w) PROVE PoolInv'
    BY <1>6, <2>2, SamePool DEF MatchStep, Align, Refine, Calibrate, Sort, Sorted
  <2> QED BY <1>6, <2>1, <2>2, ResetPool, LifeSteps DEF Life, LifeStep, MatchStep, MatchTurn, MatchReset
<1>7. CASE FillStep
  <2>1. ASSUME NEW w \in Workers, Take(w) \/ Idle(w) \/ SetDone(w) PROVE PoolInv'
    BY <1>7, <2>1, TurnPool DEF FillStep, Take, Idle, SetDone
  <2>2. ASSUME NEW w \in Workers, Read(w) \/ Write(w) PROVE PoolInv'
    BY <1>7, <2>2, SamePool DEF FillStep, Read, Write
  <2> QED BY <1>7, <2>1, <2>2, ResetPool, LifeSteps DEF Life, LifeStep, FillStep, FillTurn, ResetCursor
<1> QED BY <1>1, <1>2, <1>3, <1>4, <1>5, <1>6, <1>7, NextSteps

---------------------------------------------------------------------------
(* Every set is filled once *)

\* The cursor has passed exactly the sets that were taken.  It does not move
\* before the pool is created, and whoever has found no set left has found it
\* behind the last group.
Filling == /\ CursorOK
           /\ filled = [s \in Sets |-> IF Passed(s) THEN 1 ELSE 0]
           /\ stage \in Stages
           /\ stage \in {"grouped", "mosaic", "match"} \/ (stage = "fill" /\ pc[Master] = "create")
              => cursor = <<0, 0, 0>>
           /\ stage = "fill" => \A w \in Workers : Behind(w) => gindex = NGroup

LEMMA FillingInit == Init => Filling
<1> SUFFICES ASSUME Init PROVE Filling
  OBVIOUS
<1>1. gindex = 0 /\ findex = 0 /\ sindex = 0 /\ filled = [s \in Sets |-> 0] /\ stage = "grouped"
  BY DEF Init, FillInit
<1>2. CursorOK
  <2>1. CASE NGroup = 0
    BY <1>1, <2>1 DEF CursorOK
  <2>2. CASE NGroup # 0
    <3>1. 0 \in 0..NGroup - 1
      BY <2>2, ShapeFacts
    <3>2. 0 \in 0..NFieldOf(0) - 1
      BY <3>1, ShapeFacts
    <3>3. 0 \in 0..NSetOf(0, 0) - 1
      BY <3>1, <3>2, ShapeFacts
    <3> QED BY <1>1, <3>1, <3>2, <3>3, SetFacts, FieldFacts DEF CursorOK
  <2> QED BY <2>1, <2>2
<1>3. ASSUME NEW s \in Sets PROVE ~Passed(s)
  <2>1. s[1] \in Nat /\ s[2] \in Nat /\ s[3] \in Nat
    BY SetNumbers
  <2> QED BY <1>1, <2>1 DEF Passed
<1> QED BY <1>1, <1>2, <1>3 DEF Filling, Stages, cursor

LEMMA FillingSame ==
  ASSUME Filling, UNCHANGED <<cursor, filled>>, stage' \in Stages,
         stage' \in {"grouped", "mosaic", "match"} \/ (stage' = "fill" /\ pc'[Master] = "create")
         => cursor = <<0, 0, 0>>,
         stage' = "fill" => \A w \in Workers : Behind(w)' => gindex = NGroup
  PROVE  Filling'
BY DEF Filling, CursorOK, Passed, cursor

LEMMA FillingNext ==
  ASSUME Life, Filling, [Next]_vars
  PROVE  Filling'
<1>1. CASE UNCHANGED vars
  BY <1>1, FillingSame DEF Filling, vars, fillVars, cursor, poolVars, Behind
<1>2. CASE AdjustMosaic \/ NextInstrument \/ StartMatch
  BY <1>2, FillingSame DEF AdjustMosaic, NextInstrument, StartMatch, Filling, fillVars, cursor,
                           Stages
<1>3. CASE StartSolve
  <2>1. /\ UNCHANGED <<cursor, filled>> /\ stage \in {"mosaic", "match"} /\ stage' = "fill"
        /\ \E flag \in BOOLEAN : NewPool(flag)
    BY <1>3 DEF StartSolve, StartFill, cursor
  <2> QED BY <2>1, FillingSame, NewPoolLife DEF Filling, Stages
<1>4. CASE Solve
  BY <1>4, FillingSame DEF Solve, Filling, fillVars, cursor, Stages
<1>5. CASE MosaicStep \/ MatchStep
  BY <1>5, FillingSame DEF MosaicStep, MatchStep, Filling, fillVars, cursor
<1>6. CASE FillStep
  <2>1. stage = "fill" /\ stage' = "fill" /\ PoolInv
    BY <1>6 DEF FillStep
  <2>2. CASE ResetCursor
    <3>1. LifeStep /\ pc[Master] = "create" /\ UNCHANGED filled
          /\ gindex' = 0 /\ findex' = 0 /\ sindex' = 0
      BY <2>2 DEF ResetCursor, Reset, LifeStep
    <3>2. cursor = <<0, 0, 0>> /\ UNCHANGED cursor
      BY <2>1, <3>1 DEF Filling, cursor
    <3> QED BY <2>1, <3>1, <3>2, LifeSteps, FillingSame DEF Filling, Stages
  <2>3. CASE RunStep /\ UNCHANGED fillVars
    BY <2>1, <2>3, LifeSteps, FillingSame DEF LifeStep, Filling, fillVars, cursor
  <2>4. ASSUME NEW w \in Workers, Take(w) PROVE Filling'
    <3>1. /\ Goto(w, "work") /\ UNCHANGED <<gateVars, endflag>> /\ pc[w] = "section"
          /\ gindex < NGroup /\ Advance /\ filled' = [filled EXCEPT ![cursor] = @ + 1]
      BY <2>4 DEF Take
    <3>2. /\ \A v \in Workers : Behind(v)' => Behind(v)
          /\ pc'[Master] # "create"
      BY <2>1, <3>1, TurnSteps
    <3>3. /\ CursorOK' /\ cursor \in Sets
          /\ \A s \in Sets : Passed(s)' <=> Passed(s) \/ s = cursor
      BY <3>1, AdvancePasses DEF Filling
    <3>4. ~Passed(cursor)
      BY <3>3, SetNumbers DEF Passed, cursor
    <3>5. filled' = [s \in Sets |-> IF Passed(s)' THEN 1 ELSE 0]
      BY <3>1, <3>3, <3>4 DEF Filling
    <3>6. \A v \in Workers : ~Behind(v)
      BY <2>1, <3>1, ShapeFacts DEF Filling
    <3> QED BY <2>1, <3>2, <3>3, <3>5, <3>6 DEF Filling, Stages
  <2>5. ASSUME NEW w \in Workers, Idle(w) \/ SetDone(w) PROVE Filling'
    <3>1. /\ UNCHANGED <<gateVars, endflag>> /\ UNCHANGED <<cursor, filled>>
          /\ \/ pc[w] = "section" /\ Goto(w, "stop") /\ gindex >= NGroup
             \/ pc[w] = "work" /\ Goto(w, "test")
      BY <2>5 DEF Idle, SetDone, fillVars, cursor
    <3>2. pc'[Master] # "create"
      BY <2>1, <3>1, TurnSteps
    <3>3. \A v \in Workers : Behind(v)' => Behind(v) \/ gindex >= NGroup
      <4>1. CASE pc[w] = "section" /\ Goto(w, "stop") /\ gindex >= NGroup
        BY <4>1
      <4>2. CASE pc[w] = "work" /\ Goto(w, "test")
        BY <2>1, <3>1, <4>2, TurnSteps
      <4> QED BY <3>1, <4>1, <4>2
    <3>4. gindex >= NGroup => gindex = NGroup
      <4>1. <<gindex, findex, sindex>> \in Sets => gindex < NGroup /\ gindex \in Nat
        BY SetNumbers
      <4> QED BY <4>1, ShapeFacts DEF Filling, CursorOK
    <3> QED BY <2>1, <3>1, <3>2, <3>3, <3>4, FillingSame DEF Filling, Stages
  <2>6. ASSUME NEW w \in Workers, Read(w) \/ Write(w) PROVE Filling'
    <3>1. UNCHANGED poolVars /\ UNCHANGED <<cursor, filled>>
      BY <2>6 DEF Read, Write
    <3>2. pc' = pc
      BY <3>1 DEF poolVars
    <3> QED BY <2>1, <3>1, <3>2, SamePool, FillingSame DEF Filling
  <2> QED BY <1>6, <2>2, <2>3, <2>4, <2>5, <2>6 DEF FillStep, FillTurn
<1> QED BY <1>1, <1>2, <1>3, <1>4, <1>5, <1>6, NextSteps

\* No set of any group is skipped and none is filled twice, whatever workers
\* pthread_fillastromatrix_thread hands the sets to.
THEOREM FilledOnceHolds == Spec => []FilledOnce
<1>1. Init => Life /\ Filling
  BY LifeInit, FillingInit
<1>2. Life /\ Filling /\ [Next]_vars => (Life /\ Filling)'
  BY LifeNext, FillingNext
<1>3. Life /\ Filling => FilledOnce
  <2> SUFFICES ASSUME Life, Filling PROVE FilledOnce
    OBVIOUS
  <2>1. ASSUME stage = "fill", MasterPastStop, NEW s \in Sets PROVE Passed(s)
    <3>1. PoolInv
      BY <2>1 DEF Life, NoPoolYet
    <3>2. gindex = NGroup
      BY <2>1, <3>1, PastStop, WorkersAssumption DEF Filling
    <3> QED BY <3>2, SetNumbers DEF Passed
  <2> QED BY <2>1 DEF Filling, FilledOnce
<1> QED BY <1>1, <1>2, <1>3, PTL DEF Spec

---------------------------------------------------------------------------
(* The axis is kept while a thread sorts *)

\* A worker that sorts is in the middle of a field, and holds the mutex.
Sorts(w) == /\ w \in Workers /\ pc[w] = "work"
            /\ mtodo[w] # <<>> /\ Head(mtodo[w]).op = "sort"
            /\ sortmutex = w
            /\ sort_coord = LatAxis[matching[w]]

SortLocked == /\ DOMAIN mtodo = Workers /\ DOMAIN matching = Workers
              /\ sorting # {} => stage = "match"
              /\ \A w \in sorting : Sorts(w)

LEMMA SortLockedNext ==
  ASSUME Life, SortLocked, [Next]_vars
  PROVE  SortLocked'
<1>1. CASE UNCHANGED vars
  BY <1>1 DEF SortLocked, Sorts, vars, poolVars, matchVars
<1>2. CASE AdjustMosaic \/ NextInstrument \/ StartMatch \/ MosaicStep \/ FillStep \/ Solve
  <2>1. stage # "match" /\ UNCHANGED matchVars
    BY <1>2 DEF AdjustMosaic, NextInstrument, StartMatch, MosaicStep, FillStep, Solve
  <2> QED BY <2>1 DEF SortLocked, matchVars
<1>3. CASE StartSolve
  <2>1. UNCHANGED <<sorting, mtodo>> /\ DOMAIN matching' = Workers /\ PoolOver
        /\ stage \in {"mosaic", "match"}
    BY <1>3 DEF StartSolve
  <2>2. sorting = {}
    <3> SUFFICES ASSUME NEW w \in sorting PROVE FALSE
      OBVIOUS
    <3>1. w \in Workers /\ pc[w] = "work"
      BY DEF SortLocked, Sorts
    <3>2. PoolInv
      BY <2>1, <3>1 DEF Life, NoPoolYet
    <3> QED BY <2>1, <3>1, <3>2, Working DEF PoolOver, MasterPastStop
  <2> QED BY <2>1, <2>2 DEF SortLocked
<1>4. CASE MatchStep
  <2>1. stage = "match" /\ stage' = "match" /\ PoolInv
    BY <1>4 DEF MatchStep
  <2>2. CASE MatchReset \/ (RunStep /\ UNCHANGED <<wcs, matchVars>>)
    <3>1. LifeStep /\ UNCHANGED <<mtodo, matching, sortmutex, sort_coord, sorting>>
      BY <2>2 DEF MatchReset, matchVars, LifeStep
    <3> QED BY <2>1, <3>1, LifeSteps DEF SortLocked, Sorts
  <2>3. ASSUME NEW w \in Workers, TakeField(w) \/ NoFieldLeft(w) \/ FieldDone(w)
        PROVE  SortLocked'
    <3>1. /\ w \notin sorting
          /\ UNCHANGED <<sortmutex, sort_coord, sorting>>
          /\ DOMAIN mtodo' = Workers /\ DOMAIN matching' = Workers
          /\ \A v \in Workers \ {w} : mtodo'[v] = mtodo[v] /\ matching'[v] = matching[v]
      BY <2>3 DEF TakeField, NoFieldLeft, FieldDone, matchVars, SortLocked, Sorts
    <3>2. \A v \in Workers \ {w} : pc'[v] = pc[v]
      BY <2>1, <2>3, TurnSteps DEF TakeField, NoFieldLeft, FieldDone
    <3> QED BY <2>1, <3>1, <3>2 DEF SortLocked, Sorts
  <2>4. ASSUME NEW w \in Workers, Align(w) \/ Refine(w)
        PROVE  SortLocked'
    <3>1. /\ w \notin sorting /\ pc' = pc
          /\ UNCHANGED <<matching, sortmutex, sort_coord, sorting>>
          /\ DOMAIN mtodo' = Workers /\ \A v \in Workers \ {w} : mtodo'[v] = mtodo[v]
      BY <2>4 DEF Align, Refine, Calibrate, poolVars, SortLocked, Sorts
    <3> QED BY <2>1, <3>1 DEF SortLocked, Sorts
  <2>5. ASSUME NEW w \in Workers, Sort(w)
        PROVE  SortLocked'
    <3>1. sorting = {}
      BY <2>5, NoThreadAssumption DEF Sort, SortLocked, Sorts
    <3> QED BY <2>1, <2>5, <3>1 DEF Sort, SortLocked, Sorts, poolVars
  <2>6. ASSUME NEW w \in Workers, Sorted(w)
        PROVE  SortLocked'
    <3>1. sorting' = {}
      BY <2>6 DEF Sorted, SortLocked, Sorts
    <3> QED BY <2>1, <2>6, <3>1 DEF Sorted, SortLocked
  <2> QED BY <1>4, <2>2, <2>3, <2>4, <2>5, <2>6 DEF MatchStep, MatchTurn
<1> QED BY <1>1, <1>2, <1>3, <1>4, NextSteps

\* match_sortmutex keeps sort_coord as the thread inside qsort has set it,
\* from the lock to the unlock of match_refine.
THEOREM SortKeyHeldHolds == Spec => []SortKeyHeld
<1>1. Init => Life /\ SortLocked
  BY LifeInit DEF Init, MatchInit, SortLocked
<1>2. Life /\ SortLocked /\ [Next]_vars => (Life /\ SortLocked)'
  BY LifeNext, SortLockedNext
<1>3. SortLocked => SortKeyHeld
  BY DEF SortLocked, Sorts, SortKeyHeld
<1> QED BY <1>1, <1>2, <1>3, PTL DEF Spec

---------------------------------------------------------------------------
(* The indices of the coefficients *)

Counts == [index : [Fields -> Int], index2 : [Fields -> Int],
           findex : [Labels -> Int], findex2 : [Labels -> Int]]

NoCounts == [index |-> [fd \in Fields |-> 0], index2 |-> [fd \in Fields |-> 0],
             findex |-> [l \in Labels |-> 0], findex2 |-> [l \in Labels |-> 0]]

\* What the first walk of astrsolve_fgroups does with a field, by the stability
\* of its instrument.
Recorded(next, acc, fd, l, i, i2, n, n2) ==
    /\ next.index[fd] = i /\ next.index2[fd] = i2
    /\ \A f \in Fields \ {fd} : next.index[f] = acc.index[f] /\ next.index2[f] = acc.index2[f]
    /\ next.findex[l] = n /\ next.findex2[l] = n2
    /\ \A k \in Labels \ {l} : next.findex[k] = acc.findex[k] /\ next.findex2[k] = acc.findex2[k]

LEMMA CountFieldCases ==
  ASSUME NEW stability \in [Labels -> StabilityTypes], NEW acc \in Counts, NEW fd \in Fields,
         NEW l, l = Label[fd], NEW nset, nset = NSetOf(fd[1], fd[2]),
         NEW next, next = CountField(stability, acc, fd)
  PROVE  /\ next \in Counts /\ l \in Labels /\ nset \in Nat \ {0}
         /\ \/ /\ stability[l] = "INSTRUMENT"
               /\ Recorded(next, acc, fd, l, 0, acc.findex2[l] - 1, nset, acc.findex2[l] + 1)
            \/ /\ stability[l] = "EXPOSURE"
               /\ Recorded(next, acc, fd, l, acc.findex[l], -1, acc.findex[l] + nset, -1)
            \/ /\ stability[l] = "PREDISTORTED"
               /\ Recorded(next, acc, fd, l, -1, acc.findex2[l], 0, acc.findex2[l] + 1)
<1>1. l \in Labels /\ nset \in Nat \ {0}
  BY FieldFacts, ShapeFacts DEF Labels
<1>2. stability[l] \in {"INSTRUMENT", "EXPOSURE", "PREDISTORTED"}
  BY <1>1 DEF StabilityTypes
<1>3. /\ acc.findex[l] \in Int /\ acc.findex2[l] \in Int
      /\ acc.index \in [Fields -> Int] /\ acc.index2 \in [Fields -> Int]
      /\ acc.findex \in [Labels -> Int] /\ acc.findex2 \in [Labels -> Int]
  BY <1>1 DEF Counts
<1>4. CASE stability[l] = "INSTRUMENT"
  BY <1>1, <1>3, <1>4 DEF CountField, Counts, Recorded
<1>5. CASE stability[l] = "EXPOSURE"
  BY <1>1, <1>3, <1>5 DEF CountField, Counts, Recorded
<1>6. CASE stability[l] = "PREDISTORTED"
  BY <1>1, <1>3, <1>6 DEF CountField, Counts, Recorded
<1> QED BY <1>1, <1>2, <1>4, <1>5, <1>6

LEMMA CountedSteps ==
  ASSUME NEW stability \in [Labels -> StabilityTypes]
  PROVE  \E acc : /\ acc[0] = NoCounts
                  /\ \A m \in 0..Len(FieldSeq) : acc[m] \in Counts
                  /\ \A m \in 1..Len(FieldSeq) :
                        acc[m] = CountField(stability, acc[m - 1], FieldSeq[m])
                  /\ Counted(stability) = acc[Len(FieldSeq)]
<1> DEFINE n == Len(FieldSeq)
           step == [x \in (1..n) \X Counts |-> CountField(stability, x[2], FieldSeq[x[1]])]
           next(g, T) == IF T = {} THEN NoCounts
                         ELSE CountField(stability, g[T \ {Max(T)}], FieldSeq[Max(T)])
           sum == CHOOSE g : g = [T \in SUBSET (1..n) |-> next(g, T)]
<1>1. n \in Nat /\ DOMAIN FieldSeq = 1..n /\ \A m \in 1..n : FieldSeq[m] \in Fields
  BY FieldOrder
<1>2. NoCounts \in Counts
  BY DEF NoCounts, Counts
<1>3. ASSUME NEW a \in Counts, NEW i \in 1..n
      PROVE  /\ step[<<i, a>>] \in Counts
             /\ step[<<i, a>>] = CountField(stability, a, FieldSeq[i])
  BY <1>1, CountFieldCases
<1> HIDE DEF n, step
<1>4. PICK g : /\ g = [T \in SUBSET (1..n) |->
                       IF T = {} THEN NoCounts ELSE step[<<Max(T), g[T \ {Max(T)}]>>]]
               /\ \A T \in SUBSET (1..n) : g[T] \in Counts
  <2>1. \A i \in 1..n : \A a \in Counts : step[<<i, a>>] \in Counts
    BY <1>3
  <2>2. PICK h : FoldRecursion(n, NoCounts, step, h) /\ \A T \in SUBSET (1..n) : h[T] \in Counts
    BY <1>1, <1>2, <2>1, FoldDefined
  <2> QED BY <2>2, Zenon DEF FoldRecursion
<1>5. ASSUME NEW T \in SUBSET (1..n)
      PROVE  (IF T = {} THEN NoCounts ELSE step[<<Max(T), g[T \ {Max(T)}]>>]) = next(g, T)
  <2>1. CASE T = {}
    BY <2>1
  <2>2. CASE T # {}
    <3>1. Max(T) \in 1..n /\ T \ {Max(T)} \in SUBSET (1..n)
      BY <1>1, <2>2, MaxInSet
    <3> QED BY <1>3, <1>4, <2>2, <3>1
  <2> QED BY <2>1, <2>2
<1>6. g = [T \in SUBSET (1..n) |-> next(g, T)]
  <2> HIDE DEF next
  <2> QED BY <1>4, <1>5
<1>7. sum = [T \in SUBSET (1..n) |-> next(sum, T)]
  <2> HIDE DEF next
  <2> QED BY <1>6
<1>8. Counted(stability) = sum[1..n]
  BY <1>1 DEF Counted, FoldLeft, MapThenFoldSet, NoCounts, n
<1> HIDE DEF sum
<1> DEFINE acc == [m \in 0..n |-> sum[1..m]]
<1>9. acc[0] = NoCounts /\ Counted(stability) = acc[n]
  <2>1. 1..0 = {} /\ 0 \in 0..n /\ n \in 0..n
    BY <1>1
  <2>2. sum[{}] = NoCounts
    BY <1>7
  <2> QED BY <1>8, <2>1, <2>2
<1>10. ASSUME NEW m \in 1..n PROVE acc[m] = CountField(stability, acc[m - 1], FieldSeq[m])
  <2>1. /\ 1..m \in SUBSET (1..n) /\ 1..m # {} /\ Max(1..m) = m
        /\ (1..m) \ {Max(1..m)} = 1..m - 1 /\ m - 1 \in 0..n /\ m \in 0..n
    BY <1>1, FoldPrefix
  <2>2. sum[1..m] = CountField(stability, sum[1..m - 1], FieldSeq[m])
    BY <1>7, <2>1
  <2> QED BY <2>1, <2>2
<1> HIDE DEF acc
<1> DEFINE Good == {m \in Nat : m \in 0..n => acc[m] \in Counts}
<1>11. 0 \in Good
  BY <1>2, <1>9
<1>12. ASSUME NEW m \in Nat, m \in Good PROVE m + 1 \in Good
  <2> SUFFICES ASSUME m + 1 \in 0..n PROVE acc[m + 1] \in Counts
    OBVIOUS
  <2>1. m \in 0..n /\ m + 1 \in 1..n /\ (m + 1) - 1 = m
    BY <1>1
  <2>2. acc[m] \in Counts /\ FieldSeq[m + 1] \in Fields
    BY <1>1, <1>12, <2>1
  <2>3. acc[m + 1] = CountField(stability, acc[m], FieldSeq[m + 1])
    BY <1>10, <2>1
  <2>4. CountField(stability, acc[m], FieldSeq[m + 1]) \in Counts
    BY <2>2, CountFieldCases
  <2> QED BY <2>3, <2>4
<1>13. \A m \in 0..n : acc[m] \in Counts
  <2> HIDE DEF Good
  <2>1. \A m \in Nat : m \in Good
    BY <1>11, <1>12, NumberInduction
  <2> QED BY <2>1 DEF Good
<1> QED BY <1>9, <1>10, <1>13 DEF n

LEMMA LabelFacts == NLabel \in Nat /\ Labels = 0..NLabel - 1
<1> DEFINE f == [fd \in Fields |-> Label[fd]]
<1>1. f \in Surjection(Fields, Labels)
  BY DEF Labels, Surjection
<1>2. IsFiniteSet(Labels)
  <2> HIDE DEF f
  <2> QED BY <1>1, SetsFinite, FS_Surjection
<1> QED BY <1>2, FS_CardinalityType, LabelAssumption DEF NLabel, LabelAssumption

\* Where the coefficients of an instrument start: behind those of the
\* instruments before it.
LEMMA BeforeNext ==
  ASSUME NEW count \in [Labels -> Int]
  PROVE  /\ Before(count, 0) = 0
         /\ \A l \in Labels : /\ Before(count, l) \in Int
                              /\ Before(count, l + 1) = Before(count, l) + count[l]
         /\ Before(count, NLabel) \in Int
<1>1. \A l : Before(count, l) = SumFunctionOnSet(count, 0..l - 1)
  BY DEF Before, MapThenSumSet, SumFunctionOnSet, FoldFunctionOnSet, MapThenFoldSet
<1>2. ASSUME NEW S PROVE S = {} => SumFunctionOnSet(count, S) = 0
  BY SumZero, FS_EmptySet
<1>3. ASSUME NEW l \in Labels
      PROVE  /\ Before(count, l) \in Int
             /\ Before(count, l + 1) = Before(count, l) + count[l]
  <2>1. /\ l \in Nat /\ 0..l \subseteq Labels /\ (0..l) \ {l} = 0..l - 1
        /\ (l + 1) - 1 = l /\ l \in 0..l
    BY LabelFacts
  <2>2. IsFiniteSet(0..l)
    BY <2>1, FS_Interval
  <2>3. \A k \in 0..l : count[k] \in Int
    BY <2>1
  <2>4. /\ SumFunctionOnSet(count, (0..l) \ {l}) \in Int
        /\ SumFunctionOnSet(count, 0..l) = count[l] + SumFunctionOnSet(count, (0..l) \ {l})
    BY <2>1, <2>2, <2>3, SumWithout
  <2>5. count[l] \in Int
    OBVIOUS
  <2>6. Before(count, l) = SumFunctionOnSet(count, (0..l) \ {l})
    BY <1>1, <2>1
  <2>7. Before(count, l + 1) = SumFunctionOnSet(count, 0..l)
    BY <1>1, <2>1
  <2> QED BY <2>4, <2>5, <2>6, <2>7
<1>4. Before(count, 0) = 0
  <2>1. 0..0 - 1 = {}
    OBVIOUS
  <2> QED BY <1>1, <1>2, <2>1
<1>5. Before(count, NLabel) \in Int
  <2>1. CASE NLabel = 0
    BY <1>4, <2>1
  <2>2. CASE NLabel # 0
    <3>1. NLabel - 1 \in Labels /\ (NLabel - 1) + 1 = NLabel
      BY <2>2, LabelFacts
    <3>2. count[NLabel - 1] \in Int
      BY <3>1
    <3> QED BY <1>3, <3>1, <3>2
  <2> QED BY <2>1, <2>2
<1> QED BY <1>3, <1>4, <1>5

LEMMA BeforeGrows ==
  ASSUME NEW count \in [Labels -> Int], NEW l \in 0..NLabel, \A k \in 0..l - 1 : count[k] >= 0
  PROVE  /\ 0 <= Before(count, l)
         /\ \A k \in 0..l - 1 : Before(count, k) + count[k] <= Before(count, l)
<1> DEFINE P(m) == /\ Before(count, m) \in Int /\ 0 <= Before(count, m)
                   /\ \A k \in 0..m - 1 : Before(count, k) + count[k] <= Before(count, m)
           Good == {m \in Nat : m <= l => P(m)}
<1>1. 0 \in Good
  BY BeforeNext
<1>2. ASSUME NEW m \in Nat, m \in Good PROVE m + 1 \in Good
  <2> SUFFICES ASSUME m + 1 <= l PROVE P(m + 1)
    OBVIOUS
  <2>1. m \in Labels /\ m \in 0..l - 1 /\ m <= l
    BY LabelFacts
  <2>2. P(m) /\ count[m] >= 0 /\ count[m] \in Int
    BY <1>2, <2>1
  <2>3. Before(count, m + 1) = Before(count, m) + count[m]
    BY <2>1, BeforeNext
  <2>4. ASSUME NEW k \in 0..(m + 1) - 1
        PROVE  Before(count, k) + count[k] <= Before(count, m + 1)
    <3>1. k \in Labels /\ (k \in 0..m - 1 \/ k = m)
      BY <2>1, LabelFacts
    <3>2. Before(count, k) \in Int /\ count[k] \in Int
      BY <3>1, BeforeNext
    <3> QED BY <2>2, <2>3, <3>1, <3>2
  <2> QED BY <2>2, <2>3, <2>4
<1> HIDE DEF Good
<1>3. l \in Good
  BY <1>1, <1>2, NumberInduction
<1> QED BY <1>3 DEF Good

\* What the first walk has found of a field, and when it is behind the first m.
Found(stability, acc, l, nset, index, index2) ==
    /\ \/ stability[l] = "PREDISTORTED" /\ index = -1
       \/ /\ stability[l] # "PREDISTORTED" /\ index >= 0
          /\ index + nset <= acc.findex[l]
    /\ stability[l] = "INSTRUMENT" => index = 0
    /\ stability[l] = "EXPOSURE" => index2 = -1
    /\ stability[l] # "EXPOSURE" => acc.findex2[l] >= 1

Walked(stability, acc, m) ==
    /\ \A l \in Labels : /\ acc.findex[l] >= 0
                         /\ stability[l] # "EXPOSURE" => acc.findex2[l] >= 0
    /\ \A i \in 1..m : Found(stability, acc, Label[FieldSeq[i]],
                            NSetOf(FieldSeq[i][1], FieldSeq[i][2]),
                            acc.index[FieldSeq[i]], acc.index2[FieldSeq[i]])

LEMMA WalkedNext ==
  ASSUME NEW stability \in [Labels -> StabilityTypes], NEW acc \in Counts,
         NEW m \in 1..Len(FieldSeq), Walked(stability, acc, m - 1),
         NEW next, next = CountField(stability, acc, FieldSeq[m])
  PROVE  Walked(stability, next, m)
<1>1. /\ FieldSeq[m] \in Fields
      /\ \A i \in 1..m - 1 : FieldSeq[i] \in Fields /\ FieldSeq[i] # FieldSeq[m]
  <2>1. m \in 1..Len(FieldSeq) /\ \A i \in 1..m - 1 : i \in 1..Len(FieldSeq) /\ i # m
    <3>1. PICK n \in Nat : n = Len(FieldSeq)
      BY FieldOrder
    <3>2. m \in 1..n
      BY <3>1
    <3>3. \A i \in 1..m - 1 : i \in 1..n /\ i # m
      BY <3>1, <3>2
    <3> QED BY <3>1, <3>3
  <2>2. \A i \in 1..Len(FieldSeq) : FieldSeq[i] \in Fields
    BY FieldOrder
  <2>3. \A i, j \in 1..Len(FieldSeq) : FieldSeq[i] = FieldSeq[j] => i = j
    BY FieldOrder
  <2> QED BY <2>1, <2>2, <2>3
<1>2. PICK fd, l, nset : fd = FieldSeq[m] /\ l = Label[fd] /\ nset = NSetOf(fd[1], fd[2])
  OBVIOUS
<1>3. /\ l \in Labels /\ nset \in Nat \ {0}
      /\ \/ /\ stability[l] = "INSTRUMENT"
            /\ Recorded(next, acc, fd, l, 0, acc.findex2[l] - 1, nset, acc.findex2[l] + 1)
         \/ /\ stability[l] = "EXPOSURE"
            /\ Recorded(next, acc, fd, l, acc.findex[l], -1, acc.findex[l] + nset, -1)
         \/ /\ stability[l] = "PREDISTORTED"
            /\ Recorded(next, acc, fd, l, -1, acc.findex2[l], 0, acc.findex2[l] + 1)
  BY <1>1, <1>2, CountFieldCases
<1>4. \A k \in Labels : acc.findex[k] \in Int /\ acc.findex2[k] \in Int
  BY DEF Counts
<1>5. \A k \in Labels : /\ acc.findex[k] >= 0
                        /\ stability[k] # "EXPOSURE" => acc.findex2[k] >= 0
  BY DEF Walked
<1>6. \A k \in Labels : /\ next.findex[k] >= 0
                        /\ stability[k] # "EXPOSURE" => next.findex2[k] >= 0
  <2>1. \A k \in Labels \ {l} : next.findex[k] = acc.findex[k] /\ next.findex2[k] = acc.findex2[k]
    BY <1>3 DEF Recorded
  <2>2. next.findex[l] >= 0 /\ (stability[l] # "EXPOSURE" => next.findex2[l] >= 0)
    <3>1. /\ acc.findex[l] \in Int /\ acc.findex2[l] \in Int /\ acc.findex[l] >= 0
          /\ stability[l] # "EXPOSURE" => acc.findex2[l] >= 0
      BY <1>3, <1>4, <1>5
    <3>2. CASE stability[l] = "INSTRUMENT"
      BY <1>3, <3>1, <3>2 DEF Recorded
    <3>3. CASE stability[l] = "EXPOSURE"
      BY <1>3, <3>1, <3>3 DEF Recorded
    <3>4. CASE stability[l] = "PREDISTORTED"
      BY <1>3, <3>1, <3>4 DEF Recorded
    <3> QED BY <1>3, <3>2, <3>3, <3>4
  <2>3. ASSUME NEW k \in Labels \ {l}
        PROVE  /\ next.findex[k] >= 0
               /\ stability[k] # "EXPOSURE" => next.findex2[k] >= 0
    BY <1>5, <2>1
  <2> QED BY <2>2, <2>3
<1>7. Found(stability, next, l, nset, next.index[fd], next.index2[fd])
  <2>1. /\ acc.findex[l] \in Int /\ acc.findex2[l] \in Int /\ acc.findex[l] >= 0
        /\ stability[l] # "EXPOSURE" => acc.findex2[l] >= 0
    BY <1>3, <1>4, <1>5
  <2>2. CASE stability[l] = "INSTRUMENT"
    BY <1>3, <2>1, <2>2 DEF Recorded, Found
  <2>3. CASE stability[l] = "EXPOSURE"
    BY <1>3, <2>1, <2>3 DEF Recorded, Found
  <2>4. CASE stability[l] = "PREDISTORTED"
    BY <1>3, <2>1, <2>4 DEF Recorded, Found
  <2> QED BY <1>3, <2>2, <2>3, <2>4
<1>8. ASSUME NEW f \in Fields, f # fd, NEW k, k = Label[f],
             NEW ns, ns = NSetOf(f[1], f[2]),
             Found(stability, acc, k, ns, acc.index[f], acc.index2[f])
      PROVE  Found(stability, next, k, ns, next.index[f], next.index2[f])
  <2>1. k \in Labels /\ ns \in Nat
    BY <1>8, FieldFacts, ShapeFacts DEF Labels
  <2>2. k = l => ns = nset
    BY <1>1, <1>2, <1>8, LabelAssumption DEF LabelAssumption
  <2>3. next.index[f] = acc.index[f] /\ next.index2[f] = acc.index2[f] /\ acc.index[f] \in Int
    BY <1>3, <1>8 DEF Recorded, Counts
  <2>4. CASE k # l
    <3>1. next.findex[k] = acc.findex[k] /\ next.findex2[k] = acc.findex2[k]
      BY <1>3, <2>1, <2>4 DEF Recorded
    <3> QED BY <1>8, <2>3, <3>1 DEF Found
  <2>5. CASE k = l
    <3>1. acc.findex[l] \in Int /\ acc.findex2[l] \in Int /\ ns = nset /\ nset \in Nat
      BY <1>3, <1>4, <2>2, <2>5
    <3>2. Found(stability, acc, l, nset, acc.index[f], acc.index2[f])
      BY <1>8, <2>5, <3>1
    <3>3. CASE stability[l] = "INSTRUMENT"
      <4>1. next.findex[l] = nset /\ next.findex2[l] = acc.findex2[l] + 1
        BY <1>3, <3>3 DEF Recorded
      <4>2. Found(stability, next, l, nset, acc.index[f], acc.index2[f])
        BY <3>1, <3>2, <3>3, <4>1 DEF Found
      <4> QED BY <2>3, <2>5, <3>1, <4>2
    <3>4. CASE stability[l] = "EXPOSURE"
      <4>1. next.findex[l] = acc.findex[l] + nset
        BY <1>3, <3>4 DEF Recorded
      <4>2. Found(stability, next, l, nset, acc.index[f], acc.index2[f])
        BY <2>3, <3>1, <3>2, <3>4, <4>1 DEF Found
      <4> QED BY <2>3, <2>5, <3>1, <4>2
    <3>5. CASE stability[l] = "PREDISTORTED"
      <4>1. next.findex2[l] = acc.findex2[l] + 1
        BY <1>3, <3>5 DEF Recorded
      <4>2. Found(stability, next, l, nset, acc.index[f], acc.index2[f])
        BY <3>1, <3>2, <3>5, <4>1 DEF Found
      <4> QED BY <2>3, <2>5, <3>1, <4>2
    <3> QED BY <1>3, <3>3, <3>4, <3>5
  <2> QED BY <2>4, <2>5
<1>9. ASSUME NEW i \in 1..m
      PROVE  Found(stability, next, Label[FieldSeq[i]], NSetOf(FieldSeq[i][1], FieldSeq[i][2]),
                   next.index[FieldSeq[i]], next.index2[FieldSeq[i]])
  <2>1. CASE i = m
    BY <1>2, <1>7, <2>1
  <2>2. CASE i # m
    <3>1. i \in 1..m - 1
      BY <2>2
    <3> QED BY <1>1, <1>2, <1>8, <3>1 DEF Walked
  <2> QED BY <2>1, <2>2
<1> QED BY <1>6, <1>9 DEF Walked

LEMMA CountedFound ==
  ASSUME NEW stability \in [Labels -> StabilityTypes], NEW c, c = Counted(stability)
  PROVE  /\ c \in Counts
         /\ \A l \in Labels : /\ c.findex[l] >= 0
                              /\ stability[l] # "EXPOSURE" => c.findex2[l] >= 0
         /\ \A fd \in Fields : Found(stability, c, Label[fd], NSetOf(fd[1], fd[2]),
                                     c.index[fd], c.index2[fd])
         /\ \A fd \in Fields : stability[Label[fd]] # "EXPOSURE" => c.findex2[Label[fd]] >= 1
<1>1. PICK acc : /\ acc[0] = NoCounts
                 /\ \A m \in 0..Len(FieldSeq) : acc[m] \in Counts
                 /\ \A m \in 1..Len(FieldSeq) :
                       acc[m] = CountField(stability, acc[m - 1], FieldSeq[m])
                 /\ c = acc[Len(FieldSeq)]
  BY CountedSteps
<1>2. Len(FieldSeq) \in Nat
  BY FieldOrder
<1> DEFINE Good == {m \in Nat : m <= Len(FieldSeq) => Walked(stability, acc[m], m)}
<1>3. 0 \in Good
  BY <1>1 DEF Walked, NoCounts
<1>4. ASSUME NEW m \in Nat, m \in Good PROVE m + 1 \in Good
  <2> SUFFICES ASSUME m + 1 <= Len(FieldSeq) PROVE Walked(stability, acc[m + 1], m + 1)
    OBVIOUS
  <2>1. m + 1 \in 1..Len(FieldSeq) /\ (m + 1) - 1 = m /\ m <= Len(FieldSeq) /\ m \in 0..Len(FieldSeq)
    BY <1>2
  <2>2. acc[m + 1] = CountField(stability, acc[m], FieldSeq[m + 1]) /\ acc[m] \in Counts
    BY <1>1, <2>1
  <2>3. Walked(stability, acc[m], (m + 1) - 1)
    BY <1>4, <2>1
  <2> QED BY <2>1, <2>2, <2>3, WalkedNext
<1> HIDE DEF Good
<1>5. Walked(stability, c, Len(FieldSeq)) /\ c \in Counts
  <2>1. Len(FieldSeq) \in Good
    BY <1>2, <1>3, <1>4, NumberInduction
  <2>2. Len(FieldSeq) <= Len(FieldSeq) /\ Len(FieldSeq) \in 0..Len(FieldSeq)
    BY <1>2
  <2> QED BY <1>1, <2>1, <2>2 DEF Good
<1>6. ASSUME NEW fd \in Fields
      PROVE  Found(stability, c, Label[fd], NSetOf(fd[1], fd[2]), c.index[fd], c.index2[fd])
  <2>1. PICK p \in 1..Len(FieldSeq) : FieldSeq[p] = fd
    BY FieldOrder
  <2> QED BY <1>5, <2>1 DEF Walked
<1> QED BY <1>5, <1>6 DEF Walked, Found

\* No instrument is fitted exposure by exposure unless all those behind it are.
ExposuresLast(stability) ==
    \A k, l \in Labels : stability[k] = "EXPOSURE" /\ k < l => stability[l] = "EXPOSURE"

\* Then the rows of the instruments end where those of the exposures start.
LEMMA AssignedRows ==
  ASSUME NEW stability \in [Labels -> StabilityTypes], NEW a, a = Assigned(stability)
  PROVE  /\ a.index \in [Sets -> Int] /\ a.index2 \in [Sets -> Int]
         /\ ExposuresLast(stability) =>
               \A s, t \in Sets : a.index[s] = a.index2[t] => a.index[s] = -1
<1>1. PICK c : c = Counted(stability)
  OBVIOUS
<1>2. PICK d \in {0, 1} :
         d = IF stability[Label[Last(FieldSeq)]] # "PREDISTORTED" THEN 1 ELSE 0
  OBVIOUS
<1>3. PICK F : F = [l \in Labels |-> c.findex2[l] - d]
  OBVIOUS
<1>4. PICK start : start = NCoeff * Before(c.findex, NLabel)
  OBVIOUS
<1>5. a.index = [s \in Sets |->
                    IF c.index[FieldOf(s)] < 0 THEN -1
                    ELSE NCoeff * (c.index[FieldOf(s)] + Before(c.findex, Label[FieldOf(s)]) + s[3])]
  BY <1>1 DEF Assigned
<1>6. a.index2 = [s \in Sets |->
                    [fd \in Fields |->
                        IF c.index2[fd] < 0 THEN -1
                        ELSE start + NCoeff2 * (c.index2[fd] + Before(F, Label[fd]))][FieldOf(s)]]
  BY <1>1, <1>2, <1>3, <1>4 DEF Assigned
<1>7. /\ c \in Counts
      /\ \A l \in Labels : /\ c.findex[l] >= 0
                           /\ stability[l] # "EXPOSURE" => c.findex2[l] >= 0
      /\ \A fd \in Fields : Found(stability, c, Label[fd], NSetOf(fd[1], fd[2]),
                                  c.index[fd], c.index2[fd])
      /\ \A fd \in Fields : stability[Label[fd]] # "EXPOSURE" => c.findex2[Label[fd]] >= 1
  BY <1>1, CountedFound
<1>8. /\ c.findex \in [Labels -> Int] /\ F \in [Labels -> Int]
      /\ c.index \in [Fields -> Int] /\ c.index2 \in [Fields -> Int]
  BY <1>3, <1>7 DEF Counts
<1>9. NCoeff \in Nat \ {0} /\ NCoeff2 \in Nat \ {0} /\ start \in Int
  <2>1. Before(c.findex, NLabel) \in Int
    BY <1>8, BeforeNext
  <2> QED BY <1>4, <2>1, NCoeffAssumption DEF NCoeffAssumption
<1>10. ASSUME NEW s \in Sets
       PROVE  /\ FieldOf(s) \in Fields /\ s[3] \in Nat /\ Label[FieldOf(s)] \in Labels
              /\ s[3] < NSetOf(FieldOf(s)[1], FieldOf(s)[2])
              /\ NSetOf(FieldOf(s)[1], FieldOf(s)[2]) \in Nat
  <2>1. FieldOf(s) \in Fields /\ s[3] \in Nat /\ s[3] < NSetOf(s[1], s[2])
        /\ FieldOf(s)[1] = s[1] /\ FieldOf(s)[2] = s[2]
    BY SetFacts, SetNumbers DEF FieldOf
  <2>2. NSetOf(FieldOf(s)[1], FieldOf(s)[2]) \in Nat
    BY <2>1, FieldFacts, ShapeFacts
  <2> QED BY <2>1, <2>2 DEF Labels
<1>11. ASSUME NEW s \in Sets
       PROVE  /\ a.index[s] \in Int
              /\ a.index[s] = -1 \/ a.index[s] < start
  <2>1. PICK fd, l, i, b :
           /\ fd = FieldOf(s) /\ l = Label[fd]
           /\ i = c.index[fd] /\ b = Before(c.findex, l)
    OBVIOUS
  <2>2. /\ a.index[s] = IF i < 0 THEN -1 ELSE NCoeff * (i + b + s[3])
        /\ l \in Labels /\ b \in Int /\ i \in Int /\ s[3] \in Nat
        /\ c.findex[l] \in Int
    BY <1>5, <1>8, <1>10, <2>1, BeforeNext
  <2>3. CASE i < 0
    BY <2>2, <2>3
  <2>4. CASE ~(i < 0)
    <3>1. i + s[3] < c.findex[l]
      BY <1>7, <1>10, <2>1, <2>2, <2>4 DEF Found
    <3>2. b + c.findex[l] <= Before(c.findex, NLabel)
      <4>1. l \in 0..NLabel - 1 /\ NLabel \in 0..NLabel /\ \A k \in 0..NLabel - 1 : c.findex[k] >= 0
        BY <1>7, <2>2, LabelFacts, SMTT(20)
      <4> QED BY <1>8, <2>1, <4>1, BeforeGrows
    <3>3. PICK e \in Int : e = Before(c.findex, NLabel)
      BY <1>8, BeforeNext
    <3>4. PICK x \in Int : x = i + b + s[3]
      BY <2>2
    <3>5. x < e
      BY <2>2, <3>1, <3>2, <3>3, <3>4
    <3>6. NCoeff * x < NCoeff * e
      BY <1>9, <3>5
    <3>7. NCoeff * x \in Int /\ a.index[s] = NCoeff * x /\ start = NCoeff * e
      BY <1>4, <1>9, <2>2, <2>4, <3>3, <3>4
    <3> QED BY <3>6, <3>7
  <2> QED BY <2>3, <2>4
<1>12. ASSUME NEW t \in Sets
       PROVE  /\ a.index2[t] \in Int
              /\ ExposuresLast(stability) => a.index2[t] = -1 \/ a.index2[t] >= start
  <2>1. PICK fd, l, i, b : fd = FieldOf(t) /\ l = Label[fd] /\ i = c.index2[fd] /\ b = Before(F, l)
    OBVIOUS
  <2>2. /\ a.index2[t] = IF i < 0 THEN -1 ELSE start + NCoeff2 * (i + b)
        /\ l \in Labels /\ b \in Int /\ i \in Int /\ fd \in Fields
    BY <1>6, <1>8, <1>10, <2>1, BeforeNext
  <2>3. NCoeff2 * (i + b) \in Int
    BY <1>9, <2>2
  <2>4. ASSUME ExposuresLast(stability), ~(i < 0) PROVE start + NCoeff2 * (i + b) >= start
    <3>1. stability[l] # "EXPOSURE"
      BY <1>7, <2>1, <2>2, <2>4 DEF Found
    <3>2. ASSUME NEW k \in 0..l - 1 PROVE F[k] >= 0
      <4>1. k \in Labels /\ k < l
        BY <2>2, LabelFacts
      <4>2. stability[k] # "EXPOSURE"
        BY <2>2, <2>4, <3>1, <4>1 DEF ExposuresLast
      <4>3. PICK fd2 \in Fields : k = Label[fd2]
        BY <4>1 DEF Labels
      <4>4. c.findex2[k] >= 1 /\ c.findex2[k] \in Int
        BY <1>7, <4>1, <4>2, <4>3 DEF Counts
      <4> QED BY <1>3, <4>1, <4>4
    <3>3. 0 <= b
      <4>1. l \in 0..NLabel
        BY <2>2, LabelFacts
      <4> QED BY <1>8, <2>1, <3>2, <4>1, BeforeGrows
    <3>4. PICK x \in Nat : x = i + b
      BY <2>2, <2>4, <3>3
    <3>5. NCoeff2 * x \in Nat
      BY <1>9
    <3> QED BY <1>9, <3>4, <3>5
  <2> QED BY <1>9, <2>2, <2>3, <2>4
<1>13. a.index \in [Sets -> Int] /\ a.index2 \in [Sets -> Int]
  <2>1. a.index = [s \in Sets |-> a.index[s]] /\ a.index2 = [s \in Sets |-> a.index2[s]]
    BY <1>5, <1>6
  <2> QED BY <1>11, <1>12, <2>1
<1>14. ASSUME ExposuresLast(stability), NEW s \in Sets, NEW t \in Sets, a.index[s] = a.index2[t]
       PROVE  a.index[s] = -1
  BY <1>9, <1>11, <1>12, <1>14
<1> QED BY <1>13, <1>14

---------------------------------------------------------------------------
(* What the updates of a list add to a cell *)

LEMMA AddingNat ==
  ASSUME NEW T, NEW list \in Seq(T), NEW c
  PROVE  Cardinality(Adding(list, c)) \in Nat /\ IsFiniteSet(Adding(list, c))
<1>1. Len(list) \in Nat /\ DOMAIN list = 1..Len(list)
  OBVIOUS
<1>2. IsFiniteSet(DOMAIN list)
  BY <1>1, FS_Interval
<1>3. Adding(list, c) \in SUBSET (DOMAIN list)
  BY DEF Adding
<1> QED BY <1>2, <1>3, FS_Subset, FS_CardinalityType

LEMMA AddingNone == \A c : Cardinality(Adding(<<>>, c)) = 0
<1>1. \A c : Adding(<<>>, c) = {}
  BY DEF Adding
<1> QED BY <1>1, FS_EmptySet

LEMMA AddingFirst ==
  ASSUME NEW T, NEW list \in Seq(T), list # <<>>, NEW c
  PROVE  Cardinality(Adding(list, c)) =
             Cardinality(Adding(Tail(list), c)) + IF c \in Head(list).cells THEN 1 ELSE 0
<1> DEFINE A == Adding(list, c)
           B == Adding(Tail(list), c)
           next == [i \in B |-> i + 1]
<1>1. /\ Len(list) \in Nat \ {0} /\ Tail(list) \in Seq(T) /\ Len(Tail(list)) = Len(list) - 1
      /\ \A i \in 1..Len(list) - 1 : Tail(list)[i] = list[i + 1]
      /\ Head(list) = list[1] /\ DOMAIN list = 1..Len(list)
      /\ DOMAIN Tail(list) = 1..Len(list) - 1
  OBVIOUS
<1>2. /\ \A i : i \in A <=> i \in 1..Len(list) /\ c \in list[i].cells
      /\ \A i : i \in B <=> i \in 1..Len(list) - 1 /\ c \in Tail(list)[i].cells
  BY <1>1 DEF Adding
<1>3. IsFiniteSet(A) /\ IsFiniteSet(B) /\ Cardinality(A) \in Nat /\ Cardinality(B) \in Nat
  BY <1>1, AddingNat
<1> HIDE DEF A, B
<1>4. ASSUME NEW i \in B PROVE i + 1 \in A \ {1}
  BY <1>1, <1>2
<1>5. ASSUME NEW k \in A \ {1} PROVE k - 1 \in B /\ (k - 1) + 1 = k
  <2>1. k \in 1..Len(list) /\ k # 1 /\ c \in list[k].cells
    BY <1>2
  <2>2. k - 1 \in 1..Len(list) - 1 /\ (k - 1) + 1 = k
    BY <1>1, <2>1
  <2>3. Tail(list)[k - 1] = list[(k - 1) + 1]
    BY <1>1, <2>2
  <2> QED BY <1>2, <2>1, <2>2, <2>3
<1>6. next \in Bijection(B, A \ {1})
  <2>1. next \in [B -> A \ {1}]
    BY <1>4
  <2>2. \A i, j \in B : next[i] = next[j] => i = j
    BY <1>2
  <2>3. \A k \in A \ {1} : \E i \in B : next[i] = k
    BY <1>5
  <2> HIDE DEF next
  <2> QED BY <2>1, <2>2, <2>3 DEF Bijection, Injection, Surjection, IsInjective
<1>7. Cardinality(A \ {1}) = Cardinality(B)
  BY <1>3, <1>6, FS_Bijection DEF ExistsBijection
<1>8. 1 \in A <=> c \in Head(list).cells
  BY <1>1, <1>2
<1>9. Cardinality(A \ {1}) = IF 1 \in A THEN Cardinality(A) - 1 ELSE Cardinality(A)
  BY <1>3, FS_RemoveElement
<1>10. Cardinality(A) = Cardinality(B) + IF c \in Head(list).cells THEN 1 ELSE 0
  BY <1>3, <1>7, <1>8, <1>9
<1> QED BY <1>10 DEF A, B

\* What is still to be added to cell c by the workers, each with its list of
\* updates, and by the sets that were not taken.
Pending(lists, c) ==
    SumFunctionOnSet([w \in Workers |-> Cardinality(Adding(lists[w], c))], Workers)
NotTaken(lists, taken, c) ==
    SumFunctionOnSet([s \in Sets |-> IF taken[s] = 0 THEN Cardinality(Adding(lists[s], c)) ELSE 0],
                     Sets)

\* What is to be added changes by what worker w has to add.
PendingStep(lists, new, w, c) ==
    /\ Pending(lists, c) \in Int
    /\ Pending(new, c) =
          Pending(lists, c) + Cardinality(Adding(new[w], c)) - Cardinality(Adding(lists[w], c))

LEMMA PendingChanges ==
  ASSUME NEW T, NEW lists \in [Workers -> Seq(T)], NEW new \in [Workers -> Seq(T)],
         NEW w \in Workers, \A v \in Workers \ {w} : new[v] = lists[v], NEW c
  PROVE  PendingStep(lists, new, w, c)
<1> DEFINE f == [v \in Workers |-> Cardinality(Adding(lists[v], c))]
           h == [v \in Workers |-> Cardinality(Adding(new[v], c))]
<1>1. f \in [Workers -> Int] /\ h \in [Workers -> Int]
  <2>1. \A v \in Workers : Cardinality(Adding(lists[v], c)) \in Int
    BY AddingNat
  <2>2. \A v \in Workers : Cardinality(Adding(new[v], c)) \in Int
    BY AddingNat
  <2> QED BY <2>1, <2>2
<1>2. /\ f[w] = Cardinality(Adding(lists[w], c)) /\ h[w] = Cardinality(Adding(new[w], c))
      /\ \A v \in Workers \ {w} : h[v] = f[v]
  OBVIOUS
<1>3. Pending(lists, c) = SumFunctionOnSet(f, Workers) /\ Pending(new, c) = SumFunctionOnSet(h, Workers)
  BY DEF Pending
<1> HIDE DEF f, h
<1>4. /\ SumFunctionOnSet(f, Workers) \in Int
      /\ SumFunctionOnSet(h, Workers) = SumFunctionOnSet(f, Workers) + h[w] - f[w]
  <2>1. IsFiniteSet(Workers)
    BY WorkersAssumption DEF WorkersAssumption
  <2>2. DifferAt(f, h, Workers, w)
    BY <1>1, <1>2 DEF DifferAt
  <2>3. SumsDiffer(f, h, Workers, w)
    BY <2>1, <2>2, SumChanges
  <2> QED BY <2>3 DEF SumsDiffer
<1> QED BY <1>2, <1>3, <1>4 DEF PendingStep

LEMMA NotTakenChanges ==
  ASSUME NEW T, NEW lists \in [Sets -> Seq(T)], NEW taken \in [Sets -> Nat],
         NEW s \in Sets, taken[s] = 0, NEW c
  PROVE  /\ NotTaken(lists, taken, c) \in Int
         /\ NotTaken(lists, [taken EXCEPT ![s] = @ + 1], c) =
               NotTaken(lists, taken, c) - Cardinality(Adding(lists[s], c))
<1> DEFINE new == [taken EXCEPT ![s] = @ + 1]
           f == [t \in Sets |-> IF taken[t] = 0 THEN Cardinality(Adding(lists[t], c)) ELSE 0]
           h == [t \in Sets |-> IF new[t] = 0 THEN Cardinality(Adding(lists[t], c)) ELSE 0]
<1>1. new[s] # 0 /\ \A t \in Sets \ {s} : new[t] = taken[t]
  OBVIOUS
<1> HIDE DEF new
<1>2. f \in [Sets -> Int] /\ h \in [Sets -> Int]
  <2>1. \A t \in Sets : Cardinality(Adding(lists[t], c)) \in Int
    BY AddingNat
  <2> QED BY <2>1
<1>3. /\ f[s] = Cardinality(Adding(lists[s], c)) /\ h[s] = 0
      /\ \A t \in Sets \ {s} : h[t] = f[t]
  BY <1>1
<1>4. /\ NotTaken(lists, taken, c) = SumFunctionOnSet(f, Sets)
      /\ NotTaken(lists, new, c) = SumFunctionOnSet(h, Sets)
  BY DEF NotTaken
<1>5. f[s] \in Int
  BY <1>2
<1> HIDE DEF f, h
<1>6. /\ SumFunctionOnSet(f, Sets) \in Int
      /\ SumFunctionOnSet(h, Sets) = SumFunctionOnSet(f, Sets) + h[s] - f[s]
  <2>1. DifferAt(f, h, Sets, s)
    BY <1>2, <1>3 DEF DifferAt
  <2>2. SumsDiffer(f, h, Sets, s)
    BY <2>1, SetsFinite, SumChanges
  <2> QED BY <2>2 DEF SumsDiffer
<1> QED BY <1>3, <1>4, <1>5, <1>6 DEF new

---------------------------------------------------------------------------
(* Which mutex protects which cell *)

\* The mutex of a row is one of the first array if the row belongs to an
\* instrument, one of the second array otherwise.
LockOf(c) == IF c[1] # "row" THEN <<"nconst", 0>>
             ELSE IF \E s \in Sets : Index(s) = c[2]
                  THEN <<"mat", (c[2] \div NCoeff) % NMatMutex>>
                  ELSE <<"mat2", (c[2] \div NCoeff) % NMatMutex2>>

\* An update of cells that the mutex it takes protects.
Update == {u \in [lock : Locks, cells : SUBSET Cells] : \A c \in u.cells : u.lock = LockOf(c)}

\* No row belongs both to an instrument and to an exposure.
RowsKnown == /\ assigned.index \in [Sets -> Int] /\ assigned.index2 \in [Sets -> Int]
             /\ \A s, t \in Sets : Index(s) = Index2(t) => Index(s) = -1

LEMMA ConstraintUpdates ==
  ASSUME NEW m \in Sets \cup {Reference}
  PROVE  Constraint(m) \in Seq(Update)
<1>1. CASE m = Reference
  BY <1>1 DEF Constraint
<1>2. CASE m # Reference
  <2> DEFINE cells == {<<"set", m>>} \cup {<<"nconst", i>> : i \in {Index(m), Index2(m)} \ {-1}}
             u == [lock |-> <<"nconst", 0>>, cells |-> cells]
  <2>1. cells \subseteq Cells
    BY <1>2 DEF Cells, Rows
  <2>2. \A c \in cells : c[1] \in {"set", "nconst"}
    OBVIOUS
  <2>3. \A c \in cells : LockOf(c) = <<"nconst", 0>>
    BY <2>2 DEF LockOf
  <2> HIDE DEF cells
  <2>4. u \in Update
    BY <2>1, <2>3 DEF Update, Locks
  <2>5. Constraint(m) = <<u>>
    BY <1>2 DEF Constraint, cells
  <2> HIDE DEF u
  <2> QED BY <2>4, <2>5
<1> QED BY <1>1, <1>2

LEMMA RowUpdates ==
  ASSUME RowsKnown, NEW m \in Sets \cup {Reference}
  PROVE  /\ RowUpdate("mat", IndexOf(m)) \in Seq(Update)
         /\ RowUpdate("mat2", Index2Of(m)) \in Seq(Update)
<1>1. IndexOf(m) \in Int /\ Index2Of(m) \in Int
  BY DEF RowsKnown, IndexOf, Index2Of, Index, Index2
<1>2. ASSUME NEW i \in Nat, NEW n \in Nat \ {0} PROVE (i \div NCoeff) % n \in 0..n - 1
  BY NCoeffAssumption DEF NCoeffAssumption
<1>3. NMatMutex \in Nat \ {0} /\ NMatMutex2 \in Nat \ {0}
  BY NMatMutexAssumption DEF NMatMutexAssumption
<1>4. RowUpdate("mat", IndexOf(m)) \in Seq(Update)
  <2>1. CASE IndexOf(m) < 0
    BY <2>1 DEF RowUpdate
  <2>2. CASE ~(IndexOf(m) < 0)
    <3> DEFINE i == IndexOf(m)
               lock == <<"mat", (i \div NCoeff) % NMatMutex>>
               u == [lock |-> lock, cells |-> {<<"row", i>>}]
    <3>1. m \in Sets /\ i = Index(m) /\ i \in Nat
      BY <1>1, <2>2 DEF IndexOf
    <3>2. lock \in Locks
      BY <1>2, <1>3, <3>1 DEF Locks
    <3>3. <<"row", i>> \in Cells
      BY <3>1 DEF Cells, Rows
    <3>4. LockOf(<<"row", i>>) = lock
      BY <3>1 DEF LockOf
    <3>5. RowUpdate("mat", IndexOf(m)) = <<u>>
      BY <2>2 DEF RowUpdate
    <3> HIDE DEF lock, i
    <3>6. u \in Update
      BY <3>2, <3>3, <3>4 DEF Update
    <3> HIDE DEF u
    <3>7. <<u>> \in Seq(Update)
      BY <3>6
    <3> QED BY <3>5, <3>7
  <2> QED BY <2>1, <2>2
<1>5. RowUpdate("mat2", Index2Of(m)) \in Seq(Update)
  <2>1. CASE Index2Of(m) < 0
    BY <2>1 DEF RowUpdate
  <2>2. CASE ~(Index2Of(m) < 0)
    <3> DEFINE i == Index2Of(m)
               lock == <<"mat2", (i \div NCoeff) % NMatMutex2>>
               u == [lock |-> lock, cells |-> {<<"row", i>>}]
    <3>1. m \in Sets /\ i = Index2(m) /\ i \in Nat
      BY <1>1, <2>2 DEF Index2Of
    <3>2. lock \in Locks
      BY <1>2, <1>3, <3>1 DEF Locks
    <3>3. <<"row", i>> \in Cells
      BY <3>1 DEF Cells, Rows
    <3>4. ~\E s \in Sets : Index(s) = i
      BY <3>1 DEF RowsKnown
    <3>5. LockOf(<<"row", i>>) = lock
      BY <3>4 DEF LockOf
    <3>6. RowUpdate("mat2", Index2Of(m)) = <<u>>
      BY <2>2 DEF RowUpdate
    <3> HIDE DEF lock, i
    <3>7. u \in Update
      BY <3>2, <3>3, <3>5 DEF Update
    <3> HIDE DEF u
    <3> QED BY <3>6, <3>7
  <2> QED BY <2>1, <2>2
<1> QED BY <1>4, <1>5

\* The updates of chains are those of their detections, one after the other.
LEMMA UpdatesOfChains ==
  ASSUME NEW U,
         \A m \in Sets \cup {Reference} : /\ Constraint(m) \in Seq(U)
                                         /\ RowUpdate("mat", IndexOf(m)) \in Seq(U)
                                         /\ RowUpdate("mat2", Index2Of(m)) \in Seq(U),
         NEW chains \in Seq(Seq(Sets \cup {Reference}))
  PROVE  SetUpdates(chains) \in Seq(U)
<1>0. PICK D : D = Sets \cup {Reference}
  OBVIOUS
<1>1. ASSUME NEW m \in D, NEW n \in D PROVE Pair(m, n) \in Seq(U)
  <2>1. /\ RowUpdate("mat", IndexOf(m)) \in Seq(U)
        /\ RowUpdate("mat2", Index2Of(m)) \in Seq(U)
        /\ RowUpdate("mat", IndexOf(n)) \in Seq(U)
        /\ RowUpdate("mat2", Index2Of(n)) \in Seq(U)
    BY <1>0
  <2> QED BY <2>1 DEF Pair
<1>2. ASSUME NEW c \in Seq(D) PROVE ChainUpdates(c) \in Seq(U)
  <2>1. ASSUME NEW i \in 1..Len(c)
        PROVE  Constraint(c[i]) \o FlattenSeq([j \in 1..i - 1 |-> Pair(c[i], c[j])]) \in Seq(U)
    <3> DEFINE pairs == [j \in 1..i - 1 |-> Pair(c[i], c[j])]
    <3>1. c[i] \in D /\ i - 1 \in Nat /\ \A j \in 1..i - 1 : c[j] \in D
      OBVIOUS
    <3>2. \A j \in 1..i - 1 : Pair(c[i], c[j]) \in Seq(U)
      BY <1>1, <3>1
    <3>3. pairs \in Seq(Seq(U))
      BY <3>1, <3>2
    <3> HIDE DEF pairs
    <3>4. FlattenSeq(pairs) \in Seq(U)
      BY <3>3, FlattenParts
    <3>5. Constraint(c[i]) \in Seq(U)
      BY <1>0, <3>1
    <3>6. Constraint(c[i]) \o FlattenSeq(pairs) \in Seq(U)
      BY <3>4, <3>5
    <3> QED BY <3>6 DEF pairs
  <2> DEFINE parts == [i \in 1..Len(c) |->
                          Constraint(c[i]) \o FlattenSeq([j \in 1..i - 1 |-> Pair(c[i], c[j])])]
  <2>2. Len(c) \in Nat
    OBVIOUS
  <2>3. parts \in Seq(Seq(U))
    BY <2>1, <2>2
  <2>4. ChainUpdates(c) = FlattenSeq(parts)
    BY DEF ChainUpdates
  <2> HIDE DEF parts
  <2> QED BY <2>3, <2>4, FlattenParts
<1> DEFINE lists == [i \in DOMAIN chains |-> ChainUpdates(chains[i])]
<1>3. /\ chains \in Seq(Seq(D)) /\ DOMAIN chains = 1..Len(chains) /\ Len(chains) \in Nat
      /\ \A i \in DOMAIN chains : chains[i] \in Seq(D)
  BY <1>0
<1>4. lists \in Seq(Seq(U))
  <2>1. \A i \in DOMAIN chains : ChainUpdates(chains[i]) \in Seq(U)
    BY <1>2, <1>3
  <2> QED BY <1>3, <2>1
<1>5. SetUpdates(chains) = FlattenSeq(lists)
  BY DEF SetUpdates
<1> HIDE DEF lists
<1> QED BY <1>4, <1>5, FlattenParts

UpdateLists == \A chains \in Seq(Seq(Sets \cup {Reference})) : SetUpdates(chains) \in Seq(Update)

LEMMA UpdateListsKnown == RowsKnown => UpdateLists
BY ConstraintUpdates, RowUpdates, UpdatesOfChains DEF UpdateLists

---------------------------------------------------------------------------
(* Nothing that is added is lost *)

\* Worker w is between the read and the write of its next update, which mutex l
\* protects: what it has read is still there.
Holds(w, l) == /\ pc[w] = "work" /\ todo[w] # <<>>
               /\ Head(todo[w]).lock = l
               /\ register[w] = [c \in Head(todo[w]).cells |-> cell[c]]

\* What is in a cell, what the workers still have to add to it and what the
\* sets that were not taken will make them add is what is due.
Accounted ==
    /\ RowsKnown
    /\ updates \in [Sets -> Seq(Update)] /\ todo \in [Workers -> Seq(Update)]
    /\ cell \in [Cells -> Nat]
    /\ held \in [Locks -> Workers \cup {NoThread}]
    /\ register \in [Workers -> UNION {[S -> Nat] : S \in SUBSET Cells}]
    /\ \A w \in Workers : todo[w] # <<>> => pc[w] = "work"
    /\ \A l \in Locks : held[l] \in Workers => Holds(held[l], l)
    /\ \A c \in Cells : cell[c] + Pending(todo, c) + NotTaken(updates, filled, c) = Due(c)

Unfilled == /\ todo = [w \in Workers |-> <<>>]
            /\ register = [w \in Workers |-> <<>>]
            /\ held = [l \in Locks |-> NoThread]

Additions == /\ prefs \in Settings
             /\ stage \in {"grouped", "mosaic", "match"} => Unfilled
             /\ stage \in {"fill", "solved"} =>
                   Accounted /\ assigned = Assigned(prefs.stability_type)

LEMMA SameRows ==
  ASSUME UNCHANGED assigned
  PROVE  /\ RowsKnown' <=> RowsKnown
         /\ Cells' = Cells /\ Update' = Update
BY DEF RowsKnown, Cells, Rows, Update, Index, Index2, LockOf

LEMMA SameDue ==
  ASSUME UNCHANGED updates
  PROVE  \A c : Due(c)' = Due(c)
BY DEF Due, Adding

LEMMA SameAccounts ==
  ASSUME Accounted, UNCHANGED <<assigned, updates, todo, register, held, cell, filled>>,
         \A w \in Workers : todo[w] # <<>> /\ pc[w] = "work" => pc'[w] = "work"
  PROVE  Accounted'
<1>1. RowsKnown' /\ Cells' = Cells /\ Update' = Update /\ \A c : Due(c)' = Due(c)
  BY SameRows, SameDue DEF Accounted
<1>2. \A c : /\ Pending(todo, c)' = Pending(todo, c)
             /\ NotTaken(updates, filled, c)' = NotTaken(updates, filled, c)
  BY DEF Pending, NotTaken, Adding
<1>3. \A l \in Locks : held'[l] \in Workers => Holds(held[l], l)'
  BY DEF Holds, Accounted
<1>4. \A c \in Cells' : cell'[c] + Pending(todo, c)' + NotTaken(updates, filled, c)' = Due(c)'
  BY <1>1, <1>2 DEF Accounted
<1> QED BY <1>1, <1>3, <1>4 DEF Accounted

\* The master creates the pool: nothing is added, and no set taken.
LEMMA StartAccounts ==
  ASSUME Filling, Unfilled, NEW chains \in ChainChoices, NEW stability \in [Labels -> StabilityTypes],
         ExposuresLast(stability), cursor = <<0, 0, 0>>, StartFill(chains, stability)
  PROVE  Accounted'
<1>1. RowsKnown'
  <2>1. assigned' = Assigned(stability)
    BY DEF StartFill
  <2> QED BY <2>1, AssignedRows DEF RowsKnown, Index, Index2
<1>2. updates' \in [Sets -> Seq(Update')]
  <2>1. RowsKnown' => UpdateLists'
    BY UpdateListsKnown, PTL
  <2>2. \A s \in Sets : chains[s] \in Seq(Seq(Sets \cup {Reference}))
    BY ChainChoicesAssumption DEF ChainChoicesAssumption
  <2> QED BY <1>1, <2>1, <2>2 DEF StartFill, UpdateLists
<1>3. cell' \in [Cells' -> Nat] /\ \A c \in Cells' : cell'[c] = 0
  BY DEF StartFill
<1>4. UNCHANGED <<todo, register, held, filled>>
  BY DEF StartFill
<1>5. \A s \in Sets : filled[s] = 0
  BY SetNumbers DEF Filling, Passed, cursor
<1>6. ASSUME NEW c \in Cells'
      PROVE  cell'[c] + Pending(todo, c)' + NotTaken(updates, filled, c)' = Due(c)'
  <2>1. Pending(todo, c)' = 0
    <3> DEFINE f == [w \in Workers |-> Cardinality(Adding(todo'[w], c))]
    <3>1. \A w \in Workers : f[w] = 0
      BY <1>4, AddingNone DEF Unfilled
    <3> HIDE DEF f
    <3>2. SumFunctionOnSet(f, Workers) = 0
      BY <3>1, WorkersAssumption, SumZero DEF WorkersAssumption
    <3> QED BY <3>2 DEF Pending, Adding, f
  <2>2. NotTaken(updates, filled, c)' = Due(c)'
    <3> DEFINE f == [s \in Sets |-> Cardinality(Adding(updates'[s], c))]
               h == [s \in Sets |-> IF filled'[s] = 0 THEN Cardinality(Adding(updates'[s], c)) ELSE 0]
    <3>1. f = h
      BY <1>4, <1>5
    <3>2. DOMAIN f = Sets
      OBVIOUS
    <3>3. NotTaken(updates, filled, c)' = SumFunctionOnSet(h, Sets)
      BY DEF NotTaken, Adding
    <3>4. Due(c)' = SumFunctionOnSet(f, Sets)
      BY <3>2 DEF Due, Adding, SumFunction
    <3> HIDE DEF f, h
    <3> QED BY <3>1, <3>3, <3>4
  <2>3. Due(c)' \in Int
    <3> DEFINE f == [s \in Sets |-> Cardinality(Adding(updates'[s], c))]
    <3>1. \A s \in Sets : f[s] \in Nat
      BY <1>2, AddingNat
    <3>2. f \in [Sets -> Nat]
      BY <3>1
    <3>3. Due(c)' = SumFunctionOnSet(f, Sets)
      <4>1. DOMAIN f = Sets
        OBVIOUS
      <4> QED BY <4>1 DEF Due, Adding, SumFunction
    <3> HIDE DEF f
    <3> QED BY <3>2, <3>3, SetsFinite, SumNat
  <2> QED BY <1>3, <2>1, <2>2, <2>3
<1>7. /\ todo' \in [Workers -> Seq(Update')] /\ \A w \in Workers : todo'[w] = <<>>
      /\ held' \in [Locks -> Workers \cup {NoThread}]
      /\ \A l \in Locks : held'[l] \notin Workers
  BY <1>4, NoThreadAssumption DEF Unfilled
<1>8. register' \in [Workers -> UNION {[S -> Nat] : S \in SUBSET Cells'}]
  <2>1. <<>> \in [{} -> Nat] /\ {} \in SUBSET Cells'
    OBVIOUS
  <2>2. <<>> \in UNION {[S -> Nat] : S \in SUBSET Cells'}
    BY <2>1, Zenon
  <2> QED BY <1>4, <2>2 DEF Unfilled
<1> QED BY <1>1, <1>2, <1>3, <1>6, <1>7, <1>8 DEF Accounted

\* A worker takes a set that was not taken, with its updates.
LEMMA TakeAccounts ==
  ASSUME PoolInv, Filling, Accounted, stage = "fill", NEW w \in Workers, Take(w)
  PROVE  Accounted'
<1>1. /\ cursor \in Sets /\ filled[cursor] = 0 /\ filled \in [Sets -> Nat]
  <2>1. cursor \in Sets /\ ~Passed(cursor)
    BY ShapeFacts, SetNumbers DEF Take, Filling, CursorOK, Passed, cursor
  <2> QED BY <2>1 DEF Filling
<1>2. /\ Goto(w, "work") /\ pc[w] = "section" /\ UNCHANGED <<gateVars, endflag>>
      /\ filled' = [filled EXCEPT ![cursor] = @ + 1]
      /\ todo' = [todo EXCEPT ![w] = updates[cursor]]
      /\ UNCHANGED <<assigned, updates, register, held, cell>>
  BY DEF Take
<1>3. pc'[w] = "work" /\ \A v \in Workers \ {w} : pc'[v] = pc[v]
  BY <1>2, TurnSteps
<1>4. RowsKnown' /\ Cells' = Cells /\ Update' = Update /\ \A c : Due(c)' = Due(c)
  BY <1>2, SameRows, SameDue DEF Accounted
<1>5. updates \in [Sets -> Seq(Update)] /\ updates[cursor] \in Seq(Update)
      /\ todo \in [Workers -> Seq(Update)] /\ todo[w] = <<>>
  BY <1>1, <1>2 DEF Accounted
<1>6. ASSUME NEW c \in Cells
      PROVE  cell'[c] + Pending(todo, c)' + NotTaken(updates, filled, c)' = Due(c)'
  <2>1. /\ Pending(todo, c) \in Int
        /\ Pending(todo, c)' = Pending(todo, c) + Cardinality(Adding(updates[cursor], c)) - 0
    <3>1. PICK new \in [Workers -> Seq(Update)] :
             /\ new = todo' /\ new[w] = updates[cursor]
             /\ \A v \in Workers \ {w} : new[v] = todo[v]
      BY <1>2, <1>5
    <3>2. Pending(todo, c)' = Pending(new, c)
      BY <3>1 DEF Pending, Adding
    <3>3. Cardinality(Adding(todo[w], c)) = 0
      BY <1>5, AddingNone
    <3>4. Cardinality(Adding(updates[cursor], c)) \in Int
      BY <1>5, AddingNat
    <3>5. PendingStep(todo, new, w, c)
      BY <1>5, <3>1, PendingChanges
    <3> QED BY <3>1, <3>2, <3>3, <3>4, <3>5 DEF PendingStep
  <2>2. /\ NotTaken(updates, filled, c) \in Int
        /\ NotTaken(updates, filled, c)' =
              NotTaken(updates, filled, c) - Cardinality(Adding(updates[cursor], c))
    <3>1. NotTaken(updates, filled', c) =
              NotTaken(updates, filled, c) - Cardinality(Adding(updates[cursor], c))
      BY <1>1, <1>2, <1>5, NotTakenChanges
    <3>2. NotTaken(updates, filled, c)' = NotTaken(updates, filled', c)
      BY <1>2 DEF NotTaken, Adding
    <3> QED BY <1>1, <1>5, <3>1, <3>2, NotTakenChanges
  <2>3. Cardinality(Adding(updates[cursor], c)) \in Int
    BY <1>5, AddingNat
  <2>4. cell[c] \in Nat /\ cell[c] + Pending(todo, c) + NotTaken(updates, filled, c) = Due(c)
    BY DEF Accounted
  <2> QED BY <1>2, <1>4, <2>1, <2>2, <2>3, <2>4
<1>7. ASSUME NEW l \in Locks, held'[l] \in Workers PROVE Holds(held[l], l)'
  <2>1. Holds(held[l], l)
    BY <1>2, <1>7 DEF Accounted
  <2>2. held[l] # w
    BY <1>2, <2>1 DEF Holds
  <2> QED BY <1>2, <1>3, <1>5, <1>7, <2>1, <2>2 DEF Holds
<1>8. todo' \in [Workers -> Seq(Update)] /\ \A v \in Workers : todo'[v] # <<>> => pc'[v] = "work"
  BY <1>2, <1>3, <1>5 DEF Accounted
<1> QED BY <1>2, <1>4, <1>6, <1>7, <1>8 DEF Accounted

\* A worker locks the mutex of its next update and reads.
LEMMA ReadAccounts ==
  ASSUME Accounted, NEW w \in Workers, Read(w)
  PROVE  Accounted'
<1>1. PICK u : u = Head(todo[w])
  OBVIOUS
<1>2. /\ pc[w] = "work" /\ todo[w] # <<>> /\ held[u.lock] = NoThread
      /\ held' = [held EXCEPT ![u.lock] = w]
      /\ register' = [register EXCEPT ![w] = [c \in u.cells |-> cell[c]]]
      /\ pc' = pc /\ UNCHANGED <<assigned, updates, todo, cell, filled>>
  BY <1>1 DEF Read, poolVars
<1>3. RowsKnown' /\ Cells' = Cells /\ Update' = Update /\ \A c : Due(c)' = Due(c)
  BY <1>2, SameRows, SameDue DEF Accounted
<1>4. u \in Update /\ u.lock \in Locks /\ u.cells \in SUBSET Cells
  <2>1. todo[w] \in Seq(Update)
    BY DEF Accounted
  <2>2. u \in Update
    BY <1>1, <1>2, <2>1
  <2> QED BY <2>2 DEF Update
<1>5. held' \in [Locks -> Workers \cup {NoThread}]
  BY <1>2 DEF Accounted
<1>6. register' \in [Workers -> UNION {[S -> Nat] : S \in SUBSET Cells}]
  <2>1. [c \in u.cells |-> cell[c]] \in [u.cells -> Nat]
    BY <1>4 DEF Accounted
  <2>2. [c \in u.cells |-> cell[c]] \in UNION {[S -> Nat] : S \in SUBSET Cells}
    BY <1>4, <2>1, Zenon
  <2> QED BY <1>2, <2>2 DEF Accounted
<1>7. ASSUME NEW l \in Locks, held'[l] \in Workers PROVE Holds(held[l], l)'
  <2>1. CASE l = u.lock
    <3>1. held'[l] = w /\ register'[w] = [c \in u.cells |-> cell[c]]
      BY <1>2, <1>4, <2>1 DEF Accounted
    <3> QED BY <1>1, <1>2, <2>1, <3>1 DEF Holds
  <2>2. CASE l # u.lock
    <3>1. held'[l] = held[l] /\ Holds(held[l], l)
      BY <1>2, <1>7, <2>2 DEF Accounted
    <3>2. held[l] # w
      BY <1>1, <2>2, <3>1 DEF Holds
    <3>3. register'[held[l]] = register[held[l]]
      BY <1>2, <1>7, <3>1, <3>2 DEF Accounted
    <3> QED BY <1>2, <3>1, <3>3 DEF Holds
  <2> QED BY <2>1, <2>2
<1>8. \A c : /\ Pending(todo, c)' = Pending(todo, c)
             /\ NotTaken(updates, filled, c)' = NotTaken(updates, filled, c)
  BY <1>2 DEF Pending, NotTaken, Adding
<1>9. \A c \in Cells : cell'[c] + Pending(todo, c)' + NotTaken(updates, filled, c)' = Due(c)'
  BY <1>2, <1>3, <1>8 DEF Accounted
<1> QED BY <1>2, <1>3, <1>5, <1>6, <1>7, <1>9 DEF Accounted

\* A worker writes what it has read and added to, and unlocks: no other worker
\* is between the read and the write of the same cell.
LEMMA WriteAccounts ==
  ASSUME Accounted, NEW w \in Workers, Write(w)
  PROVE  Accounted'
<1>1. PICK u, rest : u = Head(todo[w]) /\ rest = Tail(todo[w])
  OBVIOUS
<1>2. /\ pc[w] = "work" /\ todo[w] # <<>> /\ held[u.lock] = w
      /\ cell' = [c \in Cells |-> IF c \in u.cells THEN register[w][c] + 1 ELSE cell[c]]
      /\ held' = [held EXCEPT ![u.lock] = NoThread]
      /\ register' = [register EXCEPT ![w] = <<>>]
      /\ todo' = [todo EXCEPT ![w] = rest]
      /\ pc' = pc /\ UNCHANGED <<assigned, updates, filled>>
  BY <1>1 DEF Write, poolVars, Accounted
<1>3. RowsKnown' /\ Cells' = Cells /\ Update' = Update /\ \A c : Due(c)' = Due(c)
  BY <1>2, SameRows, SameDue DEF Accounted
<1>4. todo[w] \in Seq(Update) /\ rest \in Seq(Update) /\ u \in Update
  <2>1. todo[w] \in Seq(Update)
    BY DEF Accounted
  <2> QED BY <1>1, <1>2, <2>1
<1>5. u.lock \in Locks /\ u.cells \in SUBSET Cells /\ \A c \in u.cells : LockOf(c) = u.lock
  BY <1>4 DEF Update
<1>6. /\ register[w] = [c \in u.cells |-> cell[c]]
      /\ \A c \in Cells : cell[c] \in Nat
      /\ \A c \in Cells : cell'[c] = IF c \in u.cells THEN cell[c] + 1 ELSE cell[c]
  <2>1. Holds(w, u.lock)
    BY <1>2, <1>5 DEF Accounted
  <2> QED BY <1>1, <1>2, <2>1 DEF Holds, Accounted
<1>7. cell' \in [Cells -> Nat]
  <2>1. \A c \in Cells : cell'[c] \in Nat
    BY <1>6
  <2> QED BY <1>2, <2>1
<1>8. /\ held' \in [Locks -> Workers \cup {NoThread}]
      /\ todo' \in [Workers -> Seq(Update)]
      /\ \A v \in Workers : todo'[v] # <<>> => pc'[v] = "work"
  BY <1>2, <1>4 DEF Accounted
<1>9. register' \in [Workers -> UNION {[S -> Nat] : S \in SUBSET Cells}]
  <2>1. <<>> \in [{} -> Nat] /\ {} \in SUBSET Cells
    OBVIOUS
  <2>2. <<>> \in UNION {[S -> Nat] : S \in SUBSET Cells}
    BY <2>1, Zenon
  <2> QED BY <1>2, <2>2 DEF Accounted
<1>10. ASSUME NEW l \in Locks, held'[l] \in Workers PROVE Holds(held[l], l)'
  <2>1. l # u.lock /\ held'[l] = held[l]
    BY <1>2, <1>10, NoThreadAssumption DEF Accounted
  <2>2. PICK v \in Workers : v = held[l]
    BY <1>10, <2>1
  <2>3. Holds(v, l)
    BY <2>2 DEF Accounted
  <2>4. v # w /\ pc[v] = "work" /\ todo[v] # <<>> /\ todo[v] \in Seq(Update)
    BY <1>1, <2>1, <2>3 DEF Holds, Accounted
  <2>5. todo'[v] = todo[v] /\ register'[v] = register[v]
    BY <1>2, <2>4 DEF Accounted
  <2>6. PICK h : h = Head(todo[v])
    OBVIOUS
  <2>7. /\ h \in Update /\ h.lock = l /\ register[v] = [c \in h.cells |-> cell[c]]
        /\ Head(todo'[v]) = h
    BY <2>3, <2>4, <2>5, <2>6 DEF Holds
  <2>8. \A c \in h.cells : c \in Cells /\ LockOf(c) = l
    BY <2>7 DEF Update
  <2>9. \A c \in h.cells : cell'[c] = cell[c]
    BY <1>5, <1>6, <2>1, <2>8
  <2>10. register'[v] = [c \in h.cells |-> cell'[c]]
    BY <2>5, <2>7, <2>9
  <2>11. Holds(v, l)'
    BY <1>2, <2>4, <2>5, <2>7, <2>10 DEF Holds
  <2> QED BY <2>1, <2>2, <2>11 DEF Holds
<1>11. ASSUME NEW c \in Cells
       PROVE  cell'[c] + Pending(todo, c)' + NotTaken(updates, filled, c)' = Due(c)'
  <2>1. /\ Pending(todo, c) \in Int
        /\ Pending(todo, c)' = Pending(todo, c) + Cardinality(Adding(rest, c))
                               - Cardinality(Adding(todo[w], c))
    <3>1. todo \in [Workers -> Seq(Update)]
      BY DEF Accounted
    <3>2. PICK new \in [Workers -> Seq(Update)] :
             /\ new = todo' /\ new[w] = rest /\ \A v \in Workers \ {w} : new[v] = todo[v]
      BY <1>2, <1>4, <3>1
    <3>3. PendingStep(todo, new, w, c)
      BY <3>1, <3>2, PendingChanges
    <3>4. Pending(todo, c)' = Pending(new, c)
      BY <3>2 DEF Pending, Adding
    <3> QED BY <3>2, <3>3, <3>4 DEF PendingStep
  <2>2. Cardinality(Adding(todo[w], c)) =
            Cardinality(Adding(rest, c)) + IF c \in u.cells THEN 1 ELSE 0
    BY <1>1, <1>2, <1>4, AddingFirst
  <2>3. Cardinality(Adding(rest, c)) \in Int
    BY <1>4, AddingNat
  <2>4. NotTaken(updates, filled, c)' = NotTaken(updates, filled, c)
    BY <1>2 DEF NotTaken, Adding
  <2>5. cell[c] + Pending(todo, c) + NotTaken(updates, filled, c) = Due(c)
    BY DEF Accounted
  <2>6. NotTaken(updates, filled, c) \in Int
    <3> DEFINE f == [s \in Sets |-> IF filled[s] = 0 THEN Cardinality(Adding(updates[s], c)) ELSE 0]
    <3>1. \A s \in Sets : Cardinality(Adding(updates[s], c)) \in Nat
      BY AddingNat DEF Accounted
    <3>2. f \in [Sets -> Nat]
      BY <3>1
    <3>3. NotTaken(updates, filled, c) = SumFunctionOnSet(f, Sets)
      BY DEF NotTaken
    <3> HIDE DEF f
    <3> QED BY <3>2, <3>3, SetsFinite, SumNat
  <2> QED BY <1>3, <1>6, <2>1, <2>2, <2>3, <2>4, <2>5, <2>6
<1> QED BY <1>2, <1>3, <1>7, <1>8, <1>9, <1>10, <1>11 DEF Accounted

LEMMA AdditionsNext ==
  ASSUME \A p \in Settings : ExposuresLast(p.stability_type),
         Life, Filling, Additions, [Next]_vars
  PROVE  Additions'
<1>1. CASE UNCHANGED vars
  <2>1. /\ stage' = stage /\ prefs' = prefs /\ pc' = pc
        /\ UNCHANGED <<assigned, updates, todo, register, held, cell, filled>>
    BY <1>1 DEF vars, fillVars, poolVars
  <2>2. Accounted => Accounted'
    BY <2>1, SameAccounts
  <2> QED BY <2>1, <2>2 DEF Additions, Unfilled
<1>2. CASE AdjustMosaic \/ NextInstrument \/ StartMatch \/ MosaicStep \/ MatchStep
  <2>1. /\ stage \in {"grouped", "mosaic", "match"} /\ stage' \in {"grouped", "mosaic", "match"}
        /\ prefs' = prefs /\ UNCHANGED <<todo, register, held>>
    BY <1>2 DEF AdjustMosaic, NextInstrument, StartMatch, MosaicStep, MatchStep, fillVars
  <2> QED BY <2>1 DEF Additions, Unfilled
<1>3. CASE StartSolve
  <2>1. /\ stage \in {"mosaic", "match"} /\ stage' = "fill" /\ prefs' = prefs
        /\ \E c \in ChainChoices : StartFill(c, prefs.stability_type)
    BY <1>3 DEF StartSolve
  <2>2. cursor = <<0, 0, 0>> /\ Unfilled /\ prefs \in Settings
    BY <2>1 DEF Filling, Additions
  <2>3. prefs.stability_type \in [Labels -> StabilityTypes]
    BY <2>2, SettingsAssumption DEF SettingsAssumption
  <2>4. ExposuresLast(prefs.stability_type)
    BY <2>2
  <2>5. Accounted'
    BY <2>1, <2>2, <2>3, <2>4, StartAccounts
  <2>6. assigned' = Assigned(prefs'.stability_type)
    BY <2>1 DEF StartFill
  <2> QED BY <2>1, <2>2, <2>5, <2>6 DEF Additions
<1>4. CASE Solve
  <2>1. /\ stage = "fill" /\ stage' = "solved" /\ prefs' = prefs /\ pc' = pc
        /\ UNCHANGED <<assigned, updates, todo, register, held, cell, filled>>
    BY <1>4 DEF Solve, fillVars, poolVars
  <2>2. Accounted'
    BY <2>1, SameAccounts DEF Additions
  <2> QED BY <2>1, <2>2 DEF Additions
<1>5. CASE FillStep
  <2>1. stage = "fill" /\ stage' = "fill" /\ PoolInv /\ prefs' = prefs /\ Accounted
    BY <1>5 DEF FillStep, Additions
  <2>3. ASSUME ResetCursor \/ (RunStep /\ UNCHANGED fillVars) PROVE Accounted'
    <3>1. LifeStep /\ UNCHANGED <<assigned, updates, todo, register, held, cell, filled>>
      BY <2>3 DEF ResetCursor, fillVars, LifeStep
    <3> QED BY <2>1, <3>1, LifeSteps, SameAccounts
  <2>4. ASSUME NEW w \in Workers, Idle(w) \/ SetDone(w) PROVE Accounted'
    <3>1. UNCHANGED <<assigned, updates, todo, register, held, cell, filled>>
      BY <2>4 DEF Idle, SetDone, fillVars
    <3>2. \A v \in Workers \ {w} : pc'[v] = pc[v]
      BY <2>1, <2>4, TurnSteps DEF Idle, SetDone
    <3>3. pc[w] = "work" => todo[w] = <<>>
      BY <2>4 DEF Idle, SetDone
    <3> QED BY <2>1, <3>1, <3>2, <3>3, SameAccounts
  <2>5. ASSUME NEW w \in Workers, Take(w) PROVE Accounted'
    BY <2>1, <2>5, TakeAccounts
  <2>6. ASSUME NEW w \in Workers, Read(w) PROVE Accounted'
    BY <2>1, <2>6, ReadAccounts
  <2>7. ASSUME NEW w \in Workers, Write(w) PROVE Accounted'
    BY <2>1, <2>7, WriteAccounts
  <2>8. Accounted'
    BY <1>5, <2>3, <2>4, <2>5, <2>6, <2>7 DEF FillStep, FillTurn
  <2>9. assigned' = assigned /\ assigned = Assigned(prefs.stability_type)
    BY <1>5, <2>1 DEF Additions, FillStep, FillTurn, ResetCursor, Idle, SetDone, Take, Read,
                      Write, fillVars
  <2> QED BY <2>1, <2>8, <2>9 DEF Additions
<1> QED BY <1>1, <1>2, <1>3, <1>4, <1>5, NextSteps

\* What the workers add to the same row or counter at the same time is not
\* lost, provided that no row belongs both to an instrument and to an exposure:
\* rows of the two kinds are protected by different mutexes (matmutex and
\* matmutex2 of fill_astromatrix), and ExposuresLast keeps them apart.
THEOREM NothingLostHolds ==
  ASSUME \A p \in Settings : ExposuresLast(p.stability_type)
  PROVE  Spec => []NothingLost
<1>1. Init => Life /\ Filling /\ Additions
  BY LifeInit, FillingInit DEF Init, FillInit, Additions, Unfilled
<1>2. Life /\ Filling /\ Additions /\ [Next]_vars => (Life /\ Filling /\ Additions)'
  BY LifeNext, FillingNext, AdditionsNext
<1>3. Life /\ Filling /\ Additions => NothingLost
  <2> SUFFICES ASSUME Life, Filling, Additions, stage = "fill", MasterPastStop
               PROVE  /\ \A c \in DOMAIN cell : cell[c] = Due(c)
                      /\ \A w \in Workers : todo[w] = <<>>
    BY DEF NothingLost
  <2>1. PoolInv /\ Accounted
    BY DEF Life, NoPoolYet, Additions
  <2>2. \A w \in Workers : todo[w] = <<>>
    BY <2>1, PastStop, Working DEF Accounted
  <2>3. ASSUME NEW s \in Sets PROVE filled[s] # 0
    <3>1. gindex = NGroup
      BY <2>1, PastStop, WorkersAssumption DEF Filling
    <3> QED BY <3>1, SetNumbers DEF Passed, Filling
  <2>4. ASSUME NEW c \in DOMAIN cell PROVE cell[c] = Due(c)
    <3> DEFINE f == [w \in Workers |-> Cardinality(Adding(todo[w], c))]
               h == [s \in Sets |-> IF filled[s] = 0 THEN Cardinality(Adding(updates[s], c)) ELSE 0]
    <3>1. \A w \in Workers : f[w] = 0
      BY <2>2, AddingNone
    <3>2. \A s \in Sets : h[s] = 0
      BY <2>3
    <3>3. Pending(todo, c) = SumFunctionOnSet(f, Workers)
          /\ NotTaken(updates, filled, c) = SumFunctionOnSet(h, Sets)
      BY DEF Pending, NotTaken
    <3> HIDE DEF f, h
    <3>4. SumFunctionOnSet(f, Workers) = 0 /\ SumFunctionOnSet(h, Sets) = 0
      BY <3>1, <3>2, SumZero, SetsFinite, WorkersAssumption DEF WorkersAssumption
    <3>5. cell[c] \in Int /\ cell[c] + Pending(todo, c) + NotTaken(updates, filled, c) = Due(c)
      BY <2>1 DEF Accounted
    <3> QED BY <3>3, <3>4, <3>5
  <2> QED BY <2>2, <2>4
<1> QED BY <1>1, <1>2, <1>3, PTL DEF Spec

---------------------------------------------------------------------------
(* The detectors of a mosaic are taken once *)

LEMMA LabelSets ==
  \A l \in Labels : /\ NSetOfLabel(l) \in Nat \ {0}
                    /\ \A fd \in MatchFields(l) : NSetOf(fd[1], fd[2]) = NSetOfLabel(l)
<1> SUFFICES ASSUME NEW l \in Labels
             PROVE  /\ NSetOfLabel(l) \in Nat \ {0}
                    /\ \A fd \in MatchFields(l) : NSetOf(fd[1], fd[2]) = NSetOfLabel(l)
  OBVIOUS
<1>1. PICK x : x = CHOOSE y \in MatchFields(l) : TRUE
  OBVIOUS
<1>2. x \in MatchFields(l)
  <2>1. \E fd \in Fields : Label[fd] = l
    BY DEF Labels
  <2> QED BY <1>1, <2>1 DEF MatchFields
<1>3. NSetOfLabel(l) = NSetOf(x[1], x[2])
  BY <1>1 DEF NSetOfLabel
<1>4. NSetOf(x[1], x[2]) \in Nat \ {0}
  <2>1. x \in Fields
    BY <1>2 DEF MatchFields
  <2> QED BY <2>1, FieldFacts, ShapeFacts
<1>5. \A fd \in MatchFields(l) : NSetOf(fd[1], fd[2]) = NSetOf(x[1], x[2])
  BY <1>2, LabelAssumption DEF LabelAssumption, MatchFields
<1> QED BY <1>3, <1>4, <1>5

\* A pool that runs is not the one before the first.
LEMMA OneLife == ~(PoolInv /\ NoPoolYet)
BY DEF PoolInv, Places, At, NoPoolYet, Parties

\* Every detector behind the cursor was taken once, no two workers adjust the
\* same one, and whoever has found none left has found the cursor at the end.
MosaicTurns ==
    /\ lindex \in FocalPlane
    /\ DOMAIN sviewflag = 0..NSetOfLabel(lindex) - 1
    /\ pc[Master] = "create" => /\ \A w \in Workers : adjusting[w] = -1
                                /\ \A s \in DOMAIN sviewflag : ~sviewflag[s]
    /\ pc[Master] # "create" => \A s \in DOMAIN sviewflag : sviewflag[s] => s < msindex
    /\ \A w \in Workers : pc[w] = "work" => adjusting[w] # -1
    /\ \A v, w \in Workers : v # w /\ pc[v] = "work" /\ pc[w] = "work"
                             => adjusting[v] # adjusting[w]
    /\ \A w \in Workers : Behind(w) => msindex >= NSetOfLabel(lindex)

Mosaics ==
    /\ lindex \in Labels \cup {-1}
    /\ msindex \in Nat /\ sviewindex \in 0..msindex
    /\ adjusting \in [Workers -> -1..msindex - 1]
    /\ \A s \in DOMAIN sviewflag : sviewflag[s] \in BOOLEAN
    /\ stage = "grouped" => lindex = -1
    /\ stage \in {"grouped", "mosaic"} => IF lindex = -1 THEN NoPoolYet ELSE PoolInv
    /\ stage = "mosaic" /\ lindex # -1 => MosaicTurns

LEMMA SameMosaics ==
  ASSUME Mosaics, UNCHANGED <<mosaicVars, prefs>>, stage' = stage,
         stage \in {"grouped", "mosaic"} => UNCHANGED poolVars
  PROVE  Mosaics'
<1>1. NoPoolYet /\ UNCHANGED poolVars => NoPoolYet'
  BY DEF NoPoolYet, PoolTypeOK, StartGate!TypeOK, StopGate!TypeOK, poolVars
<1>2. MosaicTurns /\ UNCHANGED poolVars => MosaicTurns'
  BY DEF MosaicTurns, FocalPlane, Behind, mosaicVars, poolVars
<1> QED BY <1>1, <1>2, SamePool DEF Mosaics, mosaicVars

\* The reports never overtake the detectors that were taken.
LEMMA Reports ==
  ASSUME NEW w \in Workers, Report(w), lindex \in Labels, msindex \in Nat, sviewindex \in 0..msindex,
         adjusting[w] \in -1..msindex - 1, DOMAIN sviewflag = 0..NSetOfLabel(lindex) - 1,
         \A s \in DOMAIN sviewflag : sviewflag[s] \in BOOLEAN /\ (sviewflag[s] => s < msindex)
  PROVE  /\ DOMAIN sviewflag' = 0..NSetOfLabel(lindex) - 1
         /\ \A s \in DOMAIN sviewflag' : sviewflag'[s] \in BOOLEAN /\ (sviewflag'[s] => s < msindex)
         /\ sviewindex' \in 0..msindex
<1>1. PICK n \in Nat : n = NSetOfLabel(lindex)
  BY LabelSets
<1>2. sviewflag' = [s \in 0..n - 1 |-> sviewflag[s] \/ s = adjusting[w]]
  BY <1>1 DEF Report
<1>3. \A s \in 0..n - 1 : sviewflag'[s] \in BOOLEAN /\ (sviewflag'[s] => s < msindex)
  BY <1>1, <1>2
<1>4. PICK W : W = {s \in sviewindex..n - 1 : ~sviewflag'[s]}
  OBVIOUS
<1>5. sviewindex' = IF W = {} THEN n ELSE CHOOSE s \in W : \A t \in W : s <= t
  BY <1>1, <1>2, <1>4 DEF Report
<1>6. CASE W = {}
  <2>1. sviewindex' = n
    BY <1>5, <1>6
  <2>2. n <= msindex
    <3>1. CASE n <= sviewindex
      BY <3>1
    <3>2. CASE ~(n <= sviewindex)
      <4>1. n - 1 \in 0..n - 1 /\ n - 1 \in sviewindex..n - 1
        BY <3>2
      <4>2. sviewflag'[n - 1]
        BY <1>4, <1>6, <4>1
      <4> QED BY <1>3, <4>1, <4>2
    <3> QED BY <3>1, <3>2
  <2> QED BY <1>1, <1>2, <1>3, <2>1, <2>2
<1>7. CASE W # {}
  <2>1. W \subseteq Nat
    BY <1>4
  <2>2. sviewindex' \in W /\ \A t \in W : sviewindex' <= t
    BY <1>5, <1>7, <2>1, LeastElement
  <2>3. PICK k \in Nat : k = sviewindex'
    BY <2>1, <2>2
  <2>4. k <= msindex
    <3>1. CASE k = sviewindex
      BY <3>1
    <3>2. CASE k # sviewindex
      <4>1. PICK j : j = k - 1
        OBVIOUS
      <4>2. sviewindex \in Nat /\ k \in sviewindex..n - 1
        BY <1>4, <2>2, <2>3
      <4>3. j \in sviewindex..n - 1 /\ j \in 0..n - 1 /\ ~(k <= j)
        BY <3>2, <4>1, <4>2
      <4>4. j \notin W
        BY <2>2, <2>3, <4>3
      <4>5. sviewflag'[j]
        BY <1>4, <4>3, <4>4
      <4>6. j < msindex
        BY <1>3, <4>3, <4>5
      <4> QED BY <4>1, <4>6
    <3> QED BY <3>1, <3>2
  <2> QED BY <1>1, <1>2, <1>3, <2>3, <2>4
<1> QED BY <1>6, <1>7

LEMMA MosaicsInit == Init => Mosaics
BY MasterAssumption DEF Init, MosaicInit, Mosaics, NoPoolYet, PoolTypeOK, StartGate!Init,
   StopGate!Init, StartGate!TypeOK, StopGate!TypeOK, Locations, Parties, StartCalls, StopCalls

\* adjust_mosaic creates the pool of the next instrument.
LEMMA NextMosaic ==
  ASSUME Mosaics, NextInstrument
  PROVE  Mosaics'
<1>1. /\ stage = "mosaic" /\ stage' = "mosaic" /\ prefs' = prefs /\ LabelsLeft # {}
      /\ lindex' = Min(LabelsLeft)
      /\ sviewflag' = [s \in 0..NSetOfLabel(lindex') - 1 |-> FALSE]
      /\ adjusting' = [w \in Workers |-> -1]
      /\ UNCHANGED <<msindex, sviewindex>>
      /\ \E flag \in BOOLEAN : NewPool(flag)
  BY DEF NextInstrument, StartMosaic
<1>2. PoolInv' /\ pc'[Master] = "create" /\ \A w \in Workers : pc'[w] = "none" /\ ~Behind(w)'
  BY <1>1, NewPoolLife
<1>3. lindex' \in LabelsLeft
  <2>1. LabelsLeft \subseteq Nat
    BY LabelFacts DEF LabelsLeft, FocalPlane
  <2> QED BY <1>1, <2>1, MinInSet
<1>4. lindex' \in FocalPlane /\ lindex' \in Labels /\ lindex' # -1
  BY <1>3, LabelFacts DEF LabelsLeft, FocalPlane
<1>5. FocalPlane' = FocalPlane
  BY <1>1 DEF FocalPlane
<1>6. MosaicTurns'
  <2>1. /\ DOMAIN sviewflag' = 0..NSetOfLabel(lindex') - 1
        /\ \A s \in DOMAIN sviewflag' : ~sviewflag'[s]
    BY <1>1
  <2>2. NSetOfLabel(lindex)' = NSetOfLabel(lindex')
    BY DEF NSetOfLabel
  <2> QED BY <1>1, <1>2, <1>4, <1>5, <2>1, <2>2 DEF MosaicTurns
<1>7. /\ adjusting' \in [Workers -> -1..msindex' - 1]
      /\ \A s \in DOMAIN sviewflag' : sviewflag'[s] \in BOOLEAN
  BY <1>1 DEF Mosaics
<1> QED BY <1>1, <1>2, <1>4, <1>6, <1>7 DEF Mosaics

\* A worker of the pool reports and takes the next detector, or finds none.
LEMMA MosaicSection ==
  ASSUME PoolInv, Mosaics, MosaicTurns, stage = "mosaic", NEW w \in Workers,
         TakeDetector(w) \/ NoDetector(w), prefs' = prefs, stage' = stage
  PROVE  Mosaics'
<1>1. /\ pc[w] = "section" /\ Report(w) /\ UNCHANGED <<gateVars, endflag>> /\ lindex' = lindex
      /\ \/ /\ msindex < NSetOfLabel(lindex) /\ msindex' = msindex + 1
            /\ adjusting' = [adjusting EXCEPT ![w] = msindex] /\ Goto(w, "work")
         \/ /\ msindex >= NSetOfLabel(lindex) /\ msindex' = msindex
            /\ adjusting' = adjusting /\ Goto(w, "stop")
  BY DEF TakeDetector, NoDetector
<1>2. PICK to \in {"work", "stop"} : Goto(w, to)
  BY <1>1
<1>3. /\ PoolInv' /\ pc'[w] = to /\ \A v \in Workers \ {w} : pc'[v] = pc[v]
      /\ Behind(w)' <=> to = "stop"
      /\ \A v \in Workers \ {w} : Behind(v)' <=> Behind(v)
      /\ pc[Master] # "create" /\ pc'[Master] # "create"
  BY <1>1, <1>2, TurnSteps
<1>4. /\ lindex \in Labels /\ lindex # -1 /\ lindex \in FocalPlane /\ lindex' \in FocalPlane'
  BY <1>1, LabelFacts DEF MosaicTurns, FocalPlane
<1>5. /\ msindex \in Nat /\ msindex' \in Nat /\ msindex <= msindex'
      /\ adjusting' \in [Workers -> -1..msindex' - 1]
      /\ \A v \in Workers \ {w} : adjusting'[v] = adjusting[v]
  BY <1>1 DEF Mosaics
<1>6. /\ DOMAIN sviewflag' = 0..NSetOfLabel(lindex) - 1
      /\ \A s \in DOMAIN sviewflag' : sviewflag'[s] \in BOOLEAN /\ (sviewflag'[s] => s < msindex)
      /\ sviewindex' \in 0..msindex
  <2>1. /\ sviewindex \in 0..msindex /\ adjusting[w] \in -1..msindex - 1
        /\ \A s \in DOMAIN sviewflag : sviewflag[s] \in BOOLEAN /\ (sviewflag[s] => s < msindex)
        /\ DOMAIN sviewflag = 0..NSetOfLabel(lindex) - 1
    BY <1>3 DEF Mosaics, MosaicTurns
  <2> QED BY <1>1, <1>4, <1>5, <2>1, Reports
<1>7. \A s \in DOMAIN sviewflag' : sviewflag'[s] => s < msindex'
  <2>1. \A s \in DOMAIN sviewflag' : s \in Int
    BY <1>4, <1>6, LabelSets
  <2> QED BY <1>5, <1>6, <2>1
<1>8. NSetOfLabel(lindex)' = NSetOfLabel(lindex)
  BY <1>1 DEF NSetOfLabel
<1>9. \A v \in Workers : pc'[v] = "work" => adjusting'[v] # -1
  <2>1. \A v \in Workers \ {w} : pc'[v] = "work" => adjusting'[v] # -1
    BY <1>3, <1>5 DEF MosaicTurns
  <2>2. ASSUME pc'[w] = "work" PROVE adjusting'[w] # -1
    <3>1. adjusting'[w] = msindex
      BY <1>1, <1>2, <1>3, <2>2 DEF Mosaics, Goto
    <3> QED BY <1>5, <3>1
  <2> QED BY <2>1, <2>2
<1>10. ASSUME NEW u \in Workers, NEW v \in Workers, u # v, pc'[u] = "work", pc'[v] = "work"
       PROVE  adjusting'[u] # adjusting'[v]
  <2>1. CASE u # w /\ v # w
    BY <1>3, <1>5, <1>10, <2>1 DEF MosaicTurns
  <2>2. ASSUME NEW x \in Workers \ {w}, pc'[w] = "work"
        PROVE  adjusting'[x] # adjusting'[w]
    <3>1. adjusting'[w] = msindex
      BY <1>1, <1>2, <1>3, <2>2 DEF Mosaics, Goto
    <3>2. adjusting'[x] = adjusting[x] /\ adjusting[x] \in -1..msindex - 1
      BY <1>5 DEF Mosaics
    <3> QED BY <1>5, <3>1, <3>2
  <2> QED BY <1>10, <2>1, <2>2
<1>11. ASSUME NEW v \in Workers, Behind(v)' PROVE msindex' >= NSetOfLabel(lindex)
  <2>1. CASE v = w
    <3>1. pc'[w] = "stop"
      BY <1>3, <1>11, <2>1
    <3>2. msindex' = msindex /\ msindex >= NSetOfLabel(lindex)
      BY <1>1, <1>2, <1>3, <3>1, TurnSteps
    <3> QED BY <3>2
  <2>2. CASE v # w
    <3>1. msindex >= NSetOfLabel(lindex)
      BY <1>3, <1>11, <2>2 DEF MosaicTurns
    <3>2. NSetOfLabel(lindex) \in Nat
      BY <1>4, LabelSets
    <3> QED BY <1>5, <3>1, <3>2
  <2> QED BY <2>1, <2>2
<1>12. MosaicTurns'
  BY <1>1, <1>3, <1>4, <1>6, <1>7, <1>8, <1>9, <1>10, <1>11 DEF MosaicTurns
<1>13. sviewindex' \in 0..msindex'
  BY <1>5, <1>6
<1> QED BY <1>1, <1>3, <1>4, <1>5, <1>6, <1>12, <1>13 DEF Mosaics

LEMMA MosaicsNext ==
  ASSUME Life, Mosaics, [Next]_vars
  PROVE  Mosaics'
<1>1. CASE UNCHANGED vars
  BY <1>1, SameMosaics DEF vars
<1>2. CASE AdjustMosaic
  <2>1. /\ stage = "grouped" /\ stage' = "mosaic" /\ UNCHANGED <<mosaicVars, prefs, poolVars>>
    BY <1>2 DEF AdjustMosaic
  <2>2. lindex = -1 /\ NoPoolYet
    BY <2>1 DEF Mosaics
  <2>3. NoPoolYet'
    BY <2>1, <2>2 DEF NoPoolYet, PoolTypeOK, StartGate!TypeOK, StopGate!TypeOK, poolVars
  <2> QED BY <2>1, <2>2, <2>3 DEF Mosaics, mosaicVars
<1>3. CASE NextInstrument
  BY <1>3, NextMosaic
<1>4. CASE StartMatch \/ StartSolve
  <2>1. /\ stage' \in {"match", "fill"} /\ adjusting' = [w \in Workers |-> -1]
        /\ UNCHANGED <<lindex, msindex, sviewindex, sviewflag>>
    BY <1>4 DEF StartMatch, StartSolve
  <2>2. adjusting' \in [Workers -> -1..msindex' - 1]
    BY <2>1 DEF Mosaics
  <2> QED BY <2>1, <2>2 DEF Mosaics
<1>5. CASE Solve
  <2>1. stage' = "solved" /\ UNCHANGED mosaicVars
    BY <1>5 DEF Solve
  <2> QED BY <2>1 DEF Mosaics, mosaicVars
<1>6. CASE MatchStep \/ FillStep
  BY <1>6, SameMosaics DEF MatchStep, FillStep
<1>7. CASE MosaicStep
  <2>1. stage = "mosaic" /\ stage' = "mosaic" /\ PoolInv /\ prefs' = prefs
    BY <1>7 DEF MosaicStep
  <2>2. lindex # -1 /\ MosaicTurns
    BY <2>1, OneLife DEF Mosaics
  <2>3. CASE MosaicReset
    <3>1. /\ Reset /\ LifeStep /\ pc[Master] = "create" /\ msindex' = 0 /\ sviewindex' = 0
          /\ UNCHANGED <<lindex, sviewflag, adjusting>>
      BY <2>3 DEF MosaicReset, Reset, LifeStep
    <3>2. /\ PoolInv' /\ \A w \in Workers : /\ pc'[w] = "work" <=> pc[w] = "work"
                                            /\ Behind(w)' <=> Behind(w)
      BY <2>1, <3>1, LifeSteps
    <3>3. \A w \in Workers : ~Behind(w) /\ pc[w] # "work"
      BY <2>1, <3>1, NotStarted
    <3>4. \A w \in Workers : adjusting[w] = -1
      BY <2>2, <3>1 DEF MosaicTurns
    <3>5. \A s \in DOMAIN sviewflag : ~sviewflag[s]
      BY <2>2, <3>1 DEF MosaicTurns
    <3>6. NSetOfLabel(lindex)' = NSetOfLabel(lindex) /\ FocalPlane' = FocalPlane
      BY <2>1, <3>1 DEF NSetOfLabel, FocalPlane
    <3>7. MosaicTurns'
      BY <2>2, <3>1, <3>2, <3>3, <3>4, <3>5, <3>6 DEF MosaicTurns
    <3>8. adjusting' \in [Workers -> -1..msindex' - 1]
      BY <3>1, <3>4 DEF Mosaics
    <3> QED BY <2>1, <2>2, <3>1, <3>2, <3>7, <3>8 DEF Mosaics
  <2>4. CASE RunStep /\ UNCHANGED mosaicVars
    <3>1. /\ PoolInv' /\ \A w \in Workers : /\ pc'[w] = "work" <=> pc[w] = "work"
                                            /\ Behind(w)' <=> Behind(w)
          /\ pc'[Master] = "create" <=> pc[Master] = "create"
      BY <2>1, <2>4, LifeSteps DEF LifeStep
    <3>2. NSetOfLabel(lindex)' = NSetOfLabel(lindex) /\ FocalPlane' = FocalPlane
      BY <2>1, <2>4 DEF NSetOfLabel, FocalPlane, mosaicVars
    <3>3. MosaicTurns'
      BY <2>2, <2>4, <3>1, <3>2 DEF MosaicTurns, mosaicVars
    <3> QED BY <2>1, <2>2, <2>4, <3>1, <3>3 DEF Mosaics, mosaicVars
  <2>5. ASSUME NEW w \in Workers, AdjustSet(w) PROVE Mosaics'
    <3>1. /\ UNCHANGED <<gateVars, endflag, mosaicVars>> /\ pc[w] = "work" /\ Goto(w, "test")
      BY <2>5 DEF AdjustSet
    <3>2. /\ PoolInv' /\ pc'[w] = "test" /\ \A v \in Workers \ {w} : pc'[v] = pc[v]
          /\ \A v \in Workers : Behind(v)' <=> Behind(v)
          /\ pc'[Master] = pc[Master]
      BY <2>1, <3>1, TurnSteps
    <3>3. NSetOfLabel(lindex)' = NSetOfLabel(lindex) /\ FocalPlane' = FocalPlane
      BY <2>1, <3>1 DEF NSetOfLabel, FocalPlane, mosaicVars
    <3>4. MosaicTurns'
      BY <2>2, <3>1, <3>2, <3>3 DEF MosaicTurns, mosaicVars
    <3> QED BY <2>1, <2>2, <3>1, <3>2, <3>4 DEF Mosaics, mosaicVars
  <2>6. ASSUME NEW w \in Workers, TakeDetector(w) \/ NoDetector(w) PROVE Mosaics'
    BY <2>1, <2>2, <2>6, MosaicSection
  <2> QED BY <1>7, <2>3, <2>4, <2>5, <2>6 DEF MosaicStep, MosaicTurn
<1> QED BY <1>1, <1>2, <1>3, <1>4, <1>5, <1>6, <1>7, NextSteps

---------------------------------------------------------------------------
(* Short sequences, prefixes and suffixes *)

LEMMA TwoElements ==
  ASSUME NEW T, NEW a \in T, NEW b \in T
  PROVE  /\ Append(<<>>, a) = <<a>> /\ Append(<<a>>, b) = <<a, b>>
         /\ <<a>> \o <<b>> = <<a, b>>
<1>1. <<>> \in Seq(T) /\ <<a>> \in Seq(T) /\ Len(<<a>>) = 1 /\ <<a>>[1] = a
  OBVIOUS
<1>2. <<a, b>> \in Seq(T) /\ Len(<<a, b>>) = 2 /\ <<a, b>>[1] = a /\ <<a, b>>[2] = b
  OBVIOUS
<1>3. PICK s, t : s = <<a>> /\ t = <<a, b>>
  OBVIOUS
<1>4. /\ Append(s, b) \in Seq(T) /\ Len(Append(s, b)) = 2
      /\ Append(s, b)[1] = a /\ Append(s, b)[2] = b
  BY <1>1, <1>3, AppendProperties
<1>5. Append(s, b) = t
  <2>1. \A i \in 1..2 : Append(s, b)[i] = t[i]
    BY <1>2, <1>3, <1>4
  <2> QED BY <1>2, <1>3, <1>4, <2>1, SeqEqual
<1>6. Append(s, b) = s \o <<b>>
  BY <1>1, <1>3, AppendIsConcat
<1>7. Append(<<>>, a) = <<a>>
  OBVIOUS
<1>8. Append(<<a>>, b) = <<a, b>> /\ <<a>> \o <<b>> = <<a, b>>
  BY <1>3, <1>5, <1>6
<1> QED BY <1>7, <1>8

LEMMA PrefixOf ==
  ASSUME NEW T, NEW R \in Seq(T), NEW S \in Seq(T)
  PROVE  IsPrefix(R, R \o S)
<1>1. Len(R) \in Nat /\ Len(S) \in Nat /\ Len(R \o S) = Len(R) + Len(S) /\ R \o S \in Seq(T)
  BY ConcatProperties
<1>2. SubSeq(R \o S, 1, Len(R)) = SubSeq(R, 1, Len(R))
  <2>1. CASE Len(R) = 0
    BY <2>1, SubSeqEmpty
  <2>2. CASE Len(R) # 0
    <3>1. 1 \in 1..Len(R) /\ Len(R) \in 1..Len(R)
      BY <1>1, <2>2
    <3> QED BY <3>1, SubSeqOfConcat1
  <2> QED BY <2>1, <2>2
<1> QED BY <1>1, <1>2 DEF IsPrefix

LEMMA LastIsSuffix ==
  ASSUME NEW T, NEW R \in Seq(T), NEW e \in T
  PROVE  IsSuffix(<<e>>, Append(R, e))
<1>1. PICK S : S = Append(R, e)
  OBVIOUS
<1>2. S \in Seq(T) /\ Len(R) \in Nat /\ Len(S) = Len(R) + 1 /\ S[Len(S)] = e
  BY <1>1, AppendProperties
<1>3. PICK V : V = Reverse(S)
  OBVIOUS
<1>4. V = [i \in 1..Len(S) |-> S[(Len(S) - i) + 1]]
  BY <1>3 DEF Reverse
<1>5. \A i \in 1..Len(S) : S[(Len(S) - i) + 1] \in T
  <2>1. \A i \in 1..Len(S) : (Len(S) - i) + 1 \in 1..Len(S)
    BY <1>2
  <2> QED BY <1>2, <2>1, ElementOfSeq
<1>6. V \in Seq(T) /\ Len(V) = Len(S) /\ V[1] = e
  BY <1>2, <1>4, <1>5
<1>7. /\ SubSeq(V, 1, 1) \in Seq(T) /\ Len(SubSeq(V, 1, 1)) = 1
      /\ SubSeq(V, 1, 1)[1] = e
  <2>1. \A i \in 1..1 : V[i] \in T
    BY <1>6
  <2> QED BY <1>6, <2>1, SubSeqProperties
<1>8. PICK q : q = <<e>>
  OBVIOUS
<1>9. q \in Seq(T) /\ Len(q) = 1 /\ q[1] = e
  BY <1>8
<1>10. SubSeq(V, 1, 1) = q
  BY <1>7, <1>9, SeqEqual
<1>11. Reverse(q) = q
  <2>1. Reverse(q) = [i \in 1..1 |-> q[(1 - i) + 1]]
    BY <1>9 DEF Reverse
  <2>2. \A i \in 1..1 : q[(1 - i) + 1] = e
    BY <1>9
  <2>3. Reverse(q) \in Seq(T) /\ Len(Reverse(q)) = 1 /\ Reverse(q)[1] = e
    BY <2>1, <2>2
  <2> QED BY <1>9, <2>3, SeqEqual
<1>12. SubSeq(q, 1, 1) = q
  BY <1>9, SubSeqFull
<1>13. IsPrefix(q, V)
  <2>1. Len(q) <= Len(V)
    BY <1>2, <1>6, <1>9
  <2> QED BY <1>9, <1>10, <1>12, <2>1 DEF IsPrefix
<1> QED BY <1>1, <1>3, <1>8, <1>11, <1>13 DEF IsSuffix

---------------------------------------------------------------------------
(* The mosaics are adjusted *)

\* What the first walk of adjust_mosaic has done to a set.
Recentred(s) == CASE MosaicType(FieldOf(s)) = "UNCHANGED" -> <<>>
                  [] MosaicType(FieldOf(s)) = "SAME_CRVAL" -> <<"samecrval">>
                  [] OTHER -> <<"recentre">>

\* The pool of its instrument is through with the set.
Adjusted(s) ==
    \/ Label[FieldOf(s)] < lindex
    \/ /\ Label[FieldOf(s)] = lindex /\ pc[Master] # "create" /\ s[3] < msindex
       /\ \A w \in Workers : pc[w] = "work" => adjusting[w] # s[3]

Focal(s) == MosaicType(FieldOf(s)) = "FIX_FOCALPLANE"

MosaicWcs == /\ DOMAIN wcs = Sets
             /\ \A s \in Sets : wcs[s] = IF Focal(s) /\ Adjusted(s) THEN <<"recentre", "adjust">>
                                         ELSE Recentred(s)

LEMMA LabelOfSet ==
  \A s \in Sets : /\ Label[FieldOf(s)] \in Labels /\ Label[FieldOf(s)] \in Nat
                  /\ s[3] \in Nat /\ s[3] < NSetOfLabel(Label[FieldOf(s)])
<1> SUFFICES ASSUME NEW s \in Sets
             PROVE  /\ Label[FieldOf(s)] \in Labels /\ Label[FieldOf(s)] \in Nat
                    /\ s[3] \in Nat /\ s[3] < NSetOfLabel(Label[FieldOf(s)])
  OBVIOUS
<1>1. FieldOf(s) \in Fields /\ s = <<s[1], s[2], s[3]>> /\ FieldOf(s) = <<s[1], s[2]>>
  BY SetFacts DEF FieldOf
<1>2. Label[FieldOf(s)] \in Labels
  BY <1>1 DEF Labels
<1>3. s[3] \in 0..NSetOf(s[1], s[2]) - 1
  BY <1>1, SetFacts
<1>4. FieldOf(s)[1] = s[1] /\ FieldOf(s)[2] = s[2]
  BY DEF FieldOf
<1>5. NSetOf(s[1], s[2]) = NSetOfLabel(Label[FieldOf(s)])
  BY <1>1, <1>2, <1>4, LabelSets DEF MatchFields
<1>6. NSetOf(s[1], s[2]) \in Nat
  BY <1>2, <1>5, LabelSets
<1> QED BY <1>2, <1>3, <1>5, <1>6, LabelFacts

\* When a pool is over, every set of its instrument is adjusted.
LEMMA MosaicOver ==
  ASSUME Mosaics, stage = "mosaic", PoolOver, NEW s \in Sets
  PROVE  Adjusted(s) <=> Label[FieldOf(s)] <= lindex
<1>1. PICK l \in Nat : l = Label[FieldOf(s)]
  BY LabelOfSet
<1>2. CASE lindex = -1
  BY <1>1, <1>2 DEF Adjusted
<1>3. CASE lindex # -1
  <2>1. PoolInv /\ MosaicTurns /\ MasterPastStop /\ lindex \in Nat
    BY <1>3, LabelFacts DEF Mosaics, PoolOver, MasterPastStop
  <2>2. /\ \A w \in Workers : Behind(w) /\ pc[w] # "work"
        /\ pc[Master] # "create"
    BY <2>1, PastStop, Working DEF MasterPastStop
  <2>3. msindex >= NSetOfLabel(lindex) /\ msindex \in Nat
    BY <2>1, <2>2, WorkersAssumption DEF MosaicTurns, Mosaics
  <2>4. l = lindex => s[3] < msindex
    <3>1. s[3] \in Nat /\ s[3] < NSetOfLabel(l) /\ NSetOfLabel(l) \in Nat
      BY <1>1, LabelOfSet, LabelSets
    <3> QED BY <2>3, <3>1
  <2> QED BY <1>1, <2>1, <2>2, <2>4 DEF Adjusted
<1> QED BY <1>2, <1>3

\* When no instrument is left all sets are as adjust_mosaic should leave them.
LEMMA MosaicDone ==
  ASSUME Mosaics, MosaicWcs, stage = "mosaic", PoolOver, LabelsLeft = {}, NEW s \in Sets
  PROVE  wcs[s] = MosaicCalls(s)
<1>1. CASE Focal(s)
  <2>1. Label[FieldOf(s)] <= lindex
    <3>1. Label[FieldOf(s)] \in FocalPlane
      BY <1>1, LabelOfSet DEF FocalPlane, Focal, MosaicType
    <3>2. ~(Label[FieldOf(s)] > lindex)
      BY <3>1 DEF LabelsLeft
    <3>3. Label[FieldOf(s)] \in Int /\ lindex \in Int
      BY LabelOfSet, LabelFacts DEF Mosaics
    <3> QED BY <3>2, <3>3
  <2> QED BY <1>1, <2>1, MosaicOver DEF MosaicWcs, MosaicCalls, Focal
<1>2. CASE ~Focal(s)
  BY <1>2 DEF MosaicWcs, MosaicCalls, Focal, Recentred
<1> QED BY <1>1, <1>2

LEMMA SameMosaicWcs ==
  ASSUME MosaicWcs, UNCHANGED <<wcs, prefs>>, \A s \in Sets : Focal(s) => (Adjusted(s)' <=> Adjusted(s))
  PROVE  MosaicWcs'
BY DEF MosaicWcs, Focal, Recentred, MosaicType

LEMMA FirstMosaicWcs ==
  ASSUME Mosaics, stage = "grouped", wcs = [s \in Sets |-> <<>>], AdjustMosaic
  PROVE  MosaicWcs'
<1>1. Recentre /\ UNCHANGED <<prefs, lindex>> /\ lindex = -1
  BY DEF AdjustMosaic, mosaicVars, Mosaics
<1>2. \A s \in Sets : ~Adjusted(s)'
  <2>1. \A s \in Sets : Label[FieldOf(s)] \in Nat
    BY LabelOfSet
  <2> QED BY <1>1, <2>1 DEF Adjusted
<1>3. \A s \in Sets : wcs'[s] = Recentred(s)
  BY <1>1 DEF Recentre, Recentred
<1>4. \A s \in Sets : Recentred(s)' = Recentred(s)
  BY <1>1 DEF Recentred, MosaicType
<1>5. DOMAIN wcs' = Sets
  BY <1>1 DEF Recentre
<1> QED BY <1>2, <1>3, <1>4, <1>5 DEF MosaicWcs

LEMMA NextMosaicWcs ==
  ASSUME Mosaics, MosaicWcs, NextInstrument
  PROVE  MosaicWcs'
<1>1. /\ stage = "mosaic" /\ PoolOver /\ lindex' = Min(LabelsLeft) /\ LabelsLeft # {}
      /\ UNCHANGED <<wcs, prefs>> /\ \E flag \in BOOLEAN : NewPool(flag)
  BY DEF NextInstrument, StartMosaic
<1>2. pc'[Master] = "create"
  BY <1>1, NewPoolLife
<1>3. LabelsLeft \subseteq Nat
  BY LabelFacts DEF LabelsLeft, FocalPlane
<1>4. lindex' \in LabelsLeft /\ \A l \in LabelsLeft : lindex' <= l
  BY <1>1, <1>3, MinInSet
<1>5. ASSUME NEW s \in Sets, Focal(s) PROVE Adjusted(s)' <=> Adjusted(s)
  <2>1. PICK l \in Labels : l = Label[FieldOf(s)]
    BY LabelOfSet
  <2>2. l \in Nat /\ lindex \in Int /\ lindex' \in Nat /\ lindex < lindex'
    BY <1>3, <1>4, <2>1, LabelFacts DEF Mosaics, LabelsLeft
  <2>3. l \in FocalPlane
    BY <1>5, <2>1 DEF FocalPlane, Focal, MosaicType
  <2>4. l <= lindex \/ lindex' <= l
    BY <1>4, <2>2, <2>3 DEF LabelsLeft
  <2>5. Adjusted(s)' <=> l < lindex'
    BY <1>2, <2>1 DEF Adjusted
  <2>6. Adjusted(s) <=> l <= lindex
    BY <1>1, <2>1, MosaicOver
  <2> QED BY <2>2, <2>4, <2>5, <2>6
<1> QED BY <1>1, <1>5, SameMosaicWcs

LEMMA StepMosaicWcs ==
  ASSUME Mosaics, MosaicWcs, MosaicStep
  PROVE  MosaicWcs'
<1>1. stage = "mosaic" /\ stage' = "mosaic" /\ PoolInv /\ prefs' = prefs
  BY DEF MosaicStep
<1>2. lindex # -1 /\ MosaicTurns /\ lindex \in Labels
  BY <1>1, OneLife DEF Mosaics
<1>3. CASE MosaicReset
  <2>1. /\ Reset /\ LifeStep /\ pc[Master] = "create" /\ msindex' = 0
        /\ UNCHANGED <<lindex, wcs>>
    BY <1>3 DEF MosaicReset, Reset, LifeStep
  <2>2. \A s \in Sets : Adjusted(s)' <=> Adjusted(s)
    <3>1. \A s \in Sets : s[3] \in Nat
      BY LabelOfSet
    <3> QED BY <2>1, <3>1 DEF Adjusted
  <2> QED BY <1>1, <2>1, <2>2, SameMosaicWcs
<1>4. CASE RunStep /\ UNCHANGED <<wcs, mosaicVars>>
  <2>1. /\ \A w \in Workers : pc'[w] = "work" <=> pc[w] = "work"
        /\ pc'[Master] = "create" <=> pc[Master] = "create"
    BY <1>1, <1>4, LifeSteps DEF LifeStep
  <2>2. \A s \in Sets : Adjusted(s)' <=> Adjusted(s)
    BY <1>4, <2>1 DEF Adjusted, mosaicVars
  <2> QED BY <1>1, <1>4, <2>2, SameMosaicWcs
<1>5. ASSUME NEW w \in Workers, TakeDetector(w) PROVE MosaicWcs'
  <2>1. /\ pc[w] = "section" /\ UNCHANGED <<gateVars, endflag, wcs, lindex>> /\ Goto(w, "work")
        /\ adjusting' = [adjusting EXCEPT ![w] = msindex] /\ msindex' = msindex + 1
        /\ msindex \in Nat
    BY <1>5 DEF TakeDetector, Mosaics
  <2>2. /\ pc'[w] = "work" /\ \A v \in Workers \ {w} : pc'[v] = pc[v]
        /\ pc'[Master] # "create" /\ pc[Master] # "create"
    BY <1>1, <2>1, TurnSteps
  <2>3. adjusting'[w] = msindex /\ \A v \in Workers \ {w} : adjusting'[v] = adjusting[v]
    BY <2>1 DEF Mosaics
  <2>4. ASSUME NEW s \in Sets PROVE Adjusted(s)' <=> Adjusted(s)
    <3>1. s[3] \in Nat
      BY LabelOfSet
    <3>2. /\ s[3] < msindex + 1 /\ (\A v \in Workers : pc'[v] = "work" => adjusting'[v] # s[3])
          <=> s[3] < msindex /\ (\A v \in Workers : pc[v] = "work" => adjusting[v] # s[3])
      <4>1. s[3] < msindex + 1 <=> s[3] < msindex \/ s[3] = msindex
        BY <2>1, <3>1
      <4>2. s[3] < msindex => s[3] # msindex
        BY <2>1, <3>1
      <4> QED BY <2>1, <2>2, <2>3, <4>1, <4>2
    <3> QED BY <2>1, <2>2, <3>2 DEF Adjusted
  <2> QED BY <1>1, <2>1, <2>4, SameMosaicWcs
<1>6. ASSUME NEW w \in Workers, NoDetector(w) PROVE MosaicWcs'
  <2>1. /\ pc[w] = "section" /\ UNCHANGED <<gateVars, endflag, wcs, lindex, msindex, adjusting>>
        /\ Goto(w, "stop")
    BY <1>6 DEF NoDetector
  <2>2. /\ pc'[w] = "stop" /\ \A v \in Workers \ {w} : pc'[v] = pc[v]
        /\ pc'[Master] # "create" /\ pc[Master] # "create"
    BY <1>1, <2>1, TurnSteps
  <2>3. \A s \in Sets : Adjusted(s)' <=> Adjusted(s)
    BY <2>1, <2>2 DEF Adjusted
  <2> QED BY <1>1, <2>1, <2>3, SameMosaicWcs
<1>7. ASSUME NEW w \in Workers, AdjustSet(w) PROVE MosaicWcs'
  <2>1. /\ pc[w] = "work" /\ UNCHANGED <<gateVars, endflag, lindex, msindex, adjusting>>
        /\ Goto(w, "test")
        /\ Calibrated({s \in Sets : FieldOf(s) \in MatchFields(lindex) /\ s[3] = adjusting[w]},
                      "adjust")
    BY <1>7 DEF AdjustSet, mosaicVars
  <2>2. /\ pc'[w] = "test" /\ \A v \in Workers \ {w} : pc'[v] = pc[v]
        /\ pc'[Master] # "create" /\ pc[Master] # "create"
    BY <1>1, <2>1, TurnSteps
  <2>3. /\ adjusting[w] # -1 /\ adjusting[w] \in -1..msindex - 1
        /\ \A v \in Workers \ {w} : pc[v] = "work" => adjusting[v] # adjusting[w]
    BY <1>2, <2>1 DEF MosaicTurns, Mosaics
  <2>4. DOMAIN wcs' = Sets /\ \A s \in Sets : Recentred(s)' = Recentred(s) /\ (Focal(s)' <=> Focal(s))
    BY <1>1, <2>1 DEF Calibrated, Recentred, Focal, MosaicType
  <2>5. ASSUME NEW s \in Sets
        PROVE  wcs'[s] = IF Focal(s) /\ Adjusted(s)' THEN <<"recentre", "adjust">>
                         ELSE Recentred(s)
    <3>1. s[3] \in Nat /\ FieldOf(s) \in Fields /\ msindex \in Nat
      BY LabelOfSet, SetFacts DEF Mosaics
    <3>2. CASE Label[FieldOf(s)] = lindex /\ s[3] = adjusting[w]
      <4>1. Focal(s)
        BY <1>2, <3>2 DEF MosaicTurns, FocalPlane, Focal, MosaicType
      <4>2. s[3] < msindex
        BY <2>3, <3>1, <3>2
      <4>3. Adjusted(s)'
        BY <2>1, <2>2, <2>3, <3>2, <4>2 DEF Adjusted
      <4>4. ~Adjusted(s)
        <5>1. ~(lindex < lindex)
          BY <1>2, LabelFacts
        <5> QED BY <2>1, <3>2, <5>1 DEF Adjusted
      <4>5. wcs[s] = <<"recentre">>
        BY <4>1, <4>4 DEF MosaicWcs, Recentred, Focal
      <4>6. wcs'[s] = Append(wcs[s], "adjust")
        BY <2>1, <3>1, <3>2 DEF Calibrated, MatchFields
      <4>7. Append(<<"recentre">>, "adjust") = <<"recentre", "adjust">>
        <5>1. "recentre" \in Calibrations /\ "adjust" \in Calibrations
          BY DEF Calibrations
        <5> QED BY <5>1, TwoElements
      <4>8. wcs'[s] = <<"recentre", "adjust">>
        BY <4>5, <4>6, <4>7
      <4> QED BY <4>1, <4>3, <4>8
    <3>3. CASE ~(Label[FieldOf(s)] = lindex /\ s[3] = adjusting[w])
      <4>1. wcs'[s] = wcs[s]
        BY <2>1, <3>3 DEF Calibrated, MatchFields
      <4>2. Adjusted(s)' <=> Adjusted(s)
        BY <2>1, <2>2, <3>3 DEF Adjusted
      <4> QED BY <4>1, <4>2 DEF MosaicWcs
    <3> QED BY <3>2, <3>3
  <2> QED BY <2>4, <2>5 DEF MosaicWcs
<1> QED BY <1>3, <1>4, <1>5, <1>6, <1>7 DEF MosaicStep, MosaicTurn

---------------------------------------------------------------------------
(* What a worker does to a field *)

Op == [op : {"align", "sort", "refine"}, sets : SUBSET Sets]

\* The list has still a step of this kind for set s.
Left(list, s, how) == \E i \in DOMAIN list : list[i].op = how /\ s \in list[i].sets

\* Every set is aligned once and refined once, and aligned before.
Orderly(list) ==
    /\ \A i, j \in DOMAIN list :
          /\ list[i].op = list[j].op /\ list[i].op # "sort"
          /\ \E s \in Sets : s \in list[i].sets /\ s \in list[j].sets
          => i = j
    /\ \A i \in DOMAIN list : list[i].op = "align" =>
          \A s \in list[i].sets :
              \E j \in DOMAIN list : i < j /\ list[j].op = "refine" /\ s \in list[j].sets

\* When the first step is done it is not left, the others are.
OneStep(list, first, rest) ==
    /\ rest \in Seq(Op) /\ first \in Op /\ Orderly(rest)
    /\ \A s \in Sets, how \in {"align", "refine"} :
          /\ Left(list, s, how) <=> Left(rest, s, how) \/ (first.op = how /\ s \in first.sets)
          /\ first.op = how /\ s \in first.sets => ~Left(rest, s, how)
    /\ \A s \in first.sets :
          /\ first.op = "align" => Left(rest, s, "refine")
          /\ first.op = "refine" => ~Left(rest, s, "align")
    /\ \A i \in DOMAIN rest : \E j \in DOMAIN list : rest[i] = list[j]

LEMMA OrderlyTail ==
  ASSUME NEW list \in Seq(Op), list # <<>>, Orderly(list),
         NEW first, first = Head(list), NEW rest, rest = Tail(list)
  PROVE  OneStep(list, first, rest)
<1>1. /\ Len(list) \in Nat \ {0} /\ DOMAIN list = 1..Len(list) /\ first = list[1]
      /\ rest \in Seq(Op) /\ DOMAIN rest = 1..Len(list) - 1
      /\ \A i \in 1..Len(list) - 1 : rest[i] = list[i + 1] /\ i + 1 \in 2..Len(list)
      /\ \A i \in 2..Len(list) : rest[i - 1] = list[i] /\ i - 1 \in 1..Len(list) - 1
      /\ \A i \in 1..Len(list) : list[i] \in Op
  <2>1. /\ Len(list) \in Nat \ {0} /\ DOMAIN list = 1..Len(list) /\ first = list[1]
        /\ rest \in Seq(Op) /\ Len(rest) = Len(list) - 1 /\ DOMAIN rest = 1..Len(rest)
        /\ \A i \in 1..Len(rest) : rest[i] = list[i + 1]
    BY EmptySeq, LenProperties, HeadTailProperties
  <2>2. ASSUME NEW i \in 2..Len(list) PROVE rest[i - 1] = list[i] /\ i - 1 \in 1..Len(list) - 1
    <3>1. i - 1 \in 1..Len(rest) /\ (i - 1) + 1 = i
      BY <2>1
    <3> QED BY <2>1, <3>1
  <2>3. \A i \in 1..Len(list) - 1 : i + 1 \in 2..Len(list)
    BY <2>1
  <2> QED BY <2>1, <2>2, <2>3, ElementOfSeq
<1>2. ASSUME NEW s \in Sets, NEW how \in {"align", "refine"}
      PROVE  Left(list, s, how) <=> Left(rest, s, how) \/ (first.op = how /\ s \in first.sets)
  <2>1. ASSUME Left(list, s, how), ~(first.op = how /\ s \in first.sets) PROVE Left(rest, s, how)
    <3>1. PICK i \in 1..Len(list) : list[i].op = how /\ s \in list[i].sets
      BY <1>1, <2>1 DEF Left
    <3>2. i \in 2..Len(list)
      BY <1>1, <2>1, <3>1
    <3>3. i - 1 \in DOMAIN rest /\ rest[i - 1] = list[i]
      BY <1>1, <3>2
    <3> QED BY <3>1, <3>3 DEF Left
  <2>2. ASSUME Left(rest, s, how) PROVE Left(list, s, how)
    <3>1. PICK i \in 1..Len(list) - 1 : rest[i].op = how /\ s \in rest[i].sets
      BY <1>1, <2>2 DEF Left
    <3>2. i + 1 \in DOMAIN list /\ rest[i] = list[i + 1]
      BY <1>1
    <3> QED BY <3>1, <3>2 DEF Left
  <2>3. first.op = how /\ s \in first.sets => Left(list, s, how)
    <3>1. 1 \in DOMAIN list
      BY <1>1
    <3> QED BY <1>1, <3>1 DEF Left
  <2> QED BY <2>1, <2>2, <2>3
<1>3. ASSUME NEW s \in Sets, NEW how \in {"align", "refine"}, first.op = how, s \in first.sets
      PROVE  ~Left(rest, s, how)
  <2> SUFFICES ASSUME Left(rest, s, how) PROVE FALSE
    OBVIOUS
  <2>1. PICK i \in 1..Len(list) - 1 : rest[i].op = how /\ s \in rest[i].sets
    BY <1>1 DEF Left
  <2>2. i + 1 \in DOMAIN list /\ rest[i] = list[i + 1] /\ 1 \in DOMAIN list /\ 1 # i + 1
    BY <1>1
  <2> QED BY <1>1, <1>3, <2>1, <2>2 DEF Orderly
<1>4. ASSUME NEW s \in first.sets, first.op = "align" PROVE Left(rest, s, "refine")
  <2>1. PICK j \in DOMAIN list : 1 < j /\ list[j].op = "refine" /\ s \in list[j].sets
    BY <1>1, <1>4 DEF Orderly
  <2>2. j - 1 \in DOMAIN rest /\ rest[j - 1] = list[j]
    BY <1>1, <2>1
  <2> QED BY <2>1, <2>2 DEF Left
<1>5. ASSUME NEW s \in first.sets, first.op = "refine" PROVE ~Left(rest, s, "align")
  <2> SUFFICES ASSUME Left(rest, s, "align") PROVE FALSE
    OBVIOUS
  <2>1. PICK i \in 1..Len(list) - 1 : rest[i].op = "align" /\ s \in rest[i].sets
    BY <1>1 DEF Left
  <2>2. i + 1 \in DOMAIN list /\ rest[i] = list[i + 1]
    BY <1>1
  <2>3. PICK j \in DOMAIN list : i + 1 < j /\ list[j].op = "refine" /\ s \in list[j].sets
    BY <2>1, <2>2 DEF Orderly
  <2>4. s \in Sets /\ 1 \in DOMAIN list
    BY <1>1 DEF Op
  <2>5. j = 1
    BY <1>1, <1>5, <2>3, <2>4 DEF Orderly
  <2> QED BY <1>1, <2>3, <2>5
<1>6. Orderly(rest)
  <2>1. ASSUME NEW i \in DOMAIN rest, NEW j \in DOMAIN rest, rest[i].op = rest[j].op,
               rest[i].op # "sort", NEW s \in Sets, s \in rest[i].sets, s \in rest[j].sets
        PROVE  i = j
    <3>1. i + 1 \in DOMAIN list /\ rest[i] = list[i + 1] /\ j + 1 \in DOMAIN list
          /\ rest[j] = list[j + 1]
      BY <1>1
    <3>2. i + 1 = j + 1
      BY <2>1, <3>1 DEF Orderly
    <3> QED BY <1>1, <3>2
  <2>2. ASSUME NEW i \in DOMAIN rest, rest[i].op = "align", NEW s \in rest[i].sets
        PROVE  \E j \in DOMAIN rest : i < j /\ rest[j].op = "refine" /\ s \in rest[j].sets
    <3>1. i + 1 \in DOMAIN list /\ rest[i] = list[i + 1]
      BY <1>1
    <3>2. PICK j \in DOMAIN list : i + 1 < j /\ list[j].op = "refine" /\ s \in list[j].sets
      BY <2>2, <3>1 DEF Orderly
    <3>3. i < j - 1 /\ j - 1 \in DOMAIN rest /\ rest[j - 1] = list[j]
      BY <1>1, <3>2
    <3> QED BY <3>2, <3>3
  <2> QED BY <2>1, <2>2 DEF Orderly
<1>7. first \in Op /\ \A i \in DOMAIN rest : \E j \in DOMAIN list : rest[i] = list[j]
  BY <1>1
<1> QED BY <1>1, <1>2, <1>3, <1>4, <1>5, <1>6, <1>7 DEF OneStep

\* To match some sets together: one step of each kind, in order.
LEMMA MatchTogether ==
  ASSUME NEW sets \in SUBSET Sets, NEW q, q = Match(sets)
  PROVE  /\ q \in Seq(Op) /\ Len(q) = 4
         /\ q[1].op = "align" /\ q[2].op = "sort" /\ q[3].op = "sort" /\ q[4].op = "refine"
         /\ \A j \in 1..4 : q[j].sets = sets
<1>1. PICK a, b, c : /\ a = [op |-> "align", sets |-> sets]
                     /\ b = [op |-> "sort", sets |-> sets]
                     /\ c = [op |-> "refine", sets |-> sets]
  OBVIOUS
<1>2. a \in Op /\ b \in Op /\ c \in Op
  BY <1>1 DEF Op
<1>3. q = <<a, b, b, c>>
  BY <1>1 DEF Match
<1>4. q \in Seq(Op) /\ Len(q) = 4 /\ q[1] = a /\ q[2] = b /\ q[3] = b /\ q[4] = c
  BY <1>2, <1>3
<1>5. \A j \in 1..4 : j = 1 \/ j = 2 \/ j = 3 \/ j = 4
  OBVIOUS
<1> QED BY <1>1, <1>4, <1>5

\* What is to be done to a field aligns and refines each of its sets once.
LEMMA MatchSteps ==
  ASSUME NEW fd \in Fields, NEW list, list = MatchField(fd)
  PROVE  /\ list \in Seq(Op) /\ Orderly(list)
         /\ \A i \in DOMAIN list : list[i].sets \subseteq SetsOf(fd)
         /\ \A s \in SetsOf(fd) : Left(list, s, "align")
<1>0. SetsOf(fd) \in SUBSET Sets
  BY SetFacts
<1>1. CASE ~Loose(fd)
  <2>1. list = Match(SetsOf(fd))
    BY <1>1 DEF MatchField
  <2>2. /\ list \in Seq(Op) /\ DOMAIN list = 1..4
        /\ list[1].op = "align" /\ list[2].op = "sort" /\ list[3].op = "sort"
        /\ list[4].op = "refine"
        /\ \A j \in 1..4 : list[j].sets = SetsOf(fd)
    <3>1. list \in Seq(Op) /\ Len(list) = 4
      BY <1>0, <2>1, MatchTogether
    <3> QED BY <1>0, <2>1, <3>1, MatchTogether
  <2>3. \A j \in 1..4 : j = 1 \/ j = 2 \/ j = 3 \/ j = 4
    OBVIOUS
  <2>4. \A i, j \in 1..4 : list[i].op = list[j].op /\ list[i].op # "sort" => i = j
    BY <2>2, <2>3
  <2>5. \A i \in 1..4 : list[i].op = "align" => i < 4
    BY <2>2, <2>3
  <2>6. Orderly(list)
    BY <2>2, <2>4, <2>5 DEF Orderly
  <2> QED BY <2>2, <2>6 DEF Left
<1>2. CASE Loose(fd)
  <2>1. PICK seq : seq = SetSeq(fd)
    OBVIOUS
  <2>2. PICK n : n = NSetOf(fd[1], fd[2])
    OBVIOUS
  <2>3. n \in Nat /\ fd = <<fd[1], fd[2]>>
    BY <2>2, FieldFacts, ShapeFacts
  <2>4. DOMAIN seq = 1..n /\ \A i \in 1..n : seq[i] = <<fd[1], fd[2], i - 1>>
    BY <2>1, <2>2 DEF SetSeq
  <2>5. \A i \in 1..n : seq[i] \in SetsOf(fd) /\ \A k \in 1..n : seq[i] = seq[k] => i = k
    <3> SUFFICES ASSUME NEW i \in 1..n PROVE seq[i] \in SetsOf(fd) /\ \A k \in 1..n : seq[i] = seq[k] => i = k
      OBVIOUS
    <3>1. i - 1 \in 0..n - 1
      BY <2>3
    <3>2. seq[i] \in SetsOf(fd)
      BY <2>2, <2>4, <3>1 DEF SetsOf
    <3>3. ASSUME NEW k \in 1..n, seq[i] = seq[k] PROVE i = k
      <4>1. i - 1 = k - 1
        BY <2>4, <3>3
      <4> QED BY <2>3, <4>1
    <3> QED BY <3>2, <3>3
  <2>6. \A s \in SetsOf(fd) : \E i \in 1..n : seq[i] = s
    <3> SUFFICES ASSUME NEW s \in SetsOf(fd) PROVE \E i \in 1..n : seq[i] = s
      OBVIOUS
    <3>1. PICK k \in 0..n - 1 : s = <<fd[1], fd[2], k>>
      BY <2>2 DEF SetsOf
    <3>2. k + 1 \in 1..n /\ (k + 1) - 1 = k
      BY <2>3
    <3> QED BY <2>4, <3>1, <3>2
  <2>7. PICK parts : parts = [i \in 1..n |-> Match({seq[i]})]
    OBVIOUS
  <2>8. \A i \in 1..n : /\ parts[i] \in Seq(Op) /\ Len(parts[i]) = 4
                        /\ parts[i][1].op = "align" /\ parts[i][2].op = "sort"
                        /\ parts[i][3].op = "sort" /\ parts[i][4].op = "refine"
                        /\ \A j \in 1..4 : parts[i][j].sets = {seq[i]}
    <3> SUFFICES ASSUME NEW i \in 1..n
                 PROVE  /\ parts[i] \in Seq(Op) /\ Len(parts[i]) = 4
                        /\ parts[i][1].op = "align" /\ parts[i][2].op = "sort"
                        /\ parts[i][3].op = "sort" /\ parts[i][4].op = "refine"
                        /\ \A j \in 1..4 : parts[i][j].sets = {seq[i]}
      OBVIOUS
    <3>1. {seq[i]} \in SUBSET Sets /\ parts[i] = Match({seq[i]})
      BY <1>0, <2>5, <2>7
    <3> QED BY <3>1, MatchTogether
  <2>9. parts \in Seq(Seq(Op)) /\ Len(parts) = n
    <3>1. parts = [i \in 1..n |-> parts[i]]
      BY <2>7
    <3>2. \A i \in 1..n : parts[i] \in Seq(Op)
      BY <2>8
    <3>3. parts \in [1..n -> Seq(Op)]
      BY <3>1, <3>2
    <3> QED BY <2>3, <3>3
  <2>10. list = FlattenSeq(parts)
    BY <1>2, <2>1, <2>4, <2>7 DEF MatchField
  <2>11. PICK end : /\ PartEnds(parts, end) /\ list \in Seq(Op)
                    /\ Placed(parts, end, n, list)
    BY <2>9, <2>10, FlattenParts
  <2>12. end \in [0..n -> Nat]
    BY <2>9, <2>11 DEF PartEnds
  <2>13. \A p \in 1..Len(list) : \E i \in 1..n : \E j \in 1..Len(parts[i]) : p = end[i - 1] + j
    BY <2>11 DEF Placed
  <2>14. \A i \in 1..n : Len(parts[i]) = 4
    BY <2>8
  <2>15. DOMAIN list = 1..Len(list)
    BY <2>11
  <2>16. ASSUME NEW i \in 1..n, NEW j \in 1..4
         PROVE  /\ end[i - 1] \in Int /\ end[i - 1] + j \in DOMAIN list
                /\ list[end[i - 1] + j].op = parts[i][j].op
                /\ list[end[i - 1] + j].sets = {seq[i]}
    <3>1. end[i - 1] \in Int
      <4>1. i - 1 \in 0..n
        BY <2>3
      <4> QED BY <2>12, <4>1
    <3>2. end[i - 1] + j \in 1..Len(list) /\ list[end[i - 1] + j] = parts[i][j]
      BY <2>8, <2>11 DEF Placed
    <3> QED BY <2>8, <2>15, <3>1, <3>2
  <2>17. ASSUME NEW p \in DOMAIN list
         PROVE  \E i \in 1..n : \E j \in 1..4 : p = end[i - 1] + j
    <3>1. PICK i \in 1..n : \E j \in 1..Len(parts[i]) : p = end[i - 1] + j
      BY <2>13, <2>15
    <3>2. Len(parts[i]) = 4
      BY <2>14
    <3> QED BY <3>1, <3>2
  <2>18. \A j \in 1..4 : j = 1 \/ j = 2 \/ j = 3 \/ j = 4
    OBVIOUS
  <2>19. ASSUME NEW p \in DOMAIN list, NEW q \in DOMAIN list, list[p].op = list[q].op,
                list[p].op # "sort", NEW s \in Sets, s \in list[p].sets, s \in list[q].sets
         PROVE  p = q
    <3>1. PICK i \in 1..n, j \in 1..4 : p = end[i - 1] + j
      BY <2>17
    <3>2. PICK k \in 1..n, l \in 1..4 : q = end[k - 1] + l
      BY <2>17
    <3>3. seq[i] = seq[k]
      BY <2>16, <2>19, <3>1, <3>2
    <3>4. i = k
      BY <2>5, <3>3
    <3>5. parts[i][j].op = parts[i][l].op /\ parts[i][j].op # "sort"
      BY <2>16, <2>19, <3>1, <3>2, <3>4
    <3>6. j = l
      BY <2>8, <2>18, <3>5
    <3> QED BY <3>1, <3>2, <3>4, <3>6
  <2>20. ASSUME NEW p \in DOMAIN list, list[p].op = "align", NEW s \in list[p].sets
         PROVE  \E q \in DOMAIN list : p < q /\ list[q].op = "refine" /\ s \in list[q].sets
    <3>1. PICK i \in 1..n, j \in 1..4 : p = end[i - 1] + j
      BY <2>17
    <3>2. parts[i][j].op = "align"
      BY <2>16, <2>20, <3>1
    <3>3. j < 4
      BY <2>8, <2>18, <3>2
    <3>4. end[i - 1] \in Int /\ p < end[i - 1] + 4
      BY <2>16, <3>1, <3>3
    <3>5. /\ end[i - 1] + 4 \in DOMAIN list /\ list[end[i - 1] + 4].op = "refine"
          /\ list[end[i - 1] + 4].sets = list[p].sets
      <4>1. 4 \in 1..4 /\ parts[i][4].op = "refine"
        BY <2>8
      <4>2. list[p].sets = {seq[i]}
        BY <2>16, <3>1
      <4> QED BY <2>16, <4>1, <4>2
    <3> QED BY <2>20, <3>4, <3>5
  <2>21. Orderly(list)
    BY <2>19, <2>20 DEF Orderly
  <2>22. ASSUME NEW p \in DOMAIN list PROVE list[p].sets \subseteq SetsOf(fd)
    <3>1. PICK i \in 1..n, j \in 1..4 : p = end[i - 1] + j
      BY <2>17
    <3>2. list[p].sets = {seq[i]}
      BY <2>16, <3>1
    <3> QED BY <2>5, <3>2
  <2>23. ASSUME NEW s \in SetsOf(fd) PROVE Left(list, s, "align")
    <3>1. PICK i \in 1..n : seq[i] = s
      BY <2>6
    <3>2. 1 \in 1..4 /\ parts[i][1].op = "align"
      BY <2>8
    <3>3. /\ end[i - 1] + 1 \in DOMAIN list /\ list[end[i - 1] + 1].op = "align"
          /\ list[end[i - 1] + 1].sets = {seq[i]}
      BY <2>16, <3>2
    <3> QED BY <3>1, <3>3 DEF Left
  <2> QED BY <2>11, <2>21, <2>22, <2>23
<1> QED BY <1>1, <1>2

---------------------------------------------------------------------------
(* The fields are shown in their order *)

\* A cursor is behind the last group exactly when it has passed all fields.
LEMMA CursorPlaces ==
  ASSUME NEW n \in 0..Len(FieldSeq)
  PROVE  /\ FieldAt(n)[1] = NGroup <=> n = Len(FieldSeq)
         /\ FieldAt(n)[1] >= NGroup <=> n = Len(FieldSeq)
         /\ n < Len(FieldSeq) => n + 1 \in 1..Len(FieldSeq) /\ FieldAt(n) = FieldSeq[n + 1]
                                 /\ FieldAt(n) \in Fields
         /\ FieldAt(n) = <<FieldAt(n)[1], FieldAt(n)[2]>>
<1>1. FieldSeq \in Seq(Fields) /\ Len(FieldSeq) \in Nat /\ NGroup \in Nat
  BY FieldOrder, ShapeFacts
<1>2. CASE n < Len(FieldSeq)
  <2>1. n + 1 \in 1..Len(FieldSeq) /\ FieldAt(n) = FieldSeq[n + 1]
    BY <1>1, <1>2 DEF FieldAt
  <2>2. FieldAt(n) \in Fields
    BY <1>1, <2>1
  <2>3. FieldAt(n) = <<FieldAt(n)[1], FieldAt(n)[2]>> /\ FieldAt(n)[1] \in 0..NGroup - 1
    BY <2>2, FieldFacts
  <2> QED BY <1>1, <1>2, <2>1, <2>2, <2>3
<1>3. CASE n = Len(FieldSeq)
  <2>1. FieldAt(n) = <<NGroup, 0>>
    BY <1>1, <1>3 DEF FieldAt
  <2> QED BY <1>1, <1>3, <2>1
<1> QED BY <1>1, <1>2, <1>3

\* The first n fields are done and shown, and the next one is not done.
ShownTo(n) == /\ <<gview, fview>> = FieldAt(n) /\ shown = SubSeq(FieldSeq, 1, n)
              /\ \A i \in 1..n : fviewflag[FieldSeq[i]]
              /\ n < Len(FieldSeq) => ~fviewflag[FieldSeq[n + 1]]

\* A worker that reports shows the fields up to the first one that is not
\* done; the fields that are not taken are not done.
LEMMA ViewShows ==
  ASSUME NEW m \in 0..Len(FieldSeq), NEW n \in 0..m, ShownTo(n), NEW w \in Workers, View(w),
         \A i \in 1..Len(FieldSeq) : fviewflag[FieldSeq[i]] \/ FieldSeq[i] = matching[w] => i <= m
  PROVE  /\ fviewflag' = [fd \in Fields |-> fviewflag[fd] \/ fd = matching[w]]
         /\ \E k \in n..m : ShownTo(k)'
<1>1. /\ <<gview, fview>> = FieldAt(n) /\ shown = SubSeq(FieldSeq, 1, n)
      /\ \A i \in 1..n : fviewflag[FieldSeq[i]]
  BY DEF ShownTo
<1> DEFINE flag == [fd \in Fields |-> fviewflag[fd] \/ fd = matching[w]]
           from == IF gview = NGroup THEN Len(FieldSeq)
                   ELSE CHOOSE i \in 0..Len(FieldSeq) - 1 : FieldSeq[i + 1] = <<gview, fview>>
           to == CHOOSE k \in from..Len(FieldSeq) :
                     /\ \A i \in from + 1..k : flag[FieldSeq[i]]
                     /\ k < Len(FieldSeq) => ~flag[FieldSeq[k + 1]]
           next == IF to = Len(FieldSeq) THEN <<NGroup, 0>> ELSE FieldSeq[to + 1]
<1>2. /\ fviewflag' = flag /\ shown' = shown \o SubSeq(FieldSeq, from + 1, to)
      /\ gview' = next[1] /\ fview' = next[2]
  BY Zenon DEF View
<1>3. PICK N \in Nat : N = Len(FieldSeq)
  BY FieldOrder
<1>4. m \in Nat /\ n \in Nat /\ n <= m /\ m <= N /\ n \in 0..N /\ FieldSeq \in Seq(Fields)
      /\ \A i \in 1..N : FieldSeq[i] \in Fields
  <2>1. FieldSeq \in Seq(Fields)
    BY FieldOrder
  <2>2. \A i \in 1..N : FieldSeq[i] \in Fields
    BY <1>3, <2>1, ElementOfSeq
  <2> QED BY <1>3, <2>1, <2>2
<1>5. flag = [fd \in Fields |-> fviewflag[fd] \/ fd = matching[w]]
  OBVIOUS
<1>6. from = IF gview = NGroup THEN N
             ELSE CHOOSE i \in 0..N - 1 : FieldSeq[i + 1] = <<gview, fview>>
  BY <1>3
<1> HIDE DEF from, flag
<1>7. from = n
  <2>1. gview = NGroup <=> n = N
    <3>1. FieldAt(n)[1] = gview
      <4>1. <<gview, fview>>[1] = gview
        OBVIOUS
      <4> QED BY <1>1, <4>1
    <3> QED BY <1>1, <1>3, <1>4, <3>1, CursorPlaces
  <2>2. CASE n = N
    BY <1>6, <2>1, <2>2
  <2>3. CASE n # N
    <3>1. n < N /\ n \in 0..N - 1
      BY <1>4, <2>3
    <3>2. n + 1 \in 1..N /\ FieldSeq[n + 1] = <<gview, fview>>
      BY <1>1, <1>3, <1>4, <3>1, CursorPlaces
    <3>3. ASSUME NEW i \in 0..N - 1, FieldSeq[i + 1] = <<gview, fview>> PROVE i = n
      <4>1. i + 1 \in 1..N
        BY <1>3
      <4>2. i + 1 = n + 1
        BY <1>3, <3>2, <3>3, <4>1, FieldOrder
      <4> QED BY <1>4, <4>2
    <3>4. from = CHOOSE i \in 0..N - 1 : FieldSeq[i + 1] = <<gview, fview>>
      <4>1. ~(gview = NGroup)
        BY <2>1, <2>3
      <4> QED BY <1>6, <4>1, Zenon
    <3> QED BY <3>1, <3>2, <3>3, <3>4
  <2> QED BY <2>2, <2>3
<1>8. to = CHOOSE k \in n..N : /\ \A i \in n + 1..k : flag[FieldSeq[i]]
                               /\ k < N => ~flag[FieldSeq[k + 1]]
  BY <1>3, <1>7
<1> HIDE DEF to
<1>9. next = IF to = N THEN <<NGroup, 0>> ELSE FieldSeq[to + 1]
  BY <1>3
<1> HIDE DEF next
<1>10. /\ to \in n..N
       /\ \A i \in n + 1..to : flag[FieldSeq[i]]
       /\ to < N => ~flag[FieldSeq[to + 1]]
  <2>1. PICK S : S = {k \in n..N : k < N => ~flag[FieldSeq[k + 1]]}
    OBVIOUS
  <2>2. S \subseteq Nat /\ N \in S
    BY <1>4, <2>1
  <2>3. PICK k \in S : \A j \in S : k <= j
    BY <2>2, LeastElement
  <2>4. ASSUME NEW i \in n + 1..k PROVE flag[FieldSeq[i]]
    <3>1. k \in n..N
      BY <2>1
    <3>2. i - 1 \in n..N /\ i - 1 < N /\ ~(k <= i - 1) /\ (i - 1) + 1 = i
      BY <1>4, <3>1
    <3>3. i - 1 \notin S
      BY <2>3, <3>2
    <3> QED BY <2>1, <3>2, <3>3
  <2>5. k \in n..N /\ (k < N => ~flag[FieldSeq[k + 1]])
    BY <2>1
  <2>6. \E x \in n..N : /\ \A i \in n + 1..x : flag[FieldSeq[i]]
                        /\ x < N => ~flag[FieldSeq[x + 1]]
    BY <2>4, <2>5
  <2> QED BY <1>8, <2>6
<1>11. \A i \in 1..to : flag[FieldSeq[i]]
  <2> SUFFICES ASSUME NEW i \in 1..to PROVE flag[FieldSeq[i]]
    OBVIOUS
  <2>1. CASE i <= n
    <3>1. i \in 1..n /\ i \in 1..N
      BY <1>4, <1>10, <2>1
    <3> QED BY <1>1, <1>4, <1>5, <3>1
  <2>2. CASE ~(i <= n)
    <3>1. i \in n + 1..to
      BY <1>4, <1>10, <2>2
    <3> QED BY <1>10, <3>1
  <2> QED BY <2>1, <2>2
<1>12. to \in n..m
  <2>1. CASE to = n
    BY <1>4, <2>1
  <2>2. CASE to # n
    <3>1. to \in n + 1..to /\ to \in 1..N
      BY <1>4, <1>10, <2>2
    <3>2. fviewflag[FieldSeq[to]] \/ FieldSeq[to] = matching[w]
      <4>1. flag[FieldSeq[to]] /\ FieldSeq[to] \in Fields
        BY <1>4, <1>11, <3>1
      <4> QED BY <1>5, <4>1
    <3> QED BY <1>3, <1>4, <1>10, <3>1, <3>2
  <2> QED BY <2>1, <2>2
<1>13. to \in 0..N
  BY <1>4, <1>10
<1>14. next = FieldAt(to) /\ <<gview', fview'>> = FieldAt(to)
  <2>1. next = FieldAt(to)
    BY <1>3, <1>9, <1>13 DEF FieldAt
  <2> QED BY <1>3, <1>2, <1>13, <2>1, CursorPlaces
<1>15. shown' = SubSeq(FieldSeq, 1, to)
  <2>1. shown' = SubSeq(FieldSeq, 1, n) \o SubSeq(FieldSeq, n + 1, to)
    BY <1>1, <1>2, <1>7
  <2>2. /\ 1 \in 1..Len(FieldSeq) + 1 /\ n \in 1 - 1..Len(FieldSeq)
        /\ to \in n..Len(FieldSeq)
    BY <1>3, <1>4, <1>10
  <2> QED BY <1>4, <2>1, <2>2, ConcatAdjacentSubSeq
<1>16. PICK k \in n..m : k = to
  BY <1>12
<1>17. ShownTo(k)'
  <2>1. \A i \in 1..to : fviewflag'[FieldSeq[i]]
    BY <1>2, <1>11
  <2>2. to < Len(FieldSeq) => ~fviewflag'[FieldSeq[to + 1]]
    BY <1>2, <1>3, <1>10
  <2> QED BY <1>14, <1>15, <1>16, <2>1, <2>2 DEF ShownTo
<1> QED BY <1>2, <1>5, <1>17

---------------------------------------------------------------------------
(* The fields are taken, matched and shown *)

\* The cursors are behind the first m and the first n fields, and n are shown.
Cursors(m, n) == /\ m \in 0..Len(FieldSeq) /\ n \in 0..m
                 /\ <<gnext, fnext>> = FieldAt(m) /\ ShownTo(n)

MatchTypes == /\ fviewflag \in [Fields -> BOOLEAN]
              /\ matching \in [Workers -> Fields \cup {NoField}]
              /\ mtodo \in [Workers -> Seq(Op)]
              /\ \A w \in Workers : \A i \in DOMAIN mtodo[w] :
                    mtodo[w][i].sets \subseteq SetsOf(matching[w])

Unmatched == /\ fviewflag = [fd \in Fields |-> FALSE]
             /\ matching = [w \in Workers |-> NoField]
             /\ mtodo = [w \in Workers |-> <<>>]

WorksOn(w, fd) == pc[w] = "work" /\ matching[w] = fd

\* What a worker has done to a set of its field.
Reached(list, s) == IF Left(list, s, "align") THEN <<>>
                    ELSE IF Left(list, s, "refine") THEN <<"align">> ELSE <<"align", "refine">>

\* The first m fields were taken, each by one worker, who flags it later.  A
\* worker who has found none left has flagged its own.
MatchTurns(m) ==
    /\ \A i \in 1..Len(FieldSeq) : fviewflag[FieldSeq[i]] =>
          i <= m /\ \A w \in Workers : ~WorksOn(w, FieldSeq[i])
    /\ \A i \in 1..m : ~fviewflag[FieldSeq[i]] =>
          \E w \in Workers : matching[w] = FieldSeq[i] /\ ~Behind(w)
    /\ \A w \in Workers : /\ matching[w] # NoField => \E i \in 1..m : matching[w] = FieldSeq[i]
                          /\ IF pc[w] = "work" THEN matching[w] # NoField /\ Orderly(mtodo[w])
                             ELSE mtodo[w] = <<>>
                          /\ Behind(w) => m = Len(FieldSeq)
    /\ \A v, w \in Workers : v # w /\ matching[v] = matching[w] => matching[v] = NoField

\* The calibrations of the sets of a field follow the turn of its worker.
MatchWcs(m) ==
    /\ DOMAIN wcs = Sets
    /\ \A i \in 1..Len(FieldSeq) : \A s \in SetsOf(FieldSeq[i]) :
          /\ i > m => wcs[s] = MosaicCalls(s)
          /\ i <= m /\ (\A w \in Workers : ~WorksOn(w, FieldSeq[i]))
             => wcs[s] = MosaicCalls(s) \o <<"align", "refine">>
          /\ \A w \in Workers : WorksOn(w, FieldSeq[i])
             => wcs[s] = MosaicCalls(s) \o Reached(mtodo[w], s)

Matching(m, n) == Cursors(m, n) /\ MatchTurns(m) /\ MatchWcs(m)

LEMMA SetsOfField ==
  ASSUME NEW i \in 1..Len(FieldSeq)
  PROVE  FieldSeq[i] \in Fields /\ FieldSeq[i] # NoField
         /\ \A s \in SetsOf(FieldSeq[i]) : s \in Sets /\ FieldOf(s) = FieldSeq[i]
<1>1. FieldSeq[i] \in Fields
  BY FieldOrder, ElementOfSeq
<1>2. FieldSeq[i] # NoField
  <2>1. FieldSeq[i][1] \in Nat
    BY <1>1, FieldFacts
  <2> QED BY <2>1 DEF NoField
<1> QED BY <1>1, <1>2, SetFacts

LEMMA SameCalls ==
  ASSUME prefs' = prefs
  PROVE  MatchCalls' = MatchCalls /\ \A s : MosaicCalls(s)' = MosaicCalls(s)
BY DEF MatchCalls, MosaicCalls, MosaicType

\* A step that leaves the fields and the workers at their places.
LEMMA SameMatching ==
  ASSUME NEW m, NEW n, Matching(m, n), UNCHANGED <<wcs, prefs>>,
         UNCHANGED <<gnext, fnext, gview, fview, fviewflag, matching, mtodo, shown>>,
         \A w \in Workers : /\ pc'[w] = "work" <=> pc[w] = "work"
                            /\ Behind(w)' <=> Behind(w)
  PROVE  Matching(m, n)'
<1>1. Cursors(m, n)'
  BY DEF Matching, Cursors, ShownTo
<1>2. \A w \in Workers : \A fd : WorksOn(w, fd)' <=> WorksOn(w, fd)
  BY DEF WorksOn
<1>3. MatchTurns(m)'
  BY <1>2 DEF Matching, MatchTurns
<1>4. \A w \in Workers, s \in Sets : Reached(mtodo[w], s)' = Reached(mtodo[w], s)
  BY DEF Reached, Left
<1>5. MatchWcs(m)'
  <2>1. /\ DOMAIN wcs = Sets
        /\ \A i \in 1..Len(FieldSeq) : \A s \in SetsOf(FieldSeq[i]) :
              /\ i > m => wcs[s] = MosaicCalls(s)
              /\ i <= m /\ (\A w \in Workers : ~WorksOn(w, FieldSeq[i]))
                 => wcs[s] = MosaicCalls(s) \o <<"align", "refine">>
              /\ \A w \in Workers : WorksOn(w, FieldSeq[i])
                 => wcs[s] = MosaicCalls(s) \o Reached(mtodo[w], s)
    BY DEF Matching, MatchWcs
  <2> QED BY <1>2, <1>4, <2>1, SameCalls, SetsOfField DEF MatchWcs
<1> QED BY <1>1, <1>3, <1>5 DEF Matching

LEMMA CallsSeq == \A s : MosaicCalls(s) \in Seq(Calibrations)
<1> SUFFICES ASSUME NEW s PROVE MosaicCalls(s) \in Seq(Calibrations)
  OBVIOUS
<1>1. /\ "samecrval" \in Calibrations /\ "recentre" \in Calibrations
      /\ "adjust" \in Calibrations
  BY DEF Calibrations
<1>2. \/ MosaicCalls(s) = <<>> \/ MosaicCalls(s) = <<"samecrval">>
      \/ MosaicCalls(s) = <<"recentre", "adjust">> \/ MosaicCalls(s) = <<"recentre">>
  BY DEF MosaicCalls
<1>3. /\ <<>> \in Seq(Calibrations) /\ <<"samecrval">> \in Seq(Calibrations)
      /\ <<"recentre">> \in Seq(Calibrations)
  BY <1>1
<1>4. <<"recentre", "adjust">> \in Seq(Calibrations)
  BY <1>1
<1> QED BY <1>2, <1>3, <1>4

\* What the report of a worker shows; whoever else has a field that is not
\* done still works on it.
LEMMA FieldReported ==
  ASSUME MatchTypes, NEW m, NEW n, Matching(m, n), NEW w \in Workers, pc[w] = "section", View(w)
  PROVE  /\ fviewflag' \in [Fields -> BOOLEAN]
         /\ \E k \in n..m : ShownTo(k)'
         /\ \A i \in 1..Len(FieldSeq) : fviewflag'[FieldSeq[i]] =>
               i <= m /\ \A v \in Workers : ~WorksOn(v, FieldSeq[i])
         /\ \A i \in 1..m : ~fviewflag'[FieldSeq[i]] =>
               \E v \in Workers \ {w} : matching[v] = FieldSeq[i] /\ ~Behind(v)
<1>1. m \in 0..Len(FieldSeq) /\ n \in 0..m /\ Len(FieldSeq) \in Nat
  BY FieldOrder DEF Matching, Cursors
<1>2. ShownTo(n)
  BY DEF Matching, Cursors
<1>3. ASSUME NEW i \in 1..Len(FieldSeq), fviewflag[FieldSeq[i]] \/ FieldSeq[i] = matching[w]
      PROVE  i <= m
  <2>1. CASE fviewflag[FieldSeq[i]]
    BY <2>1 DEF Matching, MatchTurns
  <2>2. CASE FieldSeq[i] = matching[w]
    <3>1. matching[w] # NoField
      BY <2>2, SetsOfField
    <3>2. PICK j \in 1..m : matching[w] = FieldSeq[j]
      BY <3>1 DEF Matching, MatchTurns
    <3>3. j \in 1..Len(FieldSeq)
      BY <1>1
    <3>4. i = j
      BY <2>2, <3>2, <3>3, FieldOrder
    <3> QED BY <1>1, <3>4
  <2> QED BY <1>3, <2>1, <2>2
<1>4. /\ fviewflag' = [fd \in Fields |-> fviewflag[fd] \/ fd = matching[w]]
      /\ \E k \in n..m : ShownTo(k)'
  <2>1. \A i \in 1..Len(FieldSeq) : fviewflag[FieldSeq[i]] \/ FieldSeq[i] = matching[w] => i <= m
    BY <1>3
  <2> QED BY <1>1, <1>2, <2>1, ViewShows
<1>5. \A i \in 1..Len(FieldSeq) : fviewflag'[FieldSeq[i]] <=>
                                  fviewflag[FieldSeq[i]] \/ FieldSeq[i] = matching[w]
  BY <1>4, SetsOfField
<1>6. ASSUME NEW i \in 1..Len(FieldSeq), fviewflag'[FieldSeq[i]]
      PROVE  i <= m /\ \A v \in Workers : ~WorksOn(v, FieldSeq[i])
  <2>1. i <= m
    BY <1>3, <1>5, <1>6
  <2>2. CASE fviewflag[FieldSeq[i]]
    BY <2>1, <2>2 DEF Matching, MatchTurns
  <2>3. CASE FieldSeq[i] = matching[w]
    <3>1. FieldSeq[i] # NoField
      BY SetsOfField
    <3>2. \A v \in Workers \ {w} : matching[v] # FieldSeq[i]
      BY <2>3, <3>1 DEF Matching, MatchTurns
    <3> QED BY <2>1, <3>2 DEF WorksOn
  <2> QED BY <1>5, <1>6, <2>2, <2>3
<1>7. ASSUME NEW i \in 1..m, ~fviewflag'[FieldSeq[i]]
      PROVE  \E v \in Workers \ {w} : matching[v] = FieldSeq[i] /\ ~Behind(v)
  <2>1. i \in 1..Len(FieldSeq)
    BY <1>1
  <2>2. ~fviewflag[FieldSeq[i]] /\ FieldSeq[i] # matching[w]
    BY <1>5, <1>7, <2>1
  <2>3. PICK v \in Workers : matching[v] = FieldSeq[i] /\ ~Behind(v)
    BY <2>2 DEF Matching, MatchTurns
  <2> QED BY <2>2, <2>3
<1>8. fviewflag' \in [Fields -> BOOLEAN]
  BY <1>4 DEF MatchTypes
<1> QED BY <1>4, <1>6, <1>7, <1>8

LEMMA TakeMatching ==
  ASSUME PoolInv, MatchTypes, NEW m, NEW n, Matching(m, n), NEW w \in Workers, TakeField(w),
         prefs' = prefs
  PROVE  MatchTypes' /\ \E k \in n..m : Matching(m + 1, k)'
<1>1. /\ pc[w] = "section" /\ gnext < NGroup /\ View(w)
      /\ matching' = [matching EXCEPT ![w] = <<gnext, fnext>>]
      /\ gnext' = NextField(<<gnext, fnext>>)[1] /\ fnext' = NextField(<<gnext, fnext>>)[2]
      /\ mtodo' = [mtodo EXCEPT ![w] = MatchField(<<gnext, fnext>>)]
      /\ Goto(w, "work") /\ UNCHANGED <<gateVars, endflag, wcs>>
  BY DEF TakeField
<1>2. /\ pc'[w] = "work" /\ \A v \in Workers \ {w} : pc'[v] = pc[v]
      /\ ~Behind(w)' /\ \A v \in Workers \ {w} : Behind(v)' <=> Behind(v)
  BY <1>1, TurnSteps
<1>3. /\ m \in 0..Len(FieldSeq) /\ n \in 0..m /\ Len(FieldSeq) \in Nat
      /\ <<gnext, fnext>> = FieldAt(m) /\ gnext \in Int /\ NGroup \in Nat
  <2>1. m \in 0..Len(FieldSeq) /\ n \in 0..m /\ <<gnext, fnext>> = FieldAt(m)
    BY DEF Matching, Cursors
  <2>2. Len(FieldSeq) \in Nat /\ NGroup \in Nat
    BY FieldOrder, ShapeFacts
  <2>3. gnext \in Int
    <3>1. gnext = FieldAt(m)[1]
      <4>1. <<gnext, fnext>>[1] = gnext
        OBVIOUS
      <4> QED BY <2>1, <4>1
    <3>2. CASE m < Len(FieldSeq)
      <4>1. FieldAt(m) \in Fields
        BY <2>1, <3>2, CursorPlaces
      <4> QED BY <3>1, <4>1, FieldFacts
    <3>3. CASE ~(m < Len(FieldSeq))
      <4>1. m = Len(FieldSeq)
        BY <2>1, <2>2, <3>3
      <4> QED BY <2>1, <2>2, <3>1, <4>1, CursorPlaces
    <3> QED BY <3>2, <3>3
  <2> QED BY <2>1, <2>2, <2>3
<1>4. m < Len(FieldSeq) /\ m + 1 \in 1..Len(FieldSeq)
  <2>1. gnext = FieldAt(m)[1]
    <3>1. <<gnext, fnext>>[1] = gnext
      OBVIOUS
    <3> QED BY <1>3, <3>1
  <2>2. m # Len(FieldSeq)
    BY <1>1, <1>3, <2>1, CursorPlaces
  <2> QED BY <1>3, <2>2
<1>5. PICK fd \in Fields : fd = <<gnext, fnext>> /\ fd = FieldSeq[m + 1] /\ fd # NoField
  BY <1>3, <1>4, CursorPlaces, SetsOfField
<1>6. <<gnext', fnext'>> = FieldAt(m + 1)
  <2>1. m \in 0..Len(FieldSeq) - 1 /\ m + 1 \in 0..Len(FieldSeq)
    BY <1>3, <1>4
  <2>2. FieldAt(m + 1) = NextField(<<gnext, fnext>>)
    BY <1>3, <2>1, FieldOrder
  <2> QED BY <1>1, <2>1, <2>2, CursorPlaces
<1>7. PICK list : list = MatchField(fd)
  OBVIOUS
<1>8. /\ list \in Seq(Op) /\ Orderly(list)
      /\ \A i \in DOMAIN list : list[i].sets \subseteq SetsOf(fd)
      /\ \A s \in SetsOf(fd) : Left(list, s, "align")
  BY <1>7, MatchSteps
<1>9. /\ matching'[w] = fd /\ mtodo'[w] = list
      /\ \A v \in Workers \ {w} : matching'[v] = matching[v] /\ mtodo'[v] = mtodo[v]
  BY <1>1, <1>5, <1>7 DEF MatchTypes
<1>10. PICK k \in n..m : ShownTo(k)'
  BY <1>1, FieldReported
<1>11. MatchTypes'
  <2>1. fviewflag' \in [Fields -> BOOLEAN]
    BY <1>1, FieldReported
  <2>2. matching' \in [Workers -> Fields \cup {NoField}] /\ mtodo' \in [Workers -> Seq(Op)]
    BY <1>1, <1>5, <1>7, <1>8 DEF MatchTypes
  <2>3. \A v \in Workers : \A i \in DOMAIN mtodo'[v] : mtodo'[v][i].sets \subseteq SetsOf(matching'[v])
    BY <1>8, <1>9 DEF MatchTypes
  <2> QED BY <2>1, <2>2, <2>3 DEF MatchTypes
<1>12. Cursors(m + 1, k)'
  <2>1. m + 1 \in 0..Len(FieldSeq) /\ k \in 0..m + 1
    BY <1>3, <1>4
  <2> QED BY <1>6, <1>10, <2>1 DEF Cursors
<1>13. \A v \in Workers : \A i \in 1..Len(FieldSeq) :
          WorksOn(v, FieldSeq[i])' <=> IF v = w THEN i = m + 1 ELSE WorksOn(v, FieldSeq[i])
  <2> SUFFICES ASSUME NEW v \in Workers, NEW i \in 1..Len(FieldSeq)
               PROVE  WorksOn(v, FieldSeq[i])' <=> IF v = w THEN i = m + 1 ELSE WorksOn(v, FieldSeq[i])
    OBVIOUS
  <2>1. FieldSeq[i] = fd <=> i = m + 1
    BY <1>4, <1>5, FieldOrder
  <2>2. WorksOn(v, FieldSeq[i])' <=> pc'[v] = "work" /\ matching'[v] = FieldSeq[i]
    BY DEF WorksOn
  <2>3. CASE v = w
    BY <1>2, <1>9, <2>1, <2>2, <2>3
  <2>4. CASE v # w
    BY <1>2, <1>9, <2>2, <2>4 DEF WorksOn
  <2> QED BY <2>3, <2>4
<1>14. \A i \in 1..m : i \in 1..Len(FieldSeq) /\ i \in 1..m + 1 /\ FieldSeq[i] # fd
  <2> SUFFICES ASSUME NEW i \in 1..m
               PROVE  i \in 1..Len(FieldSeq) /\ i \in 1..m + 1 /\ FieldSeq[i] # fd
    OBVIOUS
  <2>1. i \in 1..Len(FieldSeq) /\ i \in 1..m + 1 /\ i # m + 1
    BY <1>3
  <2> QED BY <1>4, <1>5, <2>1, FieldOrder
<1>15. MatchTurns(m + 1)'
  <2>1. \A i \in 1..Len(FieldSeq) : fviewflag'[FieldSeq[i]] =>
           i <= m + 1 /\ \A v \in Workers : ~WorksOn(v, FieldSeq[i])'
    <3> SUFFICES ASSUME NEW i \in 1..Len(FieldSeq), fviewflag'[FieldSeq[i]]
                 PROVE  i <= m + 1 /\ \A v \in Workers : ~WorksOn(v, FieldSeq[i])'
      OBVIOUS
    <3>1. i <= m /\ \A v \in Workers : ~WorksOn(v, FieldSeq[i])
      BY <1>1, FieldReported
    <3>2. i <= m + 1 /\ i # m + 1
      BY <1>3, <3>1
    <3> QED BY <1>13, <3>1, <3>2
  <2>2. \A i \in 1..m + 1 : ~fviewflag'[FieldSeq[i]] =>
           \E v \in Workers : matching'[v] = FieldSeq[i] /\ ~Behind(v)'
    <3> SUFFICES ASSUME NEW i \in 1..m + 1, ~fviewflag'[FieldSeq[i]]
                 PROVE  \E v \in Workers : matching'[v] = FieldSeq[i] /\ ~Behind(v)'
      OBVIOUS
    <3>1. CASE i = m + 1
      BY <1>2, <1>5, <1>9, <3>1
    <3>2. CASE i # m + 1
      <4>1. i \in 1..m
        BY <1>3, <3>2
      <4>2. PICK v \in Workers \ {w} : matching[v] = FieldSeq[i] /\ ~Behind(v)
        BY <1>1, <4>1, FieldReported
      <4> QED BY <1>2, <1>9, <4>2
    <3> QED BY <3>1, <3>2
  <2>3. ASSUME NEW v \in Workers
        PROVE  /\ matching'[v] # NoField => \E i \in 1..m + 1 : matching'[v] = FieldSeq[i]
               /\ IF pc'[v] = "work" THEN matching'[v] # NoField /\ Orderly(mtodo'[v])
                  ELSE mtodo'[v] = <<>>
               /\ Behind(v)' => m + 1 = Len(FieldSeq)
    <3>1. CASE v = w
      <4>1. m + 1 \in 1..m + 1
        BY <1>3
      <4> QED BY <1>2, <1>5, <1>8, <1>9, <3>1, <4>1
    <3>2. CASE v # w
      <4>1. /\ matching[v] # NoField => \E i \in 1..m : matching[v] = FieldSeq[i]
            /\ IF pc[v] = "work" THEN matching[v] # NoField /\ Orderly(mtodo[v])
               ELSE mtodo[v] = <<>>
            /\ Behind(v) => m = Len(FieldSeq)
        BY DEF Matching, MatchTurns
      <4> QED BY <1>2, <1>3, <1>4, <1>9, <1>14, <3>2, <4>1
    <3> QED BY <3>1, <3>2
  <2>4. ASSUME NEW v \in Workers \ {w}
        PROVE  /\ matching'[v] # matching'[w]
               /\ \A u \in Workers \ {w} : u # v /\ matching'[u] = matching'[v] => matching'[u] = NoField
    <3>1. matching[v] # NoField => \E i \in 1..m : matching[v] = FieldSeq[i]
      BY DEF Matching, MatchTurns
    <3>2. matching[v] # fd
      BY <1>5, <1>14, <3>1
    <3> QED BY <1>9, <3>2 DEF Matching, MatchTurns
  <2>5. \A u, v \in Workers : u # v /\ matching'[u] = matching'[v] => matching'[u] = NoField
    BY <2>4
  <2> QED BY <2>1, <2>2, <2>3, <2>5 DEF MatchTurns
<1>16. MatchWcs(m + 1)'
  <2>1. ASSUME NEW i \in 1..Len(FieldSeq), NEW s \in SetsOf(FieldSeq[i])
        PROVE  /\ i > m + 1 => wcs[s] = MosaicCalls(s)
               /\ i <= m + 1 /\ (\A v \in Workers : ~WorksOn(v, FieldSeq[i])')
                  => wcs[s] = MosaicCalls(s) \o <<"align", "refine">>
               /\ \A v \in Workers : WorksOn(v, FieldSeq[i])'
                  => wcs[s] = MosaicCalls(s) \o Reached(mtodo'[v], s)
    <3>1. /\ i > m => wcs[s] = MosaicCalls(s)
          /\ i <= m /\ (\A v \in Workers : ~WorksOn(v, FieldSeq[i]))
             => wcs[s] = MosaicCalls(s) \o <<"align", "refine">>
          /\ \A v \in Workers : WorksOn(v, FieldSeq[i])
             => wcs[s] = MosaicCalls(s) \o Reached(mtodo[v], s)
      BY DEF Matching, MatchWcs
    <3>2. CASE i = m + 1
      <4>1. Reached(list, s) = <<>>
        BY <1>5, <1>8, <3>2 DEF Reached
      <4>2. wcs[s] = MosaicCalls(s) \o <<>>
        <5>1. wcs[s] = MosaicCalls(s)
          BY <1>3, <3>1, <3>2
        <5> QED BY <5>1, CallsSeq, ConcatEmptySeq
      <4>3. \A v \in Workers \ {w} : ~WorksOn(v, FieldSeq[i])
        <5>1. \A v \in Workers : matching[v] # NoField => \E j \in 1..m : matching[v] = FieldSeq[j]
          BY DEF Matching, MatchTurns
        <5> QED BY <1>5, <1>14, <3>2, <5>1 DEF WorksOn
      <4>4. WorksOn(w, FieldSeq[i])'
        BY <1>13, <3>2
      <4>5. ~(m + 1 > m + 1)
        BY <1>3
      <4> QED BY <1>9, <1>13, <3>2, <4>1, <4>2, <4>3, <4>4, <4>5
    <3>3. CASE i # m + 1
      <4>1. (i > m + 1 => i > m) /\ (i <= m + 1 => i <= m)
        BY <1>3, <3>3
      <4>2. ~WorksOn(w, FieldSeq[i]) /\ ~WorksOn(w, FieldSeq[i])'
        BY <1>1, <1>13, <3>3 DEF WorksOn
      <4>3. \A v \in Workers \ {w} : WorksOn(v, FieldSeq[i])' <=> WorksOn(v, FieldSeq[i])
        BY <1>13
      <4> QED BY <1>9, <3>1, <4>1, <4>2, <4>3
    <3> QED BY <3>2, <3>3
  <2>2. DOMAIN wcs' = Sets /\ wcs' = wcs
    BY <1>1 DEF Matching, MatchWcs
  <2>3. \A v \in Workers, s \in Sets : Reached(mtodo[v], s)' = Reached(mtodo'[v], s)
    BY DEF Reached, Left
  <2> QED BY <2>1, <2>2, <2>3, SameCalls, SetsOfField DEF MatchWcs
<1> QED BY <1>11, <1>12, <1>15, <1>16 DEF Matching

LEMMA NoneLeftMatching ==
  ASSUME PoolInv, MatchTypes, NEW m, NEW n, Matching(m, n), NEW w \in Workers, NoFieldLeft(w),
         prefs' = prefs
  PROVE  MatchTypes' /\ \E k \in n..m : Matching(m, k)'
<1>1. /\ pc[w] = "section" /\ gnext >= NGroup /\ View(w) /\ Goto(w, "stop")
      /\ UNCHANGED <<gateVars, endflag, wcs, gnext, fnext, matching, mtodo>>
  BY DEF NoFieldLeft
<1>2. /\ pc'[w] = "stop" /\ \A v \in Workers \ {w} : pc'[v] = pc[v]
      /\ \A v \in Workers \ {w} : Behind(v)' <=> Behind(v)
  BY <1>1, TurnSteps
<1>3. /\ m \in 0..Len(FieldSeq) /\ n \in 0..m /\ <<gnext, fnext>> = FieldAt(m)
      /\ Len(FieldSeq) \in Nat
  BY FieldOrder DEF Matching, Cursors
<1>4. m = Len(FieldSeq)
  <2>1. gnext = FieldAt(m)[1]
    <3>1. <<gnext, fnext>>[1] = gnext
      OBVIOUS
    <3> QED BY <1>3, <3>1
  <2> QED BY <1>1, <1>3, <2>1, CursorPlaces
<1>5. PICK k \in n..m : ShownTo(k)'
  BY <1>1, FieldReported
<1>6. MatchTypes'
  BY <1>1, FieldReported DEF MatchTypes
<1>7. Cursors(m, k)'
  <2>1. k \in 0..m
    BY <1>3
  <2> QED BY <1>1, <1>3, <1>5, <2>1 DEF Cursors
<1>8. \A v \in Workers : \A fd : WorksOn(v, fd)' <=> WorksOn(v, fd)
  BY <1>1, <1>2 DEF WorksOn
<1>9. MatchTurns(m)'
  <2>1. \A i \in 1..Len(FieldSeq) : fviewflag'[FieldSeq[i]] =>
           i <= m /\ \A v \in Workers : ~WorksOn(v, FieldSeq[i])'
    BY <1>1, <1>8, FieldReported
  <2>2. ASSUME NEW i \in 1..m, ~fviewflag'[FieldSeq[i]]
        PROVE  \E v \in Workers : matching'[v] = FieldSeq[i] /\ ~Behind(v)'
    <3>1. PICK v \in Workers \ {w} : matching[v] = FieldSeq[i] /\ ~Behind(v)
      BY <1>1, <2>2, FieldReported
    <3> QED BY <1>1, <1>2, <3>1
  <2>3. ASSUME NEW v \in Workers
        PROVE  /\ matching'[v] # NoField => \E i \in 1..m : matching'[v] = FieldSeq[i]
               /\ IF pc'[v] = "work" THEN matching'[v] # NoField /\ Orderly(mtodo'[v])
                  ELSE mtodo'[v] = <<>>
               /\ Behind(v)' => m = Len(FieldSeq)
    <3>1. /\ matching[v] # NoField => \E i \in 1..m : matching[v] = FieldSeq[i]
          /\ IF pc[v] = "work" THEN matching[v] # NoField /\ Orderly(mtodo[v])
             ELSE mtodo[v] = <<>>
      BY DEF Matching, MatchTurns
    <3> QED BY <1>1, <1>2, <1>4, <3>1
  <2>4. \A u, v \in Workers : u # v /\ matching'[u] = matching'[v] => matching'[u] = NoField
    BY <1>1 DEF Matching, MatchTurns
  <2> QED BY <2>1, <2>2, <2>3, <2>4 DEF MatchTurns
<1>10. MatchWcs(m)'
  <2>1. /\ DOMAIN wcs = Sets
        /\ \A i \in 1..Len(FieldSeq) : \A s \in SetsOf(FieldSeq[i]) :
              /\ i > m => wcs[s] = MosaicCalls(s)
              /\ i <= m /\ (\A v \in Workers : ~WorksOn(v, FieldSeq[i]))
                 => wcs[s] = MosaicCalls(s) \o <<"align", "refine">>
              /\ \A v \in Workers : WorksOn(v, FieldSeq[i])
                 => wcs[s] = MosaicCalls(s) \o Reached(mtodo[v], s)
    BY DEF Matching, MatchWcs
  <2>2. wcs' = wcs /\ \A v \in Workers, s \in Sets : Reached(mtodo[v], s)' = Reached(mtodo[v], s)
    BY <1>1 DEF Reached, Left
  <2> QED BY <1>8, <2>1, <2>2, SameCalls, SetsOfField DEF MatchWcs
<1> QED BY <1>5, <1>6, <1>7, <1>9, <1>10 DEF Matching

LEMMA AppendLonger ==
  ASSUME NEW T, NEW R \in Seq(T), NEW a \in T, NEW b \in T
  PROVE  /\ Append(R \o <<>>, a) = R \o <<a>>
         /\ Append(R \o <<a>>, b) = R \o <<a, b>>
<1>1. <<a>> \in Seq(T) /\ <<b>> \in Seq(T)
  OBVIOUS
<1>2. Append(R \o <<>>, a) = R \o <<a>>
  BY ConcatEmptySeq, AppendIsConcat
<1>3. R \o <<a>> \in Seq(T)
  BY <1>1, ConcatProperties
<1>4. Append(R \o <<a>>, b) = (R \o <<a>>) \o <<b>>
  BY <1>3, AppendIsConcat
<1>5. (R \o <<a>>) \o <<b>> = R \o (<<a>> \o <<b>>)
  BY <1>1, ConcatAssociative
<1>6. <<a>> \o <<b>> = <<a, b>>
  BY TwoElements
<1> QED BY <1>2, <1>4, <1>5, <1>6

\* A worker does the next step for its field.
LEMMA WorkMatching ==
  ASSUME PoolInv, MatchTypes, NEW m, NEW n, Matching(m, n), NEW w \in Workers,
         pc[w] = "work", mtodo[w] # <<>>, mtodo' = [mtodo EXCEPT ![w] = Tail(@)],
         UNCHANGED <<poolVars, gnext, fnext, gview, fview, fviewflag, matching, shown>>,
         prefs' = prefs, NEW first, first = Head(mtodo[w]),
         \/ first.op = "sort" /\ wcs' = wcs
         \/ first.op \in {"align", "refine"} /\ Calibrated(first.sets, first.op)
  PROVE  MatchTypes' /\ Matching(m, n)'
<1>1. PICK list, rest : list = mtodo[w] /\ rest = Tail(list)
  OBVIOUS
<1>2. /\ list \in Seq(Op) /\ list # <<>> /\ first = Head(list)
      /\ \A i \in DOMAIN list : list[i].sets \subseteq SetsOf(matching[w])
      /\ Orderly(list)
  BY <1>1 DEF MatchTypes, Matching, MatchTurns
<1>3. OneStep(list, first, rest)
  BY <1>1, <1>2, OrderlyTail
<1>4. first.sets \subseteq SetsOf(matching[w])
  <2>1. 1 \in DOMAIN list /\ first = list[1]
    BY <1>2, EmptySeq, LenProperties, HeadTailProperties
  <2> QED BY <1>2, <2>1
<1>5. mtodo'[w] = rest /\ \A v \in Workers \ {w} : mtodo'[v] = mtodo[v]
  BY <1>1 DEF MatchTypes
<1>6. MatchTypes'
  <2>1. mtodo' \in [Workers -> Seq(Op)]
    BY <1>1, <1>3 DEF MatchTypes, OneStep
  <2>2. \A i \in DOMAIN rest : rest[i].sets \subseteq SetsOf(matching[w])
    BY <1>2, <1>3 DEF OneStep
  <2>3. \A v \in Workers : \A i \in DOMAIN mtodo'[v] : mtodo'[v][i].sets \subseteq SetsOf(matching'[v])
    BY <1>5, <2>2 DEF MatchTypes
  <2> QED BY <2>1, <2>3 DEF MatchTypes
<1>7. /\ pc' = pc /\ \A v \in Workers : Behind(v)' <=> Behind(v)
  BY SamePool DEF poolVars
<1>8. Cursors(m, n)'
  BY DEF Matching, Cursors, ShownTo
<1>9. \A v \in Workers : \A fd : WorksOn(v, fd)' <=> WorksOn(v, fd)
  BY <1>7 DEF WorksOn
<1>10. MatchTurns(m)'
  <2>1. ASSUME NEW v \in Workers
        PROVE  IF pc'[v] = "work" THEN matching'[v] # NoField /\ Orderly(mtodo'[v])
               ELSE mtodo'[v] = <<>>
    <3>1. IF pc[v] = "work" THEN matching[v] # NoField /\ Orderly(mtodo[v]) ELSE mtodo[v] = <<>>
      BY DEF Matching, MatchTurns
    <3> QED BY <1>3, <1>5, <1>7, <3>1 DEF OneStep
  <2> QED BY <1>7, <1>9, <2>1 DEF Matching, MatchTurns
<1>11. ASSUME NEW s \in Sets, WorksOn(w, FieldOf(s)), wcs[s] = MosaicCalls(s) \o Reached(list, s),
              DOMAIN wcs = Sets
       PROVE  wcs'[s] = MosaicCalls(s) \o Reached(rest, s)
  <2>1. CASE s \notin first.sets \/ first.op = "sort"
    <3>1. Reached(rest, s) = Reached(list, s)
      BY <1>3, <2>1 DEF Reached, OneStep
    <3>2. wcs'[s] = wcs[s]
      BY <2>1 DEF Calibrated
    <3> QED BY <1>11, <3>1, <3>2
  <2>2. CASE s \in first.sets /\ first.op = "align"
    <3>1. Reached(list, s) = <<>> /\ Reached(rest, s) = <<"align">>
      BY <1>3, <2>2 DEF Reached, OneStep
    <3>2. wcs'[s] = Append(wcs[s], "align")
      BY <2>2 DEF Calibrated
    <3>3. MosaicCalls(s) \in Seq(Calibrations) /\ "align" \in Calibrations
      BY CallsSeq DEF Calibrations
    <3> QED BY <1>11, <3>1, <3>2, <3>3, AppendLonger
  <2>3. CASE s \in first.sets /\ first.op = "refine"
    <3>1. Reached(list, s) = <<"align">> /\ Reached(rest, s) = <<"align", "refine">>
      BY <1>3, <2>3 DEF Reached, OneStep
    <3>2. wcs'[s] = Append(wcs[s], "refine")
      BY <2>3 DEF Calibrated
    <3>3. MosaicCalls(s) \in Seq(Calibrations) /\ "align" \in Calibrations /\ "refine" \in Calibrations
      BY CallsSeq DEF Calibrations
    <3>4. PICK R \in Seq(Calibrations) : R = MosaicCalls(s)
      BY <3>3
    <3>5. Append(R \o <<"align">>, "refine") = R \o <<"align", "refine">>
      BY <3>3, AppendLonger
    <3> QED BY <1>11, <3>1, <3>2, <3>4, <3>5
  <2> QED BY <2>1, <2>2, <2>3
<1>12. MatchWcs(m)'
  <2>1. ASSUME NEW i \in 1..Len(FieldSeq), NEW s \in SetsOf(FieldSeq[i])
        PROVE  /\ i > m => wcs'[s] = MosaicCalls(s)
               /\ i <= m /\ (\A v \in Workers : ~WorksOn(v, FieldSeq[i]))
                  => wcs'[s] = MosaicCalls(s) \o <<"align", "refine">>
               /\ \A v \in Workers : WorksOn(v, FieldSeq[i])
                  => wcs'[s] = MosaicCalls(s) \o Reached(mtodo'[v], s)
    <3>1. /\ i > m => wcs[s] = MosaicCalls(s)
          /\ i <= m /\ (\A v \in Workers : ~WorksOn(v, FieldSeq[i]))
             => wcs[s] = MosaicCalls(s) \o <<"align", "refine">>
          /\ \A v \in Workers : WorksOn(v, FieldSeq[i])
             => wcs[s] = MosaicCalls(s) \o Reached(mtodo[v], s)
          /\ DOMAIN wcs = Sets
      BY DEF Matching, MatchWcs
    <3>2. s \in Sets /\ FieldOf(s) = FieldSeq[i]
      BY SetsOfField
    <3>3. CASE matching[w] = FieldSeq[i]
      <4>1. i <= m /\ ~(i > m)
        <5>1. PICK j \in 1..m : matching[w] = FieldSeq[j]
          BY <3>3, SetsOfField DEF Matching, MatchTurns
        <5>2. m \in 0..Len(FieldSeq) /\ Len(FieldSeq) \in Nat
          BY FieldOrder DEF Matching, Cursors
        <5>3. j \in 1..Len(FieldSeq)
          BY <5>2
        <5>4. i = j
          BY <3>3, <5>1, <5>3, FieldOrder
        <5> QED BY <5>2, <5>4
      <4>2. WorksOn(w, FieldSeq[i])
        BY <3>3 DEF WorksOn
      <4>3. \A v \in Workers \ {w} : ~WorksOn(v, FieldSeq[i])
        <5>1. \A v \in Workers \ {w} : matching[v] = matching[w] => matching[w] = NoField
          BY DEF Matching, MatchTurns
        <5> QED BY <3>3, <5>1, SetsOfField DEF WorksOn
      <4>4. wcs'[s] = MosaicCalls(s) \o Reached(rest, s)
        BY <1>1, <1>11, <3>1, <3>2, <4>2
      <4> QED BY <1>5, <4>1, <4>2, <4>3, <4>4
    <3>4. CASE matching[w] # FieldSeq[i]
      <4>1. s \notin first.sets
        <5>1. PICK j \in 1..Len(FieldSeq) : matching[w] = FieldSeq[j]
          <6>1. m \in 0..Len(FieldSeq) /\ Len(FieldSeq) \in Nat
            BY FieldOrder DEF Matching, Cursors
          <6>2. \E j \in 1..m : matching[w] = FieldSeq[j]
            BY DEF Matching, MatchTurns
          <6> QED BY <6>1, <6>2
        <5> QED BY <1>4, <3>2, <3>4, <5>1, SetsOfField
      <4>2. wcs'[s] = wcs[s]
        BY <3>1, <3>2, <4>1 DEF Calibrated
      <4>3. ~WorksOn(w, FieldSeq[i])
        BY <3>4 DEF WorksOn
      <4> QED BY <1>5, <3>1, <4>2, <4>3
    <3> QED BY <3>3, <3>4
  <2>2. DOMAIN wcs' = Sets
    BY DEF Calibrated, Matching, MatchWcs
  <2>3. \A v \in Workers, s \in Sets : Reached(mtodo[v], s)' = Reached(mtodo'[v], s)
    BY DEF Reached, Left
  <2>4. ASSUME NEW i \in 1..Len(FieldSeq), NEW s \in SetsOf(FieldSeq[i])
        PROVE  /\ i > m => wcs'[s] = MosaicCalls(s)'
               /\ i <= m /\ (\A v \in Workers : ~WorksOn(v, FieldSeq[i])')
                  => wcs'[s] = MosaicCalls(s)' \o <<"align", "refine">>
               /\ \A v \in Workers : WorksOn(v, FieldSeq[i])'
                  => wcs'[s] = MosaicCalls(s)' \o Reached(mtodo[v], s)'
    <3>1. s \in Sets
      BY SetsOfField
    <3>2. MosaicCalls(s)' = MosaicCalls(s)
      BY SameCalls
    <3>3. \A v \in Workers : Reached(mtodo[v], s)' = Reached(mtodo'[v], s)
      BY <2>3, <3>1
    <3>4. \A v \in Workers : WorksOn(v, FieldSeq[i])' <=> WorksOn(v, FieldSeq[i])
      BY <1>9
    <3> QED BY <2>1, <3>2, <3>3, <3>4
  <2> QED BY <2>2, <2>4 DEF MatchWcs
<1> QED BY <1>6, <1>8, <1>10, <1>12 DEF Matching

\* match_field returns.
LEMMA DoneMatching ==
  ASSUME PoolInv, MatchTypes, NEW m, NEW n, Matching(m, n), NEW w \in Workers, FieldDone(w),
         prefs' = prefs
  PROVE  MatchTypes' /\ Matching(m, n)'
<1>1. /\ pc[w] = "work" /\ mtodo[w] = <<>> /\ Goto(w, "test")
      /\ UNCHANGED <<gateVars, endflag, wcs, matchVars>>
  BY DEF FieldDone
<1>2. /\ pc'[w] = "test" /\ \A v \in Workers \ {w} : pc'[v] = pc[v]
      /\ ~Behind(w) /\ ~Behind(w)' /\ \A v \in Workers \ {w} : Behind(v)' <=> Behind(v)
  BY <1>1, TurnSteps
<1>3. MatchTypes'
  BY <1>1 DEF MatchTypes, matchVars
<1>4. Cursors(m, n)'
  BY <1>1 DEF Matching, Cursors, ShownTo, matchVars
<1>5. \A v \in Workers : \A fd : WorksOn(v, fd)' <=> v # w /\ WorksOn(v, fd)
  BY <1>1, <1>2 DEF WorksOn, matchVars
<1>6. MatchTurns(m)'
  <2>1. UNCHANGED <<fviewflag, matching, mtodo>>
    BY <1>1 DEF matchVars
  <2>2. \A i \in 1..Len(FieldSeq) : fviewflag'[FieldSeq[i]] =>
           i <= m /\ \A v \in Workers : ~WorksOn(v, FieldSeq[i])'
    BY <1>5, <2>1 DEF Matching, MatchTurns
  <2>3. \A i \in 1..m : ~fviewflag'[FieldSeq[i]] =>
           \E v \in Workers : matching'[v] = FieldSeq[i] /\ ~Behind(v)'
    BY <1>2, <2>1 DEF Matching, MatchTurns
  <2>4. ASSUME NEW v \in Workers
        PROVE  /\ matching'[v] # NoField => \E i \in 1..m : matching'[v] = FieldSeq[i]
               /\ IF pc'[v] = "work" THEN matching'[v] # NoField /\ Orderly(mtodo'[v])
                  ELSE mtodo'[v] = <<>>
               /\ Behind(v)' => m = Len(FieldSeq)
    BY <1>1, <1>2, <2>1 DEF Matching, MatchTurns
  <2>5. \A u, v \in Workers : u # v /\ matching'[u] = matching'[v] => matching'[u] = NoField
    BY <2>1 DEF Matching, MatchTurns
  <2> QED BY <2>2, <2>3, <2>4, <2>5 DEF MatchTurns
<1>7. MatchWcs(m)'
  <2>1. ASSUME NEW i \in 1..Len(FieldSeq), NEW s \in SetsOf(FieldSeq[i])
        PROVE  /\ i > m => wcs[s] = MosaicCalls(s)
               /\ i <= m /\ (\A v \in Workers : ~WorksOn(v, FieldSeq[i])')
                  => wcs[s] = MosaicCalls(s) \o <<"align", "refine">>
               /\ \A v \in Workers : WorksOn(v, FieldSeq[i])'
                  => wcs[s] = MosaicCalls(s) \o Reached(mtodo[v], s)
    <3>1. /\ i > m => wcs[s] = MosaicCalls(s)
          /\ i <= m /\ (\A v \in Workers : ~WorksOn(v, FieldSeq[i]))
             => wcs[s] = MosaicCalls(s) \o <<"align", "refine">>
          /\ \A v \in Workers : WorksOn(v, FieldSeq[i])
             => wcs[s] = MosaicCalls(s) \o Reached(mtodo[v], s)
      BY DEF Matching, MatchWcs
    <3>2. WorksOn(w, FieldSeq[i]) => wcs[s] = MosaicCalls(s) \o <<"align", "refine">>
      <4>1. Reached(mtodo[w], s) = <<"align", "refine">>
        BY <1>1 DEF Reached, Left
      <4> QED BY <3>1, <4>1
    <3> QED BY <1>5, <3>1, <3>2
  <2>2. DOMAIN wcs = Sets /\ wcs' = wcs
    BY <1>1 DEF Matching, MatchWcs
  <2>3. \A v \in Workers, s \in Sets : Reached(mtodo[v], s)' = Reached(mtodo[v], s)
    BY <1>1 DEF Reached, Left, matchVars
  <2> QED BY <2>1, <2>2, <2>3, SameCalls, SetsOfField DEF MatchWcs
<1> QED BY <1>3, <1>4, <1>6, <1>7 DEF Matching

\* Where the fields, the workers and the calibrations are, stage by stage.
Matches ==
    /\ stage \in Stages /\ prefs \in Settings
    /\ MatchTypes
    /\ stage \in {"grouped", "mosaic"} => Cursors(0, 0) /\ Unmatched
    /\ stage = "grouped" => wcs = [s \in Sets |-> <<>>]
    /\ stage = "mosaic" => MosaicWcs
    /\ stage = "match" =>
          /\ prefs.match_flag
          /\ \E m, n : Matching(m, n) /\ (pc[Master] = "create" => m = 0)
    /\ stage \in {"fill", "solved"} =>
          /\ \E m, n : Cursors(m, n) /\ (n # 0 => prefs.match_flag)
          /\ \A w \in Workers : mtodo[w] = <<>>
    /\ stage = "fill" => /\ DOMAIN wcs = Sets
                         /\ \A s \in Sets : wcs[s] = MosaicCalls(s) \o MatchCalls
    /\ stage = "solved" => \A s \in Sets : wcs[s] = MosaicCalls(s) \o MatchCalls \o <<"solve">>

LEMMA FieldsStart ==
  /\ 0 \in 0..Len(FieldSeq) /\ 0 \in 0..0
  /\ FieldAt(0) = <<0, 0>> /\ SubSeq(FieldSeq, 1, 0) = <<>>
  /\ Len(FieldSeq) # 0 => FieldSeq[0 + 1] \in Fields
<1>1. FieldAt(0) = <<0, 0>> /\ Len(FieldSeq) \in Nat /\ FieldSeq \in Seq(Fields)
  BY FieldOrder
<1>2. Len(FieldSeq) # 0 => 0 + 1 \in 1..Len(FieldSeq)
  BY <1>1
<1>3. SubSeq(FieldSeq, 1, 0) = <<>>
  BY <1>1, SubSeqEmpty
<1> QED BY <1>1, <1>2, <1>3

LEMMA MatchesInit == Init => Matches
<1> SUFFICES ASSUME Init PROVE Matches
  OBVIOUS
<1>1. /\ stage = "grouped" /\ prefs \in Settings /\ wcs = [s \in Sets |-> <<>>]
      /\ gnext = 0 /\ fnext = 0 /\ gview = 0 /\ fview = 0 /\ shown = <<>> /\ Unmatched
  BY DEF Init, MosaicInit, MatchInit, Unmatched
<1>2. MatchTypes
  <2>1. /\ fviewflag \in [Fields -> BOOLEAN]
        /\ matching \in [Workers -> Fields \cup {NoField}]
        /\ \A w \in Workers : mtodo[w] = <<>> /\ <<>> \in Seq(Op)
    BY <1>1 DEF Unmatched
  <2>2. mtodo \in [Workers -> Seq(Op)]
    BY <1>1, <2>1 DEF Unmatched
  <2>3. \A w \in Workers : \A i \in DOMAIN mtodo[w] : FALSE
    BY <2>1
  <2> QED BY <2>1, <2>2, <2>3 DEF MatchTypes
<1>3. ShownTo(0)
  <2>1. 0 < Len(FieldSeq) => ~fviewflag[FieldSeq[0 + 1]]
    BY <1>1, FieldsStart, FieldOrder DEF Unmatched
  <2>2. \A i \in 1..0 : FALSE
    OBVIOUS
  <2> QED BY <1>1, <2>1, <2>2, FieldsStart DEF ShownTo
<1>4. Cursors(0, 0)
  BY <1>1, <1>3, FieldsStart DEF Cursors
<1> QED BY <1>1, <1>2, <1>4 DEF Matches, Stages

LEMMA MatchSeq == MatchCalls \in Seq(Calibrations)
<1>1. "align" \in Calibrations /\ "refine" \in Calibrations
  BY DEF Calibrations
<1>2. <<>> \in Seq(Calibrations) /\ <<"align", "refine">> \in Seq(Calibrations)
  BY <1>1
<1> QED BY <1>2 DEF MatchCalls

LEMMA SameFields ==
  ASSUME UNCHANGED matchVars
  PROVE  /\ MatchTypes => MatchTypes'
         /\ Unmatched => Unmatched'
         /\ \A m, n : Cursors(m, n) => Cursors(m, n)'
BY DEF matchVars, MatchTypes, Unmatched, Cursors, ShownTo

\* The matching pool starts on the adjusted sets, no field is taken.
LEMMA StartMatches ==
  ASSUME Mosaics, Matches, StartMatch
  PROVE  Matches'
<1>1. /\ stage = "mosaic" /\ PoolOver /\ LabelsLeft = {} /\ prefs.match_flag /\ stage' = "match"
      /\ NewPool(FALSE) /\ UNCHANGED <<prefs, wcs, matchVars>>
  BY DEF StartMatch
<1>2. /\ MatchTypes' /\ Cursors(0, 0)' /\ Unmatched'
  <2>1. MatchTypes /\ Cursors(0, 0) /\ Unmatched
    BY <1>1 DEF Matches
  <2>2. UNCHANGED matchVars
    BY <1>1
  <2> QED BY <2>1, <2>2, SameFields
<1>3. \A w \in Workers : pc'[w] = "none" /\ ~Behind(w)'
  BY <1>1, NewPoolLife
<1>4. \A w \in Workers : matching'[w] = NoField /\ mtodo'[w] = <<>>
  BY <1>2 DEF Unmatched
<1>5. \A w \in Workers : \A fd : ~WorksOn(w, fd)'
  BY <1>3 DEF WorksOn
<1>6. MatchTurns(0)'
  <2>1. \A i \in 1..Len(FieldSeq) : ~fviewflag'[FieldSeq[i]]
    BY <1>2, SetsOfField DEF Unmatched
  <2>2. \A i \in 1..0 : FALSE
    OBVIOUS
  <2> QED BY <1>3, <1>4, <2>1, <2>2 DEF MatchTurns
<1>7. MatchWcs(0)'
  <2>1. DOMAIN wcs' = Sets
    BY <1>1 DEF Matches, MosaicWcs
  <2>2. ASSUME NEW i \in 1..Len(FieldSeq), NEW s \in SetsOf(FieldSeq[i])
        PROVE  wcs'[s] = MosaicCalls(s)' /\ ~(i <= 0)
    <3>1. wcs[s] = MosaicCalls(s)
      BY <1>1, SetsOfField, MosaicDone DEF Matches
    <3>2. MosaicCalls(s)' = MosaicCalls(s)
      BY <1>1, SameCalls
    <3>3. ~(i <= 0)
      OBVIOUS
    <3> QED BY <1>1, <3>1, <3>2, <3>3
  <2> QED BY <1>5, <2>1, <2>2 DEF MatchWcs
<1>8. Matching(0, 0)'
  BY <1>2, <1>6, <1>7 DEF Matching
<1>9. prefs' \in Settings /\ prefs'.match_flag
  BY <1>1 DEF Matches
<1> QED BY <1>1, <1>2, <1>8, <1>9 DEF Matches, Stages

\* When the master is past the stop gate of the matching pool every field is
\* matched and shown.
LEMMA MatchOver ==
  ASSUME PoolInv, MasterPastStop, NEW m, NEW n, Matching(m, n)
  PROVE  /\ m = Len(FieldSeq) /\ n = Len(FieldSeq) /\ \A w \in Workers : mtodo[w] = <<>>
         /\ \A s \in Sets : wcs[s] = MosaicCalls(s) \o <<"align", "refine">>
<1>1. \A w \in Workers : Behind(w) /\ pc[w] # "work"
  BY PastStop, Working
<1>2. m = Len(FieldSeq) /\ m \in Nat /\ n \in 0..m
  <2>1. m = Len(FieldSeq)
    BY <1>1, WorkersAssumption DEF Matching, MatchTurns
  <2> QED BY <2>1, FieldOrder DEF Matching, Cursors
<1>3. \A i \in 1..m : fviewflag[FieldSeq[i]]
  BY <1>1 DEF Matching, MatchTurns
<1>4. n = m
  <2>1. n < m => ~fviewflag[FieldSeq[n + 1]]
    BY <1>2 DEF Matching, Cursors, ShownTo
  <2>2. n < m => n + 1 \in 1..m
    BY <1>2
  <2> QED BY <1>2, <1>3, <2>1, <2>2
<1>5. \A w \in Workers : mtodo[w] = <<>>
  BY <1>1 DEF Matching, MatchTurns
<1>6. ASSUME NEW s \in Sets PROVE wcs[s] = MosaicCalls(s) \o <<"align", "refine">>
  <2>1. FieldOf(s) \in Fields /\ s \in SetsOf(FieldOf(s))
    BY SetFacts
  <2>2. PICK i \in 1..Len(FieldSeq) : FieldSeq[i] = FieldOf(s)
    BY <2>1, FieldOrder
  <2>3. i <= m /\ \A w \in Workers : ~WorksOn(w, FieldSeq[i])
    BY <1>1, <1>2 DEF WorksOn
  <2> QED BY <2>1, <2>2, <2>3 DEF Matching, MatchWcs
<1> QED BY <1>2, <1>4, <1>5, <1>6

\* The equations are filled after the last field is matched, or after the last
\* mosaic is adjusted.
LEMMA StartSolveMatches ==
  ASSUME Life, Mosaics, Matches, StartSolve
  PROVE  Matches'
<1>1. /\ stage' = "fill" /\ PoolOver
      /\ stage = "match" \/ (stage = "mosaic" /\ LabelsLeft = {} /\ ~prefs.match_flag)
      /\ matching' = [w \in Workers |-> NoField]
      /\ UNCHANGED <<prefs, wcs, gnext, fnext, gview, fview, fviewflag, mtodo, shown>>
  BY DEF StartSolve
<1>2. /\ \E m, n : Cursors(m, n) /\ (n # 0 => prefs.match_flag)
      /\ \A w \in Workers : mtodo[w] = <<>>
      /\ DOMAIN wcs = Sets /\ \A s \in Sets : wcs[s] = MosaicCalls(s) \o MatchCalls
  <2>1. CASE stage = "match"
    <3>1. PoolInv /\ MasterPastStop /\ prefs.match_flag
      BY <1>1, <2>1 DEF Life, NoPoolYet, PoolOver, MasterPastStop, Matches
    <3>2. PICK m, n : Matching(m, n)
      BY <2>1 DEF Matches
    <3>3. /\ \A w \in Workers : mtodo[w] = <<>>
          /\ \A s \in Sets : wcs[s] = MosaicCalls(s) \o <<"align", "refine">>
      BY <3>1, <3>2, MatchOver
    <3>4. DOMAIN wcs = Sets
      BY <3>2 DEF Matching, MatchWcs
    <3>5. MatchCalls = <<"align", "refine">>
      BY <3>1 DEF MatchCalls
    <3> QED BY <3>1, <3>2, <3>3, <3>4, <3>5 DEF Matching
  <2>2. CASE stage = "mosaic" /\ LabelsLeft = {} /\ ~prefs.match_flag
    <3>1. Cursors(0, 0) /\ Unmatched /\ DOMAIN wcs = Sets
      BY <2>2 DEF Matches, MosaicWcs
    <3>2. ASSUME NEW s \in Sets PROVE wcs[s] = MosaicCalls(s) \o MatchCalls
      <4>1. wcs[s] = MosaicCalls(s)
        BY <1>1, <2>2, MosaicDone DEF Matches
      <4>2. MosaicCalls(s) \o <<>> = MosaicCalls(s)
        BY CallsSeq, ConcatEmptySeq
      <4> QED BY <2>2, <4>1, <4>2 DEF MatchCalls
    <3> QED BY <3>1, <3>2 DEF Unmatched
  <2> QED BY <1>1, <2>1, <2>2
<1>3. MatchTypes'
  <2>1. \A w \in Workers : \A i \in DOMAIN mtodo'[w] : FALSE
    BY <1>1, <1>2
  <2> QED BY <1>1, <2>1 DEF Matches, MatchTypes
<1>4. PICK m, n : Cursors(m, n) /\ (n # 0 => prefs.match_flag)
  BY <1>2
<1>5. Cursors(m, n)' /\ (n # 0 => prefs'.match_flag)
  BY <1>1, <1>4 DEF Cursors, ShownTo
<1>6. DOMAIN wcs' = Sets /\ \A s \in Sets : wcs'[s] = MosaicCalls(s)' \o MatchCalls'
  BY <1>1, <1>2, SameCalls
<1> QED BY <1>1, <1>2, <1>3, <1>5, <1>6 DEF Matches, Stages

\* The solution goes to every set.
LEMMA SolveMatches ==
  ASSUME Matches, Solve
  PROVE  Matches'
<1>1. /\ stage = "fill" /\ stage' = "solved" /\ Calibrated(Sets, "solve")
      /\ UNCHANGED <<prefs, matchVars>>
  BY DEF Solve
<1>2. MatchTypes' /\ UNCHANGED mtodo
  <2>1. MatchTypes /\ UNCHANGED matchVars
    BY <1>1 DEF Matches
  <2>2. MatchTypes'
    BY <2>1, SameFields
  <2> QED BY <2>1, <2>2 DEF matchVars
<1>3. PICK m, n : Cursors(m, n) /\ (n # 0 => prefs.match_flag)
  BY <1>1 DEF Matches
<1>4. Cursors(m, n)' /\ (n # 0 => prefs'.match_flag)
  BY <1>1, <1>3, SameFields
<1>5. ASSUME NEW s \in Sets PROVE wcs'[s] = MosaicCalls(s)' \o MatchCalls' \o <<"solve">>
  <2>1. wcs'[s] = Append(MosaicCalls(s) \o MatchCalls, "solve")
    BY <1>1 DEF Matches, Calibrated
  <2>2. MosaicCalls(s) \o MatchCalls \in Seq(Calibrations) /\ "solve" \in Calibrations
    BY CallsSeq, MatchSeq, ConcatProperties DEF Calibrations
  <2>3. Append(MosaicCalls(s) \o MatchCalls, "solve") = MosaicCalls(s) \o MatchCalls \o <<"solve">>
    BY <2>2, AppendIsConcat
  <2> QED BY <1>1, <2>1, <2>3, SameCalls
<1> QED BY <1>1, <1>2, <1>4, <1>5 DEF Matches, Stages

\* The pool of the matching runs.
LEMMA MatchStepMatches ==
  ASSUME Matches, SortLocked, MatchStep
  PROVE  Matches'
<1>1. stage = "match" /\ stage' = "match" /\ PoolInv /\ prefs' = prefs /\ stage' \in Stages
  BY DEF MatchStep, Stages
<1>2. MatchTypes /\ prefs \in Settings /\ prefs.match_flag
  BY <1>1 DEF Matches
<1>3. PICK m, n : Matching(m, n) /\ (pc[Master] = "create" => m = 0)
  BY <1>1 DEF Matches
<1>4. SUFFICES MatchTypes' /\ \E i, k : Matching(i, k)' /\ (pc'[Master] = "create" => i = 0)
  BY <1>1, <1>2 DEF Matches
<1>5. CASE MatchReset
  <2>1. LifeStep /\ pc[Master] = "create" /\ UNCHANGED <<wcs, fviewflag, matching, mtodo, shown>>
        /\ gnext' = 0 /\ fnext' = 0 /\ gview' = 0 /\ fview' = 0
    BY <1>5 DEF MatchReset, Reset, LifeStep
  <2>2. m = 0 /\ n = 0
    BY <1>3, <2>1 DEF Matching, Cursors
  <2>3. <<gnext, fnext>> = <<0, 0>> /\ <<gview, fview>> = <<0, 0>>
    BY <1>3, <2>2, FieldsStart DEF Matching, Cursors, ShownTo
  <2>4. UNCHANGED <<gnext, fnext, gview, fview>>
    BY <2>1, <2>3
  <2>5. \A w \in Workers : /\ pc'[w] = "work" <=> pc[w] = "work"
                           /\ Behind(w)' <=> Behind(w)
    BY <1>1, <2>1, LifeSteps
  <2>6. Matching(m, n)'
    BY <1>1, <1>3, <2>1, <2>4, <2>5, SameMatching
  <2>7. MatchTypes'
    BY <1>2, <2>1 DEF MatchTypes
  <2> QED BY <2>2, <2>6, <2>7
<1>6. CASE RunStep /\ UNCHANGED <<wcs, matchVars>>
  <2>1. /\ \A w \in Workers : /\ pc'[w] = "work" <=> pc[w] = "work"
                              /\ Behind(w)' <=> Behind(w)
        /\ pc'[Master] = "create" => pc[Master] = "create"
    BY <1>1, <1>6, LifeSteps DEF LifeStep
  <2>2. Matching(m, n)'
    <3>1. UNCHANGED <<wcs, prefs, gnext, fnext, gview, fview, fviewflag, matching, mtodo, shown>>
      BY <1>1, <1>6 DEF matchVars
    <3> QED BY <1>3, <2>1, <3>1, SameMatching
  <2>3. MatchTypes'
    BY <1>2, <1>6, SameFields
  <2> QED BY <1>3, <2>1, <2>2, <2>3
<1>7. ASSUME NEW w \in Workers, TakeField(w) \/ NoFieldLeft(w) \/ FieldDone(w)
      PROVE  MatchTypes' /\ \E i, k : Matching(i, k)' /\ (pc'[Master] = "create" => i = 0)
  <2>1. pc'[Master] # "create"
    BY <1>1, <1>7, TurnSteps DEF TakeField, NoFieldLeft, FieldDone
  <2>2. CASE TakeField(w)
    BY <1>1, <1>2, <1>3, <2>1, <2>2, TakeMatching
  <2>3. CASE NoFieldLeft(w)
    BY <1>1, <1>2, <1>3, <2>1, <2>3, NoneLeftMatching
  <2>4. CASE FieldDone(w)
    BY <1>1, <1>2, <1>3, <2>1, <2>4, DoneMatching
  <2> QED BY <1>7, <2>2, <2>3, <2>4
<1>8. ASSUME NEW w \in Workers, Align(w) \/ Refine(w) \/ Sorted(w)
      PROVE  MatchTypes' /\ \E i, k : Matching(i, k)' /\ (pc'[Master] = "create" => i = 0)
  <2>1. /\ pc[w] = "work" /\ mtodo[w] # <<>>
        /\ mtodo' = [mtodo EXCEPT ![w] = Tail(@)]
        /\ UNCHANGED <<poolVars, gnext, fnext, gview, fview, fviewflag, matching, shown>>
    BY <1>8 DEF Align, Refine, Calibrate, Sorted, SortLocked, Sorts
  <2>2. PICK first : first = Head(mtodo[w])
    OBVIOUS
  <2>3. \/ first.op = "sort" /\ wcs' = wcs
        \/ first.op \in {"align", "refine"} /\ Calibrated(first.sets, first.op)
    BY <1>8, <2>2 DEF Align, Refine, Calibrate, Sorted, SortLocked, Sorts
  <2>4. MatchTypes' /\ Matching(m, n)'
    BY <1>1, <1>2, <1>3, <2>1, <2>2, <2>3, WorkMatching
  <2>5. pc' = pc
    BY <2>1 DEF poolVars
  <2> QED BY <1>3, <2>4, <2>5
<1>9. ASSUME NEW w \in Workers, Sort(w)
      PROVE  MatchTypes' /\ \E i, k : Matching(i, k)' /\ (pc'[Master] = "create" => i = 0)
  <2>1. UNCHANGED <<poolVars, wcs, gnext, fnext, gview, fview, fviewflag, matching, mtodo, shown>>
    BY <1>9 DEF Sort
  <2>2. pc' = pc /\ \A v \in Workers : Behind(v)' <=> Behind(v)
    BY <1>1, <2>1, SamePool DEF poolVars
  <2>3. Matching(m, n)'
    BY <1>1, <1>3, <2>1, <2>2, SameMatching
  <2>4. MatchTypes'
    BY <1>2, <2>1 DEF MatchTypes
  <2> QED BY <1>3, <2>2, <2>3, <2>4
<1> QED BY <1>5, <1>6, <1>7, <1>8, <1>9 DEF MatchStep, MatchTurn

LEMMA MatchesNext ==
  ASSUME Life, Mosaics, SortLocked, Matches, [Next]_vars
  PROVE  Matches'
<1>1. CASE UNCHANGED vars
  <2>1. UNCHANGED <<stage, prefs, wcs, pc, matchVars, lindex, msindex, adjusting, mtodo, poolVars>>
    BY <1>1 DEF vars, poolVars, mosaicVars, matchVars
  <2>2. stage = "match" => PoolInv
    BY DEF Life, NoPoolYet
  <2>3. MosaicWcs => MosaicWcs'
    <3>1. \A s \in Sets : Adjusted(s)' <=> Adjusted(s)
      BY <2>1 DEF Adjusted
    <3> QED BY <2>1, <3>1, SameMosaicWcs
  <2>4. ASSUME stage = "match", NEW m, NEW n, Matching(m, n) PROVE Matching(m, n)'
    <3>1. \A w \in Workers : /\ pc'[w] = "work" <=> pc[w] = "work"
                             /\ Behind(w)' <=> Behind(w)
      BY <2>1, <2>2, <2>4, SamePool
    <3>2. UNCHANGED <<wcs, prefs, gnext, fnext, gview, fview, fviewflag, matching, mtodo, shown>>
      BY <2>1 DEF matchVars
    <3> QED BY <2>4, <3>1, <3>2, SameMatching
  <2>5. MatchCalls' = MatchCalls /\ \A s : MosaicCalls(s)' = MosaicCalls(s)
    BY <2>1, SameCalls
  <2>6. /\ MatchTypes => MatchTypes'
        /\ Unmatched => Unmatched'
        /\ \A m, n : Cursors(m, n) => Cursors(m, n)'
    BY <2>1, SameFields
  <2> QED BY <2>1, <2>3, <2>4, <2>5, <2>6 DEF Matches
<1>2. ASSUME AdjustMosaic \/ NextInstrument \/ MosaicStep PROVE Matches'
  <2>1. /\ stage \in {"grouped", "mosaic"} /\ stage' = "mosaic" /\ stage' \in Stages
        /\ UNCHANGED <<prefs, matchVars>>
    BY <1>2 DEF AdjustMosaic, NextInstrument, MosaicStep, Stages
  <2>2. MosaicWcs'
    <3>1. stage = "grouped" => wcs = [s \in Sets |-> <<>>]
      BY DEF Matches
    <3>2. stage = "mosaic" => MosaicWcs
      BY DEF Matches
    <3>3. AdjustMosaic => stage = "grouped"
      BY DEF AdjustMosaic
    <3>4. NextInstrument \/ MosaicStep => stage = "mosaic"
      BY DEF NextInstrument, MosaicStep
    <3> QED BY <1>2, <3>1, <3>2, <3>3, <3>4, FirstMosaicWcs, NextMosaicWcs, StepMosaicWcs
  <2>3. MatchTypes /\ Cursors(0, 0) /\ Unmatched /\ prefs \in Settings
    BY <2>1 DEF Matches
  <2>4. MatchTypes' /\ Cursors(0, 0)' /\ Unmatched' /\ prefs' \in Settings
    BY <2>1, <2>3, SameFields
  <2> QED BY <2>1, <2>2, <2>4 DEF Matches
<1>3. CASE FillStep
  <2>1. stage = "fill" /\ stage' = "fill" /\ UNCHANGED <<prefs, wcs, matchVars, mtodo>>
    BY <1>3 DEF FillStep, matchVars
  <2>2. /\ MatchTypes => MatchTypes'
        /\ \A m, n : Cursors(m, n) => Cursors(m, n)'
    BY <2>1, SameFields
  <2>3. MatchCalls' = MatchCalls /\ \A s : MosaicCalls(s)' = MosaicCalls(s)
    BY <2>1, SameCalls
  <2> QED BY <2>1, <2>2, <2>3 DEF Matches
<1> QED BY <1>1, <1>2, <1>3, NextSteps, StartMatches, StartSolveMatches, SolveMatches,
           MatchStepMatches

---------------------------------------------------------------------------
(* Every set goes through its calibrations in order *)

Regroups(x, y, z) == (x \o y) \o z = x \o (y \o z)

LEMMA Regrouped ==
  ASSUME NEW x \in Seq(Calibrations), NEW y \in Seq(Calibrations), NEW z \in Seq(Calibrations)
  PROVE  Regroups(x, y, z)
BY ConcatAssociative DEF Regroups

LEMMA CalibrationSeqs ==
  /\ <<>> \in Seq(Calibrations)
  /\ \A c \in Calibrations : <<c>> \in Seq(Calibrations)
  /\ \A c, d \in Calibrations : <<c, d>> \in Seq(Calibrations) /\ <<c>> \o <<d>> = <<c, d>>
<1>1. <<>> \in Seq(Calibrations)
  OBVIOUS
<1>2. \A c \in Calibrations : <<c>> \in Seq(Calibrations)
  OBVIOUS
<1>3. \A c, d \in Calibrations : <<c, d>> \in Seq(Calibrations)
  OBVIOUS
<1> QED BY <1>1, <1>2, <1>3, TwoElements

\* How far the matching is with a set.
LEMMA SetInMatch ==
  ASSUME Matches, stage = "match", NEW s \in Sets
  PROVE  \E P \in {<<>>, <<"align">>, <<"align", "refine">>} : wcs[s] = MosaicCalls(s) \o P
<1>1. PICK m, n : Matching(m, n)
  BY DEF Matches
<1>2. PICK i \in 1..Len(FieldSeq) : FieldSeq[i] = FieldOf(s) /\ s \in SetsOf(FieldSeq[i])
  BY SetFacts, FieldOrder
<1>3. m \in Int
  BY <1>1, FieldOrder DEF Matching, Cursors
<1>4. /\ i > m => wcs[s] = MosaicCalls(s)
      /\ i <= m /\ (\A w \in Workers : ~WorksOn(w, FieldSeq[i]))
         => wcs[s] = MosaicCalls(s) \o <<"align", "refine">>
      /\ \A w \in Workers : WorksOn(w, FieldSeq[i])
         => wcs[s] = MosaicCalls(s) \o Reached(mtodo[w], s)
  BY <1>1, <1>2 DEF Matching, MatchWcs
<1>5. MosaicCalls(s) \o <<>> = MosaicCalls(s)
  BY CallsSeq, ConcatEmptySeq
<1>6. \A w \in Workers : Reached(mtodo[w], s) \in {<<>>, <<"align">>, <<"align", "refine">>}
  BY DEF Reached
<1>7. CASE i > m
  BY <1>4, <1>5, <1>7
<1>8. CASE i <= m /\ \A w \in Workers : ~WorksOn(w, FieldSeq[i])
  BY <1>4, <1>8
<1>9. CASE \E w \in Workers : WorksOn(w, FieldSeq[i])
  BY <1>4, <1>6, <1>9
<1> QED BY <1>3, <1>7, <1>8, <1>9

\* The calibrations a set went through, and those it has still to go through.
LEMMA WcsParts ==
  ASSUME Mosaics, Matches, NEW s \in Sets
  PROVE  \E R, S \in Seq(Calibrations) :
            /\ wcs[s] = R /\ R \o S = MosaicCalls(s) \o MatchCalls \o <<"solve">>
<1>1. /\ "samecrval" \in Calibrations /\ "recentre" \in Calibrations /\ "adjust" \in Calibrations
      /\ "align" \in Calibrations /\ "refine" \in Calibrations /\ "solve" \in Calibrations
  BY DEF Calibrations
<1>2. PICK M, C, E \in Seq(Calibrations) :
         /\ M = MosaicCalls(s) /\ C = MatchCalls /\ E = <<"solve">>
  <2>1. <<"solve">> \in Seq(Calibrations)
    BY <1>1
  <2> QED BY <2>1, CallsSeq, MatchSeq
<1>3. /\ <<>> \in Seq(Calibrations) /\ C \o E \in Seq(Calibrations) /\ M \o C \in Seq(Calibrations)
      /\ M \o C \o E \in Seq(Calibrations) /\ M \o (C \o E) = M \o C \o E
  BY <1>2, ConcatProperties, ConcatAssociative
<1>4. ASSUME NEW A \in Seq(Calibrations), NEW B \in Seq(Calibrations), A \o B = C, wcs[s] = M \o A
      PROVE  \E R, S \in Seq(Calibrations) : wcs[s] = R /\ R \o S = M \o C \o E
  <2>1. PICK F, G \in Seq(Calibrations) : F = M \o A /\ G = B \o E
    BY ConcatProperties
  <2>2. F \o (B \o E) = (F \o B) \o E
    <3>1. Regroups(F, B, E)
      BY <2>1, Regrouped
    <3> QED BY <3>1 DEF Regroups
  <2>3. F \o B = M \o (A \o B)
    <3>1. Regroups(M, A, B)
      BY <2>1, Regrouped
    <3> QED BY <2>1, <3>1 DEF Regroups
  <2>4. F \o G = M \o C \o E
    BY <1>4, <2>1, <2>2, <2>3
  <2> QED BY <1>4, <2>1, <2>4
<1>5. CASE stage = "grouped"
  <2>1. wcs[s] = <<>>
    BY <1>5 DEF Matches
  <2>2. <<>> \o (M \o C \o E) = M \o C \o E
    BY <1>3, ConcatEmptySeq
  <2> QED BY <1>2, <1>3, <2>1, <2>2
<1>6. CASE stage = "mosaic"
  <2>1. wcs[s] = M \/ (M = <<"recentre", "adjust">> /\ wcs[s] = <<"recentre">>)
    BY <1>2, <1>6 DEF Matches, MosaicWcs, MosaicCalls, Recentred, Focal
  <2>2. CASE wcs[s] = M
    BY <1>2, <1>3, <2>2
  <2>3. CASE M = <<"recentre", "adjust">> /\ wcs[s] = <<"recentre">>
    <3>1. PICK F, G \in Seq(Calibrations) : F = <<"recentre">> /\ G = <<"adjust">>
      BY <1>1, CalibrationSeqs
    <3>2. F \o G = M
      BY <1>1, <2>3, <3>1, CalibrationSeqs
    <3> DEFINE H == C \o E
               K == G \o H
    <3>3. H \in Seq(Calibrations) /\ M \o H = M \o C \o E
      BY <1>3
    <3> HIDE DEF H
    <3>4. K \in Seq(Calibrations) /\ F \o K = (F \o G) \o H
      BY <3>1, <3>3, ConcatAssociative, ConcatProperties
    <3> HIDE DEF K
    <3>5. wcs[s] = F /\ F \o K = M \o C \o E
      BY <2>3, <3>1, <3>2, <3>3, <3>4
    <3> QED BY <1>2, <3>1, <3>4, <3>5
  <2> QED BY <2>1, <2>2, <2>3
<1>7. CASE stage = "match"
  <2>1. C = <<"align", "refine">>
    BY <1>2, <1>7 DEF Matches, MatchCalls
  <2>2. \E P \in {<<>>, <<"align">>, <<"align", "refine">>} : wcs[s] = M \o P
    BY <1>2, <1>7, SetInMatch
  <2>3. C \o <<>> = C /\ <<>> \o C = C
    BY <1>2, ConcatEmptySeq
  <2>4. PICK F, G \in Seq(Calibrations) : F = <<"align">> /\ G = <<"refine">>
    BY <1>1, CalibrationSeqs
  <2>5. F \o G = C
    BY <1>1, <2>1, <2>4, CalibrationSeqs
  <2>6. wcs[s] = M \o <<>> \/ wcs[s] = M \o F \/ wcs[s] = M \o C
    BY <2>1, <2>2, <2>4
  <2> QED BY <1>2, <1>3, <1>4, <2>3, <2>5, <2>6
<1>8. CASE stage = "fill"
  <2>1. wcs[s] = M \o C
    BY <1>2, <1>8 DEF Matches
  <2> QED BY <1>2, <1>3, <2>1
<1>9. CASE stage = "solved"
  <2>1. wcs[s] = M \o C \o E
    BY <1>2, <1>9 DEF Matches
  <2>2. (M \o C \o E) \o <<>> = M \o C \o E
    BY <1>3, ConcatEmptySeq
  <2> QED BY <1>2, <1>3, <2>1, <2>2
<1> QED BY <1>5, <1>6, <1>7, <1>8, <1>9 DEF Matches, Stages

\* While the fields are matched the adjustment of the mosaics is over.
LEMMA MosaicFirst ==
  ASSUME Matches, stage = "match", NEW s \in Sets
  PROVE  IsPrefix(MosaicCalls(s), wcs[s])
<1>1. PICK M \in Seq(Calibrations) : M = MosaicCalls(s)
  BY CallsSeq
<1>2. \A P \in {<<>>, <<"align">>, <<"align", "refine">>} : P \in Seq(Calibrations)
  <2>1. "align" \in Calibrations /\ "refine" \in Calibrations
    BY DEF Calibrations
  <2> QED BY <2>1, CalibrationSeqs
<1> QED BY <1>1, <1>2, SetInMatch, PrefixOf

LEMMA OrderInv == Spec => [](Life /\ Mosaics /\ SortLocked /\ Matches)
<1>1. Init => Life /\ Mosaics /\ SortLocked /\ Matches
  <2>1. Init => SortLocked
    BY DEF Init, MatchInit, SortLocked
  <2> QED BY <2>1, LifeInit, MosaicsInit, MatchesInit
<1>2. Life /\ Mosaics /\ SortLocked /\ Matches /\ [Next]_vars
      => (Life /\ Mosaics /\ SortLocked /\ Matches)'
  BY LifeNext, MosaicsNext, SortLockedNext, MatchesNext
<1> QED BY <1>1, <1>2, PTL DEF Spec

\* adjust_mosaic, the pools of pthread_adjust_sets and of pthread_match_fields
\* and astrsolve_fgroups take every set through the calibrations its settings
\* ask for, each once and in order, for any fields, instruments and workers.
THEOREM WcsInOrderHolds == Spec => []WcsInOrder
<1>1. Mosaics /\ Matches => WcsInOrder
  <2> SUFFICES ASSUME Mosaics, Matches, NEW s \in Sets
               PROVE  /\ IsPrefix(wcs[s], MosaicCalls(s) \o MatchCalls \o <<"solve">>)
                      /\ stage = "match" => IsPrefix(MosaicCalls(s), wcs[s])
                      /\ stage = "fill" => wcs[s] = MosaicCalls(s) \o MatchCalls
    BY DEF WcsInOrder
  <2>1. IsPrefix(wcs[s], MosaicCalls(s) \o MatchCalls \o <<"solve">>)
    BY WcsParts, PrefixOf
  <2>2. stage = "fill" => wcs[s] = MosaicCalls(s) \o MatchCalls
    BY DEF Matches
  <2> QED BY <2>1, <2>2, MosaicFirst
<1> QED BY <1>1, OrderInv, PTL

---------------------------------------------------------------------------
(* The results of the matching are shown in order *)

LEMMA SetRefined ==
  ASSUME NEW s \in Sets, wcs[s] = MosaicCalls(s) \o <<"align", "refine">>
  PROVE  IsSuffix(<<"refine">>, wcs[s])
<1>1. "align" \in Calibrations /\ "refine" \in Calibrations
  BY DEF Calibrations
<1>2. PICK M, F \in Seq(Calibrations) : M = MosaicCalls(s) /\ F = <<"align">>
  BY <1>1, CallsSeq, CalibrationSeqs
<1>3. M \o F \in Seq(Calibrations)
  BY <1>2, ConcatProperties
<1>4. Append(M \o F, "refine") = wcs[s]
  BY <1>1, <1>2, AppendLonger
<1>5. IsSuffix(<<"refine">>, Append(M \o F, "refine"))
  BY <1>1, <1>3, LastIsSuffix
<1> QED BY <1>4, <1>5

LEMMA ShownMatched ==
  ASSUME Matches, NEW m, NEW n, Cursors(m, n), stage = "match" => Matching(m, n),
         stage \in {"grouped", "mosaic"} => n = 0,
         stage \in {"fill", "solved"} => (n # 0 => prefs.match_flag),
         NEW i \in 1..n, NEW s \in SetsOf(FieldSeq[i])
  PROVE  IsSuffix(<<"refine">>, wcs[s]) \/ stage = "solved"
<1>1. i \in 1..Len(FieldSeq) /\ n # 0 /\ i <= m /\ fviewflag[FieldSeq[i]]
  <2>1. /\ Len(FieldSeq) \in Nat /\ m \in 0..Len(FieldSeq) /\ n \in 0..m
        /\ fviewflag[FieldSeq[i]]
    BY FieldOrder DEF Cursors, ShownTo
  <2> QED BY <2>1
<1>2. s \in Sets
  BY <1>1, SetsOfField
<1>3. CASE stage = "match"
  <2>1. \A w \in Workers : ~WorksOn(w, FieldSeq[i])
    BY <1>1, <1>3 DEF Matching, MatchTurns
  <2>2. wcs[s] = MosaicCalls(s) \o <<"align", "refine">>
    BY <1>1, <1>3, <2>1 DEF Matching, MatchWcs
  <2> QED BY <1>2, <2>2, SetRefined
<1>4. CASE stage = "fill"
  <2>1. wcs[s] = MosaicCalls(s) \o <<"align", "refine">>
    BY <1>1, <1>2, <1>4 DEF Matches, MatchCalls
  <2> QED BY <1>2, <2>1, SetRefined
<1> QED BY <1>1, <1>3, <1>4 DEF Matches, Stages

\* print_matchinfo shows the fields in the order of the groups, each after all
\* its sets are refined, whatever the order in which the workers of
\* pthread_match_fields are done with them, and all before the pool is over.
THEOREM MatchedInOrderHolds == Spec => []MatchedInOrder
<1>1. Life /\ Matches => MatchedInOrder
  <2> SUFFICES ASSUME Life, Matches PROVE MatchedInOrder
    OBVIOUS
  <2>1. PICK m, n : /\ Cursors(m, n)
                    /\ stage = "match" => Matching(m, n)
                    /\ stage \in {"grouped", "mosaic"} => n = 0
                    /\ stage \in {"fill", "solved"} => (n # 0 => prefs.match_flag)
    <3>1. CASE stage \in {"grouped", "mosaic"}
      BY <3>1 DEF Matches
    <3>2. CASE stage = "match"
      BY <3>2 DEF Matches, Matching
    <3>3. CASE stage \in {"fill", "solved"}
      BY <3>3 DEF Matches
    <3> QED BY <3>1, <3>2, <3>3 DEF Matches, Stages
  <2>2. /\ FieldSeq \in Seq(Fields) /\ Len(FieldSeq) \in Nat
        /\ m \in 0..Len(FieldSeq) /\ n \in 0..m /\ n \in Nat /\ n <= Len(FieldSeq)
        /\ shown = SubSeq(FieldSeq, 1, n)
    BY <2>1, FieldOrder DEF Cursors, ShownTo
  <2>3. /\ shown \in Seq(Fields) /\ Len(shown) = n /\ DOMAIN shown = 1..n
        /\ \A i \in 1..n : shown[i] = FieldSeq[i]
    <3>1. \A i \in 1..n : FieldSeq[i] \in Fields
      BY <2>2
    <3>2. /\ shown \in Seq(Fields) /\ Len(shown) = IF 1 <= n THEN n - 1 + 1 ELSE 0
          /\ \A i \in 1..n - 1 + 1 : shown[i] = FieldSeq[1 + i - 1]
      BY <2>2, <3>1, SubSeqProperties
    <3> QED BY <2>2, <3>2
  <2>4. IsPrefix(shown, FieldSeq)
    <3>1. SubSeq(shown, 1, Len(shown)) = shown
      BY <2>3, SubSeqFull
    <3> QED BY <2>2, <2>3, <3>1 DEF IsPrefix
  <2>5. \A i \in DOMAIN shown : \A s \in SetsOf(shown[i]) : IsSuffix(<<"refine">>, wcs[s])
                                                            \/ stage = "solved"
    BY <2>1, <2>3, ShownMatched
  <2>6. stage = "match" /\ MasterPastStop => shown = FieldSeq
    <3> SUFFICES ASSUME stage = "match", MasterPastStop PROVE shown = FieldSeq
      OBVIOUS
    <3>1. PoolInv
      BY DEF Life, NoPoolYet
    <3>2. n = Len(FieldSeq)
      BY <2>1, <3>1, MatchOver
    <3> QED BY <2>2, <3>2, SubSeqFull
  <2> QED BY <2>4, <2>5, <2>6 DEF MatchedInOrder
<1> QED BY <1>1, OrderInv, PTL

---------------------------------------------------------------------------
(* Types *)

LEMMA CalibratedTyped ==
  ASSUME wcs \in [Sets -> Seq(Calibrations)], NEW how \in Calibrations, NEW sets,
         Calibrated(sets, how)
  PROVE  wcs' \in [Sets -> Seq(Calibrations)]
<1>1. ASSUME NEW s \in Sets PROVE Append(wcs[s], how) \in Seq(Calibrations)
  <2>1. wcs[s] \in Seq(Calibrations)
    OBVIOUS
  <2> QED BY <2>1
<1> QED BY <1>1 DEF Calibrated

LEMMA RecentreTyped ==
  ASSUME wcs \in [Sets -> Seq(Calibrations)], Recentre
  PROVE  wcs' \in [Sets -> Seq(Calibrations)]
<1>1. "samecrval" \in Calibrations /\ "recentre" \in Calibrations
  BY DEF Calibrations
<1>2. ASSUME NEW s \in Sets
      PROVE  /\ Append(wcs[s], "samecrval") \in Seq(Calibrations)
             /\ Append(wcs[s], "recentre") \in Seq(Calibrations)
  <2>1. wcs[s] \in Seq(Calibrations)
    OBVIOUS
  <2> QED BY <1>1, <2>1
<1> QED BY <1>2 DEF Recentre

\* The calibrations of the sets, the mutex of the sorts and the axis.
OrderTypes == /\ wcs \in [Sets -> Seq(Calibrations)]
              /\ sortmutex \in Workers \cup {NoThread}
              /\ sort_coord \in {0, 1}

LEMMA OrderTypesNext ==
  ASSUME Life, Matches, OrderTypes, [Next]_vars
  PROVE  OrderTypes'
<1>1. CASE UNCHANGED vars
  BY <1>1 DEF vars, matchVars, OrderTypes
<1>2. CASE AdjustMosaic
  BY <1>2, RecentreTyped DEF AdjustMosaic, matchVars, OrderTypes
<1>3. CASE NextInstrument \/ StartMatch \/ StartSolve \/ FillStep
  BY <1>3 DEF NextInstrument, StartMatch, StartSolve, FillStep, matchVars, OrderTypes
<1>4. CASE Solve
  <2>1. "solve" \in Calibrations
    BY DEF Calibrations
  <2> QED BY <1>4, <2>1, CalibratedTyped DEF Solve, matchVars, OrderTypes
<1>5. CASE MosaicStep
  <2>1. "adjust" \in Calibrations
    BY DEF Calibrations
  <2>2. wcs' \in [Sets -> Seq(Calibrations)]
    BY <1>5, <2>1, CalibratedTyped
       DEF MosaicStep, MosaicReset, MosaicTurn, TakeDetector, NoDetector, AdjustSet, OrderTypes
  <2> QED BY <1>5, <2>2 DEF MosaicStep, matchVars, OrderTypes
<1>6. CASE MatchStep
  <2>1. "align" \in Calibrations /\ "refine" \in Calibrations
    BY DEF Calibrations
  <2>2. CASE MatchReset \/ (RunStep /\ UNCHANGED <<wcs, matchVars>>)
    BY <2>2 DEF MatchReset, matchVars, OrderTypes
  <2>3. ASSUME NEW w \in Workers, TakeField(w) \/ NoFieldLeft(w) \/ FieldDone(w) PROVE OrderTypes'
    BY <2>3 DEF TakeField, NoFieldLeft, FieldDone, matchVars, OrderTypes
  <2>4. ASSUME NEW w \in Workers, Align(w) \/ Refine(w) PROVE OrderTypes'
    BY <2>1, <2>4, CalibratedTyped DEF Align, Refine, Calibrate, OrderTypes
  <2>5. ASSUME NEW w \in Workers, Sort(w) PROVE OrderTypes'
    <3>1. matching[w] \in Fields
      BY <1>6, <2>5 DEF MatchStep, Sort, Matches, Matching, MatchTurns, MatchTypes
    <3>2. LatAxis[matching[w]] \in {0, 1}
      BY <3>1, LatAxisAssumption DEF LatAxisAssumption
    <3> QED BY <2>5, <3>2 DEF Sort, OrderTypes
  <2>6. ASSUME NEW w \in Workers, Sorted(w) PROVE OrderTypes'
    BY <2>6 DEF Sorted, OrderTypes
  <2> QED BY <1>6, <2>2, <2>3, <2>4, <2>5, <2>6 DEF MatchStep, MatchTurn
<1> QED BY <1>1, <1>2, <1>3, <1>4, <1>5, <1>6, NextSteps

\* A cursor is at most at the place of one that has passed more fields.
LEMMA FieldAtGrows ==
  ASSUME NEW m \in 0..Len(FieldSeq), NEW n \in 0..m
  PROVE  /\ FieldAt(m) \in Fields \cup {<<NGroup, 0>>}
         /\ FieldAt(n)[1] < FieldAt(m)[1]
            \/ (FieldAt(n)[1] = FieldAt(m)[1] /\ FieldAt(n)[2] <= FieldAt(m)[2])
<1> DEFINE NotAfter(a, b) == a[1] < b[1] \/ (a[1] = b[1] /\ a[2] <= b[2])
           Good == {k \in Nat : k <= Len(FieldSeq) => \A j \in 0..k : NotAfter(FieldAt(j), FieldAt(k))}
<1>1. FieldSeq \in Seq(Fields) /\ Len(FieldSeq) \in Nat /\ NGroup \in Nat
  BY FieldOrder, ShapeFacts
<1>2. ASSUME NEW k \in 0..Len(FieldSeq)
      PROVE  /\ FieldAt(k) \in Fields \cup {<<NGroup, 0>>}
             /\ FieldAt(k)[1] \in Nat /\ FieldAt(k)[2] \in Nat
             /\ FieldAt(k) \in Fields => NFieldOf(FieldAt(k)[1]) \in Nat
  <2>1. CASE k < Len(FieldSeq)
    <3>1. PICK fd \in Fields : fd = FieldAt(k)
      BY <2>1, CursorPlaces
    <3>2. fd = <<fd[1], fd[2]>>
      BY FieldFacts
    <3>3. fd[1] \in 0..NGroup - 1 /\ fd[2] \in 0..NFieldOf(fd[1]) - 1
      BY <3>1, <3>2, FieldFacts
    <3>4. NFieldOf(fd[1]) \in Nat
      BY <3>3, ShapeFacts
    <3> QED BY <1>1, <3>1, <3>3, <3>4
  <2>2. CASE ~(k < Len(FieldSeq))
    <3>1. FieldAt(k) = <<NGroup, 0>>
      BY <2>2 DEF FieldAt
    <3>2. <<NGroup, 0>> \notin Fields
      BY <1>1, FieldFacts
    <3> QED BY <1>1, <3>1, <3>2
  <2> QED BY <2>1, <2>2
<1>3. ASSUME NEW k \in 0..Len(FieldSeq) - 1 PROVE NotAfter(FieldAt(k), FieldAt(k + 1))
  <2>1. FieldAt(k + 1) = NextField(FieldAt(k)) /\ k \in 0..Len(FieldSeq)
    BY <1>1, FieldOrder
  <2> QED BY <1>2, <2>1 DEF NextField
<1>4. 0 \in Good
  <2>1. \A j \in 0..0 : j = 0
    OBVIOUS
  <2>2. 0 \in 0..Len(FieldSeq)
    BY <1>1
  <2> QED BY <1>2, <2>1, <2>2
<1>5. ASSUME NEW k \in Nat, k \in Good, k + 1 <= Len(FieldSeq), NEW j \in 0..k + 1
      PROVE  NotAfter(FieldAt(j), FieldAt(k + 1))
  <2>1. k \in 0..Len(FieldSeq) - 1 /\ k \in 0..Len(FieldSeq) /\ k + 1 \in 0..Len(FieldSeq)
        /\ j \in 0..Len(FieldSeq)
    BY <1>1, <1>5
  <2>2. CASE j = k + 1
    BY <1>2, <2>1, <2>2
  <2>3. CASE j # k + 1
    <3>1. NotAfter(FieldAt(j), FieldAt(k)) /\ NotAfter(FieldAt(k), FieldAt(k + 1))
      BY <1>1, <1>3, <1>5, <2>1, <2>3
    <3> QED BY <1>2, <2>1, <3>1
  <2> QED BY <2>2, <2>3
<1>6. \A k \in Nat : k \in Good
  <2>1. \A k \in Nat : k \in Good => k + 1 \in Good
    BY <1>5, SMTT(20)
  <2> HIDE DEF Good
  <2> QED BY <1>4, <2>1, NumberInduction
<1>7. m \in Nat /\ m <= Len(FieldSeq)
  BY <1>1
<1> QED BY <1>2, <1>6, <1>7

\* An update takes an existing mutex, for existing cells.
AnyUpdate == [lock : Locks, cells : SUBSET Cells]

RowsTyped == assigned.index \in [Sets -> Int] /\ assigned.index2 \in [Sets -> Int]

LEMMA AnyConstraint ==
  ASSUME NEW m \in Sets \cup {Reference}
  PROVE  Constraint(m) \in Seq(AnyUpdate)
<1>1. Constraint(m) \in Seq(Update)
  BY ConstraintUpdates
<1>2. Update \subseteq AnyUpdate
  BY DEF Update, AnyUpdate
<1> QED BY <1>1, <1>2

LEMMA AnyRowUpdate ==
  ASSUME NEW i \in Int, i \in Rows \cup {-1}, NEW kind \in {"mat", "mat2"}
  PROVE  RowUpdate(kind, i) \in Seq(AnyUpdate)
<1>1. CASE i < 0
  BY <1>1 DEF RowUpdate
<1>2. CASE ~(i < 0)
  <2>1. PICK n \in Nat \ {0} : n = IF kind = "mat" THEN NMatMutex ELSE NMatMutex2
    BY NMatMutexAssumption DEF NMatMutexAssumption
  <2>2. PICK lock : lock = <<kind, (i \div NCoeff) % n>>
    OBVIOUS
  <2>3. (i \div NCoeff) % n \in 0..n - 1
    <3>1. i \div NCoeff \in Int
      BY NCoeffAssumption DEF NCoeffAssumption
    <3>2. PICK d \in Int : d = i \div NCoeff
      BY <3>1
    <3>3. d % n \in 0..n - 1
      OBVIOUS
    <3> QED BY <3>2, <3>3
  <2>4. lock \in Locks
    BY <2>1, <2>2, <2>3 DEF Locks
  <2>5. i \in Rows
    BY <1>2
  <2>6. <<"row", i>> \in Cells
    BY <2>5 DEF Cells
  <2>7. PICK u : u = [lock |-> lock, cells |-> {<<"row", i>>}]
    OBVIOUS
  <2>8. u \in AnyUpdate
    BY <2>4, <2>6, <2>7 DEF AnyUpdate
  <2>9. RowUpdate(kind, i) = <<u>>
    BY <1>2, <2>1, <2>2, <2>7 DEF RowUpdate
  <2>10. <<u>> \in Seq(AnyUpdate)
    BY <2>8
  <2> QED BY <2>9, <2>10
<1> QED BY <1>1, <1>2

AnyLists == \A chains \in Seq(Seq(Sets \cup {Reference})) : SetUpdates(chains) \in Seq(AnyUpdate)

LEMMA AnyListsTyped == RowsTyped => AnyLists
<1> SUFFICES ASSUME RowsTyped PROVE AnyLists
  OBVIOUS
<1>1. ASSUME NEW m \in Sets \cup {Reference}
      PROVE  /\ IndexOf(m) \in Int /\ IndexOf(m) \in Rows \cup {-1}
             /\ Index2Of(m) \in Int /\ Index2Of(m) \in Rows \cup {-1}
  BY DEF RowsTyped, IndexOf, Index2Of, Index, Index2, Rows
<1>2. ASSUME NEW m \in Sets \cup {Reference}
      PROVE  /\ Constraint(m) \in Seq(AnyUpdate)
             /\ RowUpdate("mat", IndexOf(m)) \in Seq(AnyUpdate)
             /\ RowUpdate("mat2", Index2Of(m)) \in Seq(AnyUpdate)
  BY <1>1, AnyConstraint, AnyRowUpdate
<1> QED BY <1>2, UpdatesOfChains DEF AnyLists

\* What the workers still have to add, and what they have read, is in the arrays
\* that were allocated when the indices were assigned.
Allocated == /\ RowsTyped
             /\ updates \in [Sets -> Seq(AnyUpdate)] /\ todo \in [Workers -> Seq(AnyUpdate)]
             /\ DOMAIN cell = Cells
             /\ held \in [Locks -> Workers \cup {NoThread}]
             /\ DOMAIN register = Workers /\ \A w \in Workers : DOMAIN register[w] \subseteq Cells

FillTypes == /\ prefs \in Settings
             /\ stage \in {"grouped", "mosaic", "match"} => Unfilled
             /\ stage \in {"fill", "solved"} => Allocated

LEMMA SameAllocated ==
  ASSUME Allocated, UNCHANGED assigned
  PROVE  /\ RowsTyped' /\ Cells' = Cells /\ AnyUpdate' = AnyUpdate
         /\ UNCHANGED <<updates, todo, register, held, cell>> => Allocated'
<1>1. RowsTyped' /\ Cells' = Cells /\ AnyUpdate' = AnyUpdate
  BY DEF Allocated, RowsTyped, Cells, Rows, Index, Index2, AnyUpdate
<1>2. ASSUME UNCHANGED <<updates, todo, register, held, cell>> PROVE Allocated'
  BY <1>1, <1>2 DEF Allocated
<1> QED BY <1>1, <1>2

LEMMA StartAllocated ==
  ASSUME Unfilled, NEW chains \in ChainChoices, NEW stability \in [Labels -> StabilityTypes],
         StartFill(chains, stability)
  PROVE  Allocated'
<1>1. RowsTyped'
  <2>1. assigned' = Assigned(stability)
    BY DEF StartFill
  <2> QED BY <2>1, AssignedRows DEF RowsTyped
<1>2. updates' \in [Sets -> Seq(AnyUpdate')]
  <2>1. RowsTyped' => AnyLists'
    BY AnyListsTyped, PTL
  <2>2. \A s \in Sets : chains[s] \in Seq(Seq(Sets \cup {Reference}))
    BY ChainChoicesAssumption DEF ChainChoicesAssumption
  <2> QED BY <1>1, <2>1, <2>2 DEF StartFill, AnyLists
<1>3. DOMAIN cell' = Cells'
  BY DEF StartFill
<1>4. UNCHANGED <<todo, register, held>>
  BY DEF StartFill
<1>5. todo' \in [Workers -> Seq(AnyUpdate')]
  <2>1. <<>> \in Seq(AnyUpdate')
    OBVIOUS
  <2> QED BY <1>4, <2>1 DEF Unfilled
<1>6. DOMAIN register' = Workers /\ \A w \in Workers : DOMAIN register'[w] \subseteq Cells'
  <2>1. DOMAIN <<>> = {}
    OBVIOUS
  <2> QED BY <1>4, <2>1 DEF Unfilled
<1> QED BY <1>1, <1>2, <1>3, <1>4, <1>5, <1>6 DEF Allocated, Unfilled

LEMMA TurnAllocated ==
  ASSUME Allocated, NEW w \in Workers, Take(w) \/ Read(w) \/ Write(w),
         Take(w) => cursor \in Sets
  PROVE  Allocated'
<1>1. RowsTyped' /\ Cells' = Cells /\ AnyUpdate' = AnyUpdate
  BY SameAllocated DEF Take, Read, Write
<1>2. CASE Take(w)
  <2>1. updates[cursor] \in Seq(AnyUpdate)
    BY <1>2 DEF Allocated
  <2> QED BY <1>1, <1>2, <2>1 DEF Take, Allocated
<1>3. ASSUME Read(w) \/ Write(w)
      PROVE  /\ Head(todo[w]) \in AnyUpdate /\ Tail(todo[w]) \in Seq(AnyUpdate)
             /\ Head(todo[w]).lock \in Locks /\ Head(todo[w]).cells \subseteq Cells
  <2>1. todo[w] \in Seq(AnyUpdate) /\ todo[w] # <<>>
    BY <1>3 DEF Allocated, Read, Write
  <2>2. Head(todo[w]) \in AnyUpdate /\ Tail(todo[w]) \in Seq(AnyUpdate)
    BY <2>1
  <2> QED BY <2>2 DEF AnyUpdate
<1>4. CASE Read(w)
  <2>1. PICK u \in AnyUpdate : u = Head(todo[w])
    BY <1>3, <1>4
  <2>2. /\ held' = [held EXCEPT ![u.lock] = w]
        /\ register' = [register EXCEPT ![w] = [c \in u.cells |-> cell[c]]]
        /\ UNCHANGED <<updates, todo, cell>>
    BY <1>4, <2>1 DEF Read
  <2>3. u.lock \in Locks /\ u.cells \subseteq Cells
    BY <2>1 DEF AnyUpdate
  <2> QED BY <1>1, <2>2, <2>3 DEF Allocated
<1>5. CASE Write(w)
  <2>1. /\ held' = [held EXCEPT ![Head(todo[w]).lock] = NoThread]
        /\ DOMAIN cell' = DOMAIN cell
        /\ register' = [register EXCEPT ![w] = <<>>]
        /\ todo' = [todo EXCEPT ![w] = Tail(todo[w])]
        /\ UNCHANGED updates
    BY <1>5 DEF Write
  <2>2. DOMAIN <<>> = {}
    OBVIOUS
  <2> QED BY <1>1, <1>3, <1>5, <2>1, <2>2 DEF Allocated
<1> QED BY <1>2, <1>4, <1>5

LEMMA FillTypesNext ==
  ASSUME Life, Filling, FillTypes, [Next]_vars
  PROVE  FillTypes'
<1>1. CASE UNCHANGED vars
  <2>1. UNCHANGED <<stage, prefs, assigned, updates, todo, register, held, cell>>
    BY <1>1 DEF vars, fillVars
  <2>2. Allocated => Allocated'
    BY <2>1, SameAllocated
  <2> QED BY <2>1, <2>2 DEF FillTypes, Unfilled
<1>2. CASE AdjustMosaic \/ NextInstrument \/ StartMatch \/ MosaicStep \/ MatchStep
  <2>1. /\ stage \in {"grouped", "mosaic", "match"} /\ stage' \in {"grouped", "mosaic", "match"}
        /\ prefs' = prefs /\ UNCHANGED <<todo, register, held>>
    BY <1>2 DEF AdjustMosaic, NextInstrument, StartMatch, MosaicStep, MatchStep, fillVars
  <2> QED BY <2>1 DEF FillTypes, Unfilled
<1>3. CASE StartSolve
  <2>1. /\ stage \in {"mosaic", "match"} /\ stage' = "fill" /\ prefs' = prefs
        /\ \E c \in ChainChoices : StartFill(c, prefs.stability_type)
    BY <1>3 DEF StartSolve
  <2>2. Unfilled /\ prefs \in Settings
    BY <2>1 DEF FillTypes
  <2>3. prefs.stability_type \in [Labels -> StabilityTypes]
    BY <2>2, SettingsAssumption DEF SettingsAssumption
  <2>4. Allocated'
    BY <2>1, <2>2, <2>3, StartAllocated
  <2> QED BY <2>1, <2>2, <2>4 DEF FillTypes
<1>4. CASE Solve
  <2>1. /\ stage = "fill" /\ stage' = "solved" /\ prefs' = prefs
        /\ UNCHANGED <<assigned, updates, todo, register, held, cell>>
    BY <1>4 DEF Solve, fillVars
  <2>2. Allocated'
    BY <2>1, SameAllocated DEF FillTypes
  <2> QED BY <2>1, <2>2 DEF FillTypes
<1>5. CASE FillStep
  <2>1. stage = "fill" /\ stage' = "fill" /\ prefs' = prefs /\ Allocated
    BY <1>5 DEF FillStep, FillTypes
  <2>2. CASE ResetCursor \/ (RunStep /\ UNCHANGED fillVars) \/ \E w \in Workers : Idle(w) \/ SetDone(w)
    <3>1. UNCHANGED <<assigned, updates, todo, register, held, cell>>
      BY <2>2 DEF ResetCursor, Idle, SetDone, fillVars
    <3> QED BY <2>1, <3>1, SameAllocated DEF FillTypes
  <2>3. ASSUME NEW w \in Workers, Take(w) \/ Read(w) \/ Write(w) PROVE FillTypes'
    <3>1. Take(w) => cursor \in Sets
      BY AdvancePasses DEF Take, Filling
    <3>2. Allocated'
      BY <2>1, <2>3, <3>1, TurnAllocated
    <3> QED BY <2>1, <3>2 DEF FillTypes
  <2> QED BY <1>5, <2>2, <2>3 DEF FillStep, FillTurn
<1> QED BY <1>1, <1>2, <1>3, <1>4, <1>5, NextSteps

\* Whatever the settings and chains, no index leaves its array: the cursors of
\* the pools are at existing detectors, fields and sets or behind the last one,
\* the display never ahead of the matching; workers only take mutexes and add
\* to rows that exist.
THEOREM TypeOKHolds == Spec => []TypeOK
<1>1. Init => /\ Life /\ Filling /\ Mosaics /\ SortLocked /\ Matches
              /\ OrderTypes /\ FillTypes
  <2>1. Init => SortLocked
    BY DEF Init, MatchInit, SortLocked
  <2>2. Init => OrderTypes
    BY CalibrationSeqs DEF Init, MosaicInit, MatchInit, OrderTypes
  <2>3. Init => FillTypes
    BY DEF Init, FillInit, FillTypes, Unfilled
  <2> QED BY <2>1, <2>2, <2>3, LifeInit, FillingInit, MosaicsInit, MatchesInit
<1>2. /\ Life /\ Filling /\ Mosaics /\ SortLocked /\ Matches /\ OrderTypes /\ FillTypes
      /\ [Next]_vars
      => (Life /\ Filling /\ Mosaics /\ SortLocked /\ Matches /\ OrderTypes /\ FillTypes)'
  BY LifeNext, FillingNext, MosaicsNext, SortLockedNext, MatchesNext, OrderTypesNext, FillTypesNext
<1>3. ASSUME Life, Filling, Mosaics, SortLocked, Matches, OrderTypes, FillTypes
      PROVE  TypeOK
  <2>1. PoolTypeOK /\ stage \in Stages /\ prefs \in Settings
    BY <1>3 DEF Life, PoolInv, NoPoolYet, Matches
  <2>2. MosaicTypeOK
    BY <1>3 DEF Mosaics, OrderTypes, MosaicTypeOK
  <2>3. MatchTypeOK
    <3>1. PICK m, n : Cursors(m, n)
      <4>1. stage = "match" => \E m, n : Cursors(m, n)
        BY <1>3 DEF Matches, Matching
      <4>2. stage \in {"grouped", "mosaic"} => \E m, n : Cursors(m, n)
        BY <1>3 DEF Matches
      <4>3. stage \in {"fill", "solved"} => \E m, n : Cursors(m, n)
        BY <1>3 DEF Matches
      <4> QED BY <2>1, <4>1, <4>2, <4>3 DEF Stages
    <3>2. /\ m \in 0..Len(FieldSeq) /\ n \in 0..m /\ n \in 0..Len(FieldSeq)
          /\ <<gnext, fnext>> = FieldAt(m) /\ <<gview, fview>> = FieldAt(n)
          /\ shown = SubSeq(FieldSeq, 1, n) /\ FieldSeq \in Seq(Fields) /\ Len(FieldSeq) \in Nat
      BY <3>1, FieldOrder DEF Cursors, ShownTo
    <3>3. /\ <<gnext, fnext>> \in Fields \cup {<<NGroup, 0>>}
          /\ <<gview, fview>> \in Fields \cup {<<NGroup, 0>>}
          /\ gview < gnext \/ (gview = gnext /\ fview <= fnext)
      <4>1. /\ FieldAt(m) \in Fields \cup {<<NGroup, 0>>} /\ FieldAt(n) \in Fields \cup {<<NGroup, 0>>}
            /\ FieldAt(n)[1] < FieldAt(m)[1]
               \/ (FieldAt(n)[1] = FieldAt(m)[1] /\ FieldAt(n)[2] <= FieldAt(m)[2])
        <5>1. n \in 0..n
          BY <3>2
        <5> QED BY <3>2, <5>1, FieldAtGrows
      <4>2. /\ FieldAt(m)[1] = gnext /\ FieldAt(m)[2] = fnext
            /\ FieldAt(n)[1] = gview /\ FieldAt(n)[2] = fview
        BY <3>2
      <4> QED BY <3>2, <4>1, <4>2
    <3>4. shown \in Seq(Fields)
      <4>1. n \in Nat /\ n <= Len(FieldSeq) /\ \A i \in 1..n : FieldSeq[i] \in Fields
        BY <3>2
      <4> QED BY <3>2, <4>1, SubSeqProperties
    <3>5. /\ fviewflag \in [Fields -> BOOLEAN]
          /\ matching \in [Workers -> Fields \cup {NoField}]
          /\ \A w \in Workers : \A i \in DOMAIN mtodo[w] :
                 /\ mtodo[w][i].op \in {"align", "sort", "refine"}
                 /\ mtodo[w][i].sets \subseteq SetsOf(matching[w])
      <4>1. ASSUME NEW w \in Workers, NEW i \in DOMAIN mtodo[w] PROVE mtodo[w][i] \in Op
        <5>1. mtodo[w] \in Seq(Op)
          BY <1>3 DEF Matches, MatchTypes
        <5> QED BY <5>1
      <4> QED BY <1>3, <4>1 DEF Matches, MatchTypes, Op
    <3>6. sorting \subseteq Workers /\ sortmutex \in Workers \cup {NoThread} /\ sort_coord \in {0, 1}
      BY <1>3 DEF SortLocked, Sorts, OrderTypes
    <3> QED BY <3>3, <3>4, <3>5, <3>6 DEF MatchTypeOK
  <2>4. FillTypeOK
    <3>1. /\ \/ gindex = NGroup /\ findex = 0 /\ sindex = 0
             \/ <<gindex, findex, sindex>> \in Sets
          /\ filled \in [Sets -> Nat]
      BY <1>3 DEF Filling, CursorOK
    <3>2. CASE stage \in {"grouped", "mosaic", "match"}
      <4>1. Unfilled /\ DOMAIN <<>> = {}
        BY <1>3, <3>2 DEF FillTypes
      <4>2. \A w \in Workers : todo[w] = <<>> /\ register[w] = <<>>
        BY <4>1 DEF Unfilled
      <4>3. held \in [Locks -> Workers \cup {NoThread}]
        BY <4>1 DEF Unfilled
      <4>4. \A w \in Workers : DOMAIN todo[w] = {} /\ DOMAIN register[w] = {}
        BY <4>1, <4>2
      <4> QED BY <3>1, <4>3, <4>4 DEF FillTypeOK
    <3>3. CASE stage \in {"fill", "solved"}
      <4>1. Allocated
        BY <1>3, <3>3 DEF FillTypes
      <4>2. ASSUME NEW w \in Workers, NEW i \in DOMAIN todo[w] PROVE todo[w][i] \in AnyUpdate
        <5>1. todo[w] \in Seq(AnyUpdate)
          BY <4>1 DEF Allocated
        <5> QED BY <5>1
      <4>3. DOMAIN held = Locks /\ DOMAIN cell = Cells
        BY <4>1 DEF Allocated
      <4> QED BY <3>1, <4>1, <4>2, <4>3 DEF FillTypeOK, Allocated, AnyUpdate
    <3> QED BY <2>1, <3>2, <3>3 DEF Stages
  <2> QED BY <2>1, <2>2, <2>3, <2>4 DEF TypeOK
<1> QED BY <1>1, <1>2, <1>3, PTL DEF Spec

---------------------------------------------------------------------------
(* Every set takes its own coefficients from the solution *)

\* How the first walk tells the blocks of the fields of one instrument from
\* each other: each field starts behind those before it.
Ahead(stability, acc, f, g) ==
    IF stability[Label[f]] = "EXPOSURE"
    THEN acc.index[f] + NSetOf(f[1], f[2]) <= acc.index[g]
    ELSE acc.index2[f] < acc.index2[g]

\* The last block of a field of the instrument that was counted.
LastBlock(stability, acc, l) ==
    acc.findex2[l] - IF stability[l] = "INSTRUMENT" THEN 2 ELSE 1

Spread(stability, acc, m) ==
    \A i \in 1..m :
        LET g == FieldSeq[i]
        IN  /\ stability[Label[g]] # "EXPOSURE" =>
                  acc.index2[g] <= LastBlock(stability, acc, Label[g])
            /\ \A j \in 1..i - 1 : Label[FieldSeq[j]] = Label[g] =>
                  Ahead(stability, acc, FieldSeq[j], g)

LEMMA SpreadNext ==
  ASSUME NEW stability \in [Labels -> StabilityTypes], NEW acc \in Counts,
         NEW m \in 1..Len(FieldSeq), Walked(stability, acc, m - 1), Spread(stability, acc, m - 1),
         NEW next, next = CountField(stability, acc, FieldSeq[m])
  PROVE  Spread(stability, next, m)
<1>1. FieldSeq[m] \in Fields /\ Len(FieldSeq) \in Nat
  BY FieldOrder
<1>2. PICK fd, l, nset : fd = FieldSeq[m] /\ l = Label[fd] /\ nset = NSetOf(fd[1], fd[2])
  OBVIOUS
<1>3. /\ next \in Counts /\ l \in Labels /\ nset \in Nat \ {0}
      /\ \/ /\ stability[l] = "INSTRUMENT"
            /\ Recorded(next, acc, fd, l, 0, acc.findex2[l] - 1, nset, acc.findex2[l] + 1)
         \/ /\ stability[l] = "EXPOSURE"
            /\ Recorded(next, acc, fd, l, acc.findex[l], -1, acc.findex[l] + nset, -1)
         \/ /\ stability[l] = "PREDISTORTED"
            /\ Recorded(next, acc, fd, l, -1, acc.findex2[l], 0, acc.findex2[l] + 1)
  BY <1>1, <1>2, CountFieldCases
<1>4. /\ \A k \in Labels : acc.findex[k] \in Int /\ acc.findex2[k] \in Int
      /\ \A f \in Fields : acc.index[f] \in Int /\ acc.index2[f] \in Int
  BY DEF Counts
<1>5. ASSUME NEW i \in 1..m - 1
      PROVE  /\ i \in 1..Len(FieldSeq) /\ FieldSeq[i] \in Fields /\ FieldSeq[i] # fd
             /\ Label[FieldSeq[i]] \in Labels
             /\ next.index[FieldSeq[i]] = acc.index[FieldSeq[i]]
             /\ next.index2[FieldSeq[i]] = acc.index2[FieldSeq[i]]
  <2>1. i \in 1..Len(FieldSeq) /\ i # m
    BY <1>1
  <2>2. FieldSeq[i] \in Fields
    BY <2>1, FieldOrder
  <2>3. FieldSeq[i] # FieldSeq[m]
    BY <2>1, FieldOrder
  <2> QED BY <1>2, <1>3, <2>1, <2>2, <2>3 DEF Recorded, Labels
\* What the walk had found does not change, and blocks are only added.
<1>6. ASSUME NEW k \in Labels, stability[k] # "EXPOSURE"
      PROVE  LastBlock(stability, acc, k) <= LastBlock(stability, next, k)
  <2>1. next.findex2[k] = acc.findex2[k] \/ next.findex2[k] = acc.findex2[k] + 1
    BY <1>3, <1>6 DEF Recorded
  <2> QED BY <1>4, <2>1 DEF LastBlock
<1>7. ASSUME NEW i \in 1..m - 1, NEW g, g = FieldSeq[i]
      PROVE  /\ stability[Label[g]] # "EXPOSURE" =>
                   next.index2[g] <= LastBlock(stability, next, Label[g])
             /\ \A j \in 1..i - 1 : Label[FieldSeq[j]] = Label[g] =>
                   Ahead(stability, next, FieldSeq[j], g)
  <2>1. /\ stability[Label[g]] # "EXPOSURE" =>
              acc.index2[g] <= LastBlock(stability, acc, Label[g])
        /\ \A j \in 1..i - 1 : Label[FieldSeq[j]] = Label[g] =>
              Ahead(stability, acc, FieldSeq[j], g)
    BY <1>7 DEF Spread
  <2>2. g \in Fields /\ Label[g] \in Labels /\ next.index[g] = acc.index[g]
        /\ next.index2[g] = acc.index2[g] /\ acc.index2[g] \in Int
    BY <1>4, <1>5, <1>7
  <2>3. stability[Label[g]] # "EXPOSURE" => next.index2[g] <= LastBlock(stability, next, Label[g])
    <3>1. LastBlock(stability, acc, Label[g]) \in Int /\ LastBlock(stability, next, Label[g]) \in Int
      <4>1. acc.findex2[Label[g]] \in Int /\ next.findex2[Label[g]] \in Int
        BY <1>3, <1>4, <2>2 DEF Counts
      <4> QED BY <4>1 DEF LastBlock
    <3> QED BY <1>6, <2>1, <2>2, <3>1
  <2>4. ASSUME NEW j \in 1..i - 1, Label[FieldSeq[j]] = Label[g]
        PROVE  Ahead(stability, next, FieldSeq[j], g)
    <3>1. j \in 1..m - 1
      OBVIOUS
    <3>2. /\ next.index[FieldSeq[j]] = acc.index[FieldSeq[j]]
          /\ next.index2[FieldSeq[j]] = acc.index2[FieldSeq[j]]
      BY <1>5, <3>1
    <3>3. Ahead(stability, acc, FieldSeq[j], g)
      BY <2>1, <2>4
    <3> QED BY <2>2, <3>2, <3>3 DEF Ahead
  <2> QED BY <2>3, <2>4
<1>8. /\ stability[l] # "EXPOSURE" => next.index2[fd] <= LastBlock(stability, next, l)
      /\ stability[l] = "EXPOSURE" => next.index[fd] = acc.findex[l]
      /\ stability[l] # "EXPOSURE" => next.index2[fd] = LastBlock(stability, acc, l) + 1
  BY <1>3, <1>4 DEF Recorded, LastBlock
<1>9. ASSUME NEW j \in 1..m - 1, Label[FieldSeq[j]] = l
      PROVE  Ahead(stability, next, FieldSeq[j], fd)
  <2>1. PICK f \in Fields : f = FieldSeq[j]
    BY <1>5
  <2>2. /\ next.index[f] = acc.index[f] /\ next.index2[f] = acc.index2[f]
        /\ acc.index[f] \in Int /\ acc.index2[f] \in Int
    BY <1>4, <1>5, <2>1
  <2>3. CASE stability[l] = "EXPOSURE"
    <3>1. Found(stability, acc, l, NSetOf(f[1], f[2]), acc.index[f], acc.index2[f])
      BY <1>9, <2>1 DEF Walked
    <3>2. acc.index[f] + NSetOf(f[1], f[2]) <= acc.findex[l]
      BY <2>3, <3>1 DEF Found
    <3> QED BY <1>8, <1>9, <2>1, <2>2, <2>3, <3>2 DEF Ahead
  <2>4. CASE stability[l] # "EXPOSURE"
    <3>1. acc.index2[f] <= LastBlock(stability, acc, l)
      BY <1>9, <2>1, <2>4 DEF Spread
    <3>2. LastBlock(stability, acc, l) \in Int
      BY <1>3, <1>4 DEF LastBlock
    <3>3. next.index2[f] < next.index2[fd]
      BY <1>8, <2>2, <2>4, <3>1, <3>2
    <3> QED BY <1>9, <2>1, <2>4, <3>3 DEF Ahead
  <2> QED BY <2>3, <2>4
<1>10. ASSUME NEW i \in 1..m, NEW g, g = FieldSeq[i]
       PROVE  /\ stability[Label[g]] # "EXPOSURE" =>
                    next.index2[g] <= LastBlock(stability, next, Label[g])
              /\ \A j \in 1..i - 1 : Label[FieldSeq[j]] = Label[g] =>
                    Ahead(stability, next, FieldSeq[j], g)
  <2>1. CASE i = m
    BY <1>2, <1>8, <1>9, <1>10, <2>1
  <2>2. CASE i # m
    <3>1. i \in 1..m - 1
      BY <2>2
    <3> QED BY <1>7, <1>10, <3>1
  <2> QED BY <2>1, <2>2
<1> QED BY <1>10 DEF Spread

\* The blocks of two fields of one instrument.
Separate(stability, c, f, g) ==
    IF stability[Label[f]] = "EXPOSURE"
    THEN \/ c.index[f] + NSetOf(f[1], f[2]) <= c.index[g]
         \/ c.index[g] + NSetOf(g[1], g[2]) <= c.index[f]
    ELSE c.index2[f] # c.index2[g]

LEMMA CountedSpread ==
  ASSUME NEW stability \in [Labels -> StabilityTypes], NEW c, c = Counted(stability)
  PROVE  /\ \A f \in Fields : stability[Label[f]] # "EXPOSURE" =>
               c.index2[f] <= LastBlock(stability, c, Label[f])
         /\ \A f, g \in Fields : f # g /\ Label[f] = Label[g] => Separate(stability, c, f, g)
<1>1. PICK acc : /\ acc[0] = NoCounts
                 /\ \A m \in 0..Len(FieldSeq) : acc[m] \in Counts
                 /\ \A m \in 1..Len(FieldSeq) :
                       acc[m] = CountField(stability, acc[m - 1], FieldSeq[m])
                 /\ c = acc[Len(FieldSeq)]
  BY CountedSteps
<1>2. Len(FieldSeq) \in Nat
  BY FieldOrder
<1> DEFINE Good == {m \in Nat : m <= Len(FieldSeq) =>
                        Walked(stability, acc[m], m) /\ Spread(stability, acc[m], m)}
<1>3. 0 \in Good
  <2>1. 1..0 = {}
    OBVIOUS
  <2> QED BY <1>1, <2>1 DEF Walked, Spread, NoCounts
<1>4. ASSUME NEW m \in Nat, m \in Good PROVE m + 1 \in Good
  <2> SUFFICES ASSUME m + 1 <= Len(FieldSeq)
               PROVE  /\ Walked(stability, acc[m + 1], m + 1)
                      /\ Spread(stability, acc[m + 1], m + 1)
    OBVIOUS
  <2>1. m + 1 \in 1..Len(FieldSeq) /\ (m + 1) - 1 = m /\ m <= Len(FieldSeq) /\ m \in 0..Len(FieldSeq)
    BY <1>2
  <2>2. acc[m + 1] = CountField(stability, acc[m], FieldSeq[m + 1]) /\ acc[m] \in Counts
    BY <1>1, <2>1
  <2>3. Walked(stability, acc[m], (m + 1) - 1) /\ Spread(stability, acc[m], (m + 1) - 1)
    BY <1>4, <2>1
  <2> QED BY <2>1, <2>2, <2>3, WalkedNext, SpreadNext
<1> HIDE DEF Good
<1>5. Spread(stability, c, Len(FieldSeq))
  <2>1. Len(FieldSeq) \in Good
    BY <1>2, <1>3, <1>4, NumberInduction
  <2>2. Len(FieldSeq) <= Len(FieldSeq)
    BY <1>2
  <2> QED BY <1>1, <2>1, <2>2 DEF Good
<1>6. \A f \in Fields : \E p \in 1..Len(FieldSeq) : FieldSeq[p] = f
  BY FieldOrder
<1>7. ASSUME NEW f \in Fields, stability[Label[f]] # "EXPOSURE"
      PROVE  c.index2[f] <= LastBlock(stability, c, Label[f])
  <2>1. PICK p \in 1..Len(FieldSeq) : FieldSeq[p] = f
    BY <1>6
  <2> QED BY <1>5, <1>7, <2>1 DEF Spread
<1>8. ASSUME NEW f \in Fields, NEW g \in Fields, f # g, Label[f] = Label[g]
      PROVE  Separate(stability, c, f, g)
  <2>1. PICK p \in 1..Len(FieldSeq) : FieldSeq[p] = f
    BY <1>6
  <2>2. PICK q \in 1..Len(FieldSeq) : FieldSeq[q] = g
    BY <1>6
  <2>3. p \in 1..q - 1 \/ q \in 1..p - 1
    BY <1>2, <1>8, <2>1, <2>2
  <2>4. Ahead(stability, c, f, g) \/ Ahead(stability, c, g, f)
    BY <1>5, <1>8, <2>1, <2>2, <2>3 DEF Spread
  <2>5. c.index2[f] \in Int /\ c.index2[g] \in Int
    BY CountedFound DEF Counts
  <2> QED BY <1>8, <2>4, <2>5 DEF Ahead, Separate
<1> QED BY <1>7, <1>8

\* Sets that have one block of instrument coefficients.
Shared(stability, s, t) ==
    \/ s = t
    \/ /\ Label[FieldOf(s)] = Label[FieldOf(t)] /\ s[3] = t[3]
       /\ stability[Label[FieldOf(s)]] = "INSTRUMENT"

Fitted(stability, s) == stability[Label[FieldOf(s)]] # "PREDISTORTED"

\* The blocks of the instruments are numbered without gaps, one for every set
\* or for all sets at one place in the fields of an instrument.
LEMMA InstrumentBlocks ==
  ASSUME NEW stability \in [Labels -> StabilityTypes], NEW c, c = Counted(stability),
         NEW x, x = [s \in Sets |-> c.index[FieldOf(s)] + Before(c.findex, Label[FieldOf(s)]) + s[3]]
  PROVE  /\ Before(c.findex, NLabel) \in Nat
         /\ \A s \in Sets : Fitted(stability, s) => x[s] \in 0..Before(c.findex, NLabel) - 1
         /\ \A s, t \in Sets : Fitted(stability, s) /\ Fitted(stability, t) =>
               (x[s] = x[t] <=> Shared(stability, s, t))
<1>1. /\ c \in Counts /\ \A l \in Labels : c.findex[l] >= 0
      /\ \A fd \in Fields : Found(stability, c, Label[fd], NSetOf(fd[1], fd[2]),
                                  c.index[fd], c.index2[fd])
  BY CountedFound
<1>2. c.findex \in [Labels -> Int] /\ \A fd \in Fields : c.index[fd] \in Int
  BY <1>1 DEF Counts
<1>3. NLabel \in Nat /\ Labels = 0..NLabel - 1
  BY LabelFacts
<1> DEFINE B(l) == Before(c.findex, l)
<1>4. B(NLabel) \in Nat /\ \A l \in Labels : B(l) \in Nat /\ B(l) + c.findex[l] <= B(NLabel)
  <2>1. NLabel \in 0..NLabel /\ \A k \in 0..NLabel - 1 : c.findex[k] >= 0
    BY <1>1, <1>3
  <2>2. /\ 0 <= B(NLabel)
        /\ \A l \in 0..NLabel - 1 : B(l) + c.findex[l] <= B(NLabel)
    BY <1>2, <2>1, BeforeGrows
  <2>3. B(NLabel) \in Int
    BY <1>2, BeforeNext
  <2>4. ASSUME NEW l \in Labels PROVE 0 <= B(l) /\ B(l) \in Int
    <3>1. l \in 0..NLabel /\ \A k \in 0..l - 1 : c.findex[k] >= 0
      BY <1>1, <1>3
    <3> QED BY <1>2, <3>1, BeforeGrows, BeforeNext
  <2> QED BY <1>3, <2>2, <2>3, <2>4
<1>5. ASSUME NEW k \in Labels, NEW l \in Labels, k < l PROVE B(k) + c.findex[k] <= B(l)
  <2>1. l \in 0..NLabel /\ k \in 0..l - 1 /\ \A j \in 0..l - 1 : c.findex[j] >= 0
    BY <1>1, <1>3, <1>5
  <2> QED BY <1>2, <2>1, BeforeGrows
<1> HIDE DEF B
<1>6. ASSUME NEW s \in Sets
      PROVE  /\ FieldOf(s) \in Fields /\ Label[FieldOf(s)] \in Labels /\ s[3] \in Nat
             /\ s[3] < NSetOf(FieldOf(s)[1], FieldOf(s)[2])
             /\ NSetOf(FieldOf(s)[1], FieldOf(s)[2]) \in Nat
             /\ c.findex[Label[FieldOf(s)]] \in Int /\ c.index[FieldOf(s)] \in Int
             /\ x[s] = c.index[FieldOf(s)] + B(Label[FieldOf(s)]) + s[3]
             /\ Fitted(stability, s) =>
                   /\ c.index[FieldOf(s)] >= 0
                   /\ c.index[FieldOf(s)] + NSetOf(FieldOf(s)[1], FieldOf(s)[2])
                          <= c.findex[Label[FieldOf(s)]]
  <2>1. FieldOf(s) \in Fields /\ s[3] \in Nat /\ s[3] < NSetOf(s[1], s[2])
        /\ FieldOf(s)[1] = s[1] /\ FieldOf(s)[2] = s[2]
    BY SetFacts, SetNumbers DEF FieldOf
  <2>2. NSetOf(FieldOf(s)[1], FieldOf(s)[2]) \in Nat
    BY <2>1, FieldFacts, ShapeFacts
  <2>3. Label[FieldOf(s)] \in Labels
    BY <2>1 DEF Labels
  <2>4. Found(stability, c, Label[FieldOf(s)], NSetOf(FieldOf(s)[1], FieldOf(s)[2]),
              c.index[FieldOf(s)], c.index2[FieldOf(s)])
    BY <1>1, <2>1
  <2>5. Fitted(stability, s) =>
           /\ c.index[FieldOf(s)] >= 0
           /\ c.index[FieldOf(s)] + NSetOf(FieldOf(s)[1], FieldOf(s)[2])
                  <= c.findex[Label[FieldOf(s)]]
    BY <2>4 DEF Found, Fitted
  <2> QED BY <1>2, <2>1, <2>2, <2>3, <2>5 DEF B
<1>7. ASSUME NEW s \in Sets, Fitted(stability, s)
      PROVE  /\ x[s] \in Int /\ B(Label[FieldOf(s)]) <= x[s]
             /\ x[s] < B(Label[FieldOf(s)]) + c.findex[Label[FieldOf(s)]]
             /\ x[s] \in 0..B(NLabel) - 1
  <2>1. PICK l \in Labels, i \in Int, n \in Nat, p \in Nat :
           /\ l = Label[FieldOf(s)] /\ i = c.index[FieldOf(s)] /\ p = s[3]
           /\ n = NSetOf(FieldOf(s)[1], FieldOf(s)[2])
    BY <1>6
  <2>2. /\ x[s] = i + B(l) + p /\ p < n /\ i >= 0 /\ i + n <= c.findex[l]
        /\ B(l) \in Nat /\ c.findex[l] \in Int /\ B(l) + c.findex[l] <= B(NLabel)
        /\ B(NLabel) \in Nat
    BY <1>4, <1>6, <1>7, <2>1
  <2> QED BY <2>1, <2>2
<1>8. ASSUME NEW s \in Sets, NEW t \in Sets, Fitted(stability, s), Fitted(stability, t),
             Label[FieldOf(s)] # Label[FieldOf(t)]
      PROVE  x[s] # x[t] /\ ~Shared(stability, s, t)
  <2>1. PICK k \in Labels, l \in Labels : k = Label[FieldOf(s)] /\ l = Label[FieldOf(t)]
    BY <1>6
  <2>2. k < l \/ l < k
    BY <1>3, <1>8, <2>1
  <2>3. /\ B(k) + c.findex[k] <= B(l) \/ B(l) + c.findex[l] <= B(k)
    BY <1>5, <2>2
  <2>4. /\ B(k) \in Nat /\ B(l) \in Nat /\ c.findex[k] \in Int /\ c.findex[l] \in Int
    BY <1>2, <1>4
  <2>5. /\ x[s] \in Int /\ B(k) <= x[s] /\ x[s] < B(k) + c.findex[k]
        /\ x[t] \in Int /\ B(l) <= x[t] /\ x[t] < B(l) + c.findex[l]
    BY <1>7, <1>8, <2>1
  <2>6. x[s] # x[t]
    BY <2>3, <2>4, <2>5
  <2> QED BY <1>8, <2>6 DEF Shared
<1>9. ASSUME NEW s \in Sets, NEW t \in Sets, Fitted(stability, s), Fitted(stability, t),
             Label[FieldOf(s)] = Label[FieldOf(t)]
      PROVE  x[s] = x[t] <=> Shared(stability, s, t)
  <2>1. PICK l \in Labels : l = Label[FieldOf(s)] /\ l = Label[FieldOf(t)]
    BY <1>6, <1>9
  <2>2. /\ B(l) \in Nat /\ s[3] \in Nat /\ t[3] \in Nat
        /\ c.index[FieldOf(s)] \in Int /\ c.index[FieldOf(t)] \in Int
        /\ x[s] = c.index[FieldOf(s)] + B(l) + s[3]
        /\ x[t] = c.index[FieldOf(t)] + B(l) + t[3]
    BY <1>4, <1>6, <2>1
  <2>3. s = <<s[1], s[2], s[3]>> /\ t = <<t[1], t[2], t[3]>>
    BY SetFacts
  <2>4. CASE FieldOf(s) = FieldOf(t)
    <3>1. x[s] = x[t] <=> s[3] = t[3]
      BY <2>2, <2>4
    <3>2. s[1] = t[1] /\ s[2] = t[2]
      BY <2>4 DEF FieldOf
    <3>3. s[3] = t[3] => s = t
      BY <2>3, <3>2
    <3> QED BY <3>1, <3>3 DEF Shared
  <2>5. CASE FieldOf(s) # FieldOf(t) /\ stability[l] = "INSTRUMENT"
    <3>1. c.index[FieldOf(s)] = 0 /\ c.index[FieldOf(t)] = 0
      BY <1>1, <1>6, <2>1, <2>5 DEF Found
    <3>2. x[s] = x[t] <=> s[3] = t[3]
      BY <2>2, <3>1
    <3> QED BY <2>1, <2>5, <3>2 DEF Shared
  <2>6. CASE FieldOf(s) # FieldOf(t) /\ stability[l] # "INSTRUMENT"
    <3>1. stability[l] = "EXPOSURE"
      BY <1>9, <2>1, <2>6 DEF StabilityTypes, Fitted
    <3>2. Separate(stability, c, FieldOf(s), FieldOf(t))
      BY <1>6, <2>1, <2>6, CountedSpread
    <3>3. \/ c.index[FieldOf(s)] + NSetOf(FieldOf(s)[1], FieldOf(s)[2]) <= c.index[FieldOf(t)]
          \/ c.index[FieldOf(t)] + NSetOf(FieldOf(t)[1], FieldOf(t)[2]) <= c.index[FieldOf(s)]
      BY <2>1, <3>1, <3>2 DEF Separate
    <3>4. PICK m \in Nat, n \in Nat : /\ m = NSetOf(FieldOf(s)[1], FieldOf(s)[2]) /\ s[3] < m
                                      /\ n = NSetOf(FieldOf(t)[1], FieldOf(t)[2]) /\ t[3] < n
      BY <1>6
    <3>5. x[s] # x[t]
      BY <2>2, <3>3, <3>4
    <3> QED BY <2>1, <2>6, <3>1, <3>5 DEF Shared
  <2> QED BY <2>4, <2>5, <2>6
<1> QED BY <1>4, <1>7, <1>8, <1>9 DEF B

\* The coefficients before a label depend on the counts of the labels before it.
LEMMA BeforeSame ==
  ASSUME NEW count \in [Labels -> Int], NEW other \in [Labels -> Int], NEW l \in 0..NLabel,
         \A k \in 0..l - 1 : count[k] = other[k]
  PROVE  Before(count, l) = Before(other, l)
<1> DEFINE Good == {m \in Nat : m <= l => Before(count, m) = Before(other, m)}
<1>1. 0 \in Good
  BY BeforeNext
<1>2. ASSUME NEW m \in Nat, m \in Good PROVE m + 1 \in Good
  <2> SUFFICES ASSUME m + 1 <= l PROVE Before(count, m + 1) = Before(other, m + 1)
    OBVIOUS
  <2>1. m \in Labels /\ m \in 0..l - 1 /\ m <= l
    BY LabelFacts
  <2>2. Before(count, m) = Before(other, m) /\ count[m] = other[m]
    BY <1>2, <2>1
  <2>3. /\ Before(count, m + 1) = Before(count, m) + count[m]
        /\ Before(other, m + 1) = Before(other, m) + other[m]
    BY <2>1, BeforeNext
  <2> QED BY <2>2, <2>3
<1> HIDE DEF Good
<1>3. l \in Good
  BY <1>1, <1>2, NumberInduction
<1> QED BY <1>3 DEF Good

\* The test of astrsolve.c:279 counts one block too few for every pre-distorted
\* instrument unless the last field is of such an instrument.
PredistortedLast(stability) ==
    (\E l \in Labels : stability[l] = "PREDISTORTED") =>
        stability[Label[Last(FieldSeq)]] = "PREDISTORTED"

\* Then every field with a block of its own has another one.
LEMMA ExposureBlocks ==
  ASSUME NEW stability \in [Labels -> StabilityTypes], NEW c, c = Counted(stability),
         ExposuresLast(stability), PredistortedLast(stability),
         NEW d, d = IF stability[Label[Last(FieldSeq)]] # "PREDISTORTED" THEN 1 ELSE 0,
         NEW F, F = [l \in Labels |-> c.findex2[l] - d],
         NEW P, P = [l \in Labels |-> IF F[l] > 0 THEN F[l] ELSE 0],
         NEW y, y = [fd \in Fields |-> c.index2[fd] + Before(F, Label[fd])]
  PROVE  /\ Before(P, NLabel) \in Nat
         /\ \A f \in Fields : c.index2[f] >= 0 => y[f] \in 0..Before(P, NLabel) - 1
         /\ \A f, g \in Fields : f # g /\ c.index2[f] >= 0 /\ c.index2[g] >= 0 => y[f] # y[g]
<1>1. /\ c \in Counts
      /\ \A fd \in Fields : Found(stability, c, Label[fd], NSetOf(fd[1], fd[2]),
                                  c.index[fd], c.index2[fd])
      /\ \A fd \in Fields : stability[Label[fd]] # "EXPOSURE" => c.findex2[Label[fd]] >= 1
  BY CountedFound
<1>2. NLabel \in Nat /\ Labels = 0..NLabel - 1
  BY LabelFacts
<1>3. d \in {0, 1} /\ (d = 1 => \A l \in Labels : stability[l] # "PREDISTORTED")
  BY DEF PredistortedLast
<1>4. \A l \in Labels : c.findex2[l] \in Int /\ F[l] = c.findex2[l] - d /\ F[l] \in Int
  BY <1>1, <1>3 DEF Counts
<1>5. F \in [Labels -> Int] /\ P \in [Labels -> Int] /\ \A l \in Labels : P[l] >= 0
  BY <1>4
<1> DEFINE B(l) == Before(P, l)
<1>6. B(NLabel) \in Nat /\ \A l \in Labels : B(l) \in Nat /\ B(l) + P[l] <= B(NLabel)
  <2>1. NLabel \in 0..NLabel /\ \A k \in 0..NLabel - 1 : P[k] >= 0
    BY <1>2, <1>5
  <2>2. /\ 0 <= B(NLabel)
        /\ \A l \in 0..NLabel - 1 : B(l) + P[l] <= B(NLabel)
    BY <1>5, <2>1, BeforeGrows
  <2>3. B(NLabel) \in Int
    BY <1>5, BeforeNext
  <2>4. ASSUME NEW l \in Labels PROVE 0 <= B(l) /\ B(l) \in Int
    <3>1. l \in 0..NLabel /\ \A k \in 0..l - 1 : P[k] >= 0
      BY <1>2, <1>5
    <3> QED BY <1>5, <3>1, BeforeGrows, BeforeNext
  <2> QED BY <1>2, <2>2, <2>3, <2>4
<1>7. ASSUME NEW k \in Labels, NEW l \in Labels, k < l PROVE B(k) + P[k] <= B(l)
  <2>1. l \in 0..NLabel /\ k \in 0..l - 1 /\ \A j \in 0..l - 1 : P[j] >= 0
    BY <1>2, <1>5, <1>7
  <2> QED BY <1>5, <2>1, BeforeGrows
<1>8. ASSUME NEW k \in Labels, stability[k] # "EXPOSURE" PROVE F[k] >= 0 /\ P[k] = F[k]
  <2>1. PICK fd \in Fields : k = Label[fd]
    BY DEF Labels
  <2>2. c.findex2[k] >= 1
    BY <1>1, <1>8, <2>1
  <2>3. F[k] >= 0 /\ F[k] \in Int
    BY <1>3, <1>4, <2>2
  <2> QED BY <2>3
<1>9. ASSUME NEW l \in Labels, stability[l] # "EXPOSURE" PROVE Before(F, l) = B(l)
  <2>1. ASSUME NEW k \in 0..l - 1 PROVE F[k] = P[k]
    <3>1. k \in Labels /\ k < l
      BY <1>2
    <3>2. stability[k] # "EXPOSURE"
      BY <1>9, <3>1 DEF ExposuresLast
    <3> QED BY <1>8, <3>1, <3>2
  <2>2. l \in 0..NLabel
    BY <1>2
  <2> QED BY <1>5, <2>1, <2>2, BeforeSame
<1>10. ASSUME NEW f \in Fields, c.index2[f] >= 0
       PROVE  /\ Label[f] \in Labels /\ c.index2[f] \in Int
              /\ stability[Label[f]] # "EXPOSURE"
              /\ y[f] = c.index2[f] + B(Label[f])
              /\ c.index2[f] < P[Label[f]]
  <2>1. Label[f] \in Labels /\ c.index2[f] \in Int
    BY <1>1 DEF Labels, Counts
  <2>2. stability[Label[f]] # "EXPOSURE"
    BY <1>1, <1>10 DEF Found
  <2>3. y[f] = c.index2[f] + B(Label[f])
    BY <1>9, <2>1, <2>2
  <2>4. c.index2[f] <= LastBlock(stability, c, Label[f])
    BY <2>2, CountedSpread
  <2>5. LastBlock(stability, c, Label[f]) < F[Label[f]]
    <3>1. CASE stability[Label[f]] = "INSTRUMENT"
      BY <1>3, <1>4, <2>1, <3>1 DEF LastBlock
    <3>2. CASE stability[Label[f]] # "INSTRUMENT"
      <4>1. stability[Label[f]] = "PREDISTORTED"
        BY <2>1, <2>2, <3>2 DEF StabilityTypes
      <4>2. d = 0
        BY <1>3, <2>1, <4>1
      <4> QED BY <1>4, <2>1, <3>2, <4>2 DEF LastBlock
    <3> QED BY <3>1, <3>2
  <2>6. P[Label[f]] = F[Label[f]]
    BY <1>8, <2>1, <2>2
  <2>7. LastBlock(stability, c, Label[f]) \in Int
    BY <1>4, <2>1 DEF LastBlock
  <2>8. F[Label[f]] \in Int
    BY <1>4, <2>1
  <2>9. c.index2[f] < P[Label[f]]
    BY <2>1, <2>4, <2>5, <2>6, <2>7, <2>8
  <2> QED BY <2>1, <2>2, <2>3, <2>9
<1> HIDE DEF B
<1>11. ASSUME NEW f \in Fields, c.index2[f] >= 0
       PROVE  /\ y[f] \in Int /\ B(Label[f]) <= y[f] /\ y[f] < B(Label[f]) + P[Label[f]]
              /\ y[f] \in 0..B(NLabel) - 1
  <2>1. PICK l \in Labels, i \in Int : l = Label[f] /\ i = c.index2[f]
    BY <1>10, <1>11
  <2>2. y[f] = i + B(l) /\ i < P[l] /\ i >= 0
    BY <1>10, <1>11, <2>1
  <2>3. B(l) \in Nat /\ P[l] \in Int /\ B(l) + P[l] <= B(NLabel) /\ B(NLabel) \in Nat
    BY <1>5, <1>6
  <2> QED BY <2>1, <2>2, <2>3
<1>12. ASSUME NEW f \in Fields, NEW g \in Fields, f # g, c.index2[f] >= 0, c.index2[g] >= 0
       PROVE  y[f] # y[g]
  <2>1. PICK k \in Labels, l \in Labels : k = Label[f] /\ l = Label[g]
    BY <1>10, <1>12
  <2>2. CASE k = l
    <3>1. Separate(stability, c, f, g)
      BY <1>12, <2>1, <2>2, CountedSpread
    <3>2. c.index2[f] # c.index2[g]
      BY <1>10, <1>12, <3>1 DEF Separate
    <3>3. /\ c.index2[f] \in Int /\ c.index2[g] \in Int /\ B(l) \in Nat
          /\ y[f] = c.index2[f] + B(l) /\ y[g] = c.index2[g] + B(l)
      BY <1>6, <1>10, <1>12, <2>1, <2>2
    <3> QED BY <3>2, <3>3
  <2>3. CASE k # l
    <3>1. k < l \/ l < k
      BY <1>2, <2>3
    <3>2. /\ B(k) + P[k] <= B(l) \/ B(l) + P[l] <= B(k)
      BY <1>7, <3>1 DEF B
    <3>3. B(k) \in Nat /\ B(l) \in Nat /\ P[k] \in Int /\ P[l] \in Int
      BY <1>5, <1>6
    <3>4. /\ y[f] \in Int /\ B(k) <= y[f] /\ y[f] < B(k) + P[k]
          /\ y[g] \in Int /\ B(l) <= y[g] /\ y[g] < B(l) + P[l]
      BY <1>11, <1>12, <2>1
    <3> QED BY <3>2, <3>3, <3>4
  <2> QED BY <2>2, <2>3
<1> QED BY <1>6, <1>11, <1>12 DEF B

\* What the assignment of blocks promises: blocks of sets are one or apart,
\* blocks of fields are apart and behind those of sets, and all are within
\* the equations.
Blocks(stability, a) ==
    /\ a.ncoefftot \in Nat
    /\ a.index \in [Sets -> Int] /\ a.findex2 \in [Fields -> Int]
    /\ a.index2 = [s \in Sets |-> a.findex2[FieldOf(s)]]
    /\ a.ncoeff = [s \in Sets |-> NCoeff] /\ a.ncoeff2 = [fd \in Fields |-> NCoeff2]
    /\ \A s \in Sets : /\ FieldOf(s) \in a.hasIndex <=> a.index[s] >= 0
                       /\ a.index[s] >= 0 \/ a.index[s] = -1
                       /\ a.index[s] >= 0 <=> Fitted(stability, s)
                       /\ a.index[s] >= 0 => a.index[s] + NCoeff <= a.ncoefftot
    /\ \A s, t \in Sets : a.index[s] >= 0 /\ a.index[t] >= 0 =>
          IF Shared(stability, s, t) THEN a.index[s] = a.index[t]
          ELSE a.index[s] + NCoeff <= a.index[t] \/ a.index[t] + NCoeff <= a.index[s]
    /\ \A f \in Fields : /\ a.findex2[f] >= 0 \/ a.findex2[f] = -1
                         /\ a.findex2[f] >= 0 => a.findex2[f] + NCoeff2 <= a.ncoefftot
    /\ \A f, g \in Fields : f # g /\ a.findex2[f] >= 0 /\ a.findex2[g] >= 0 =>
          a.findex2[f] + NCoeff2 <= a.findex2[g] \/ a.findex2[g] + NCoeff2 <= a.findex2[f]
    /\ \A s \in Sets, f \in Fields : a.index[s] >= 0 /\ a.findex2[f] >= 0 =>
          a.index[s] + NCoeff <= a.findex2[f]

\* Multiples of n are at least n apart.
LEMMA Multiples ==
  ASSUME NEW n \in Nat, NEW x \in Int, NEW y \in Int
  PROVE  /\ n * x \in Int /\ (x >= 0 => n * x >= 0)
         /\ x < y => n * x + n <= n * y
<1>1. ASSUME x < y PROVE n * x + n <= n * y
  <2>1. PICK k \in Nat : y = x + 1 + k
    <3>1. y - x - 1 \in Nat /\ y = x + 1 + (y - x - 1)
      BY <1>1
    <3> QED BY <3>1
  <2>2. n * y = n * x + n + n * k /\ n * k \in Nat /\ n * x \in Int
    BY <2>1
  <2> QED BY <2>2
<1>2. n * x \in Int /\ (x >= 0 => n * x >= 0)
  OBVIOUS
<1> QED BY <1>1, <1>2

LEMMA AssignedBlocks ==
  ASSUME NEW stability \in [Labels -> StabilityTypes], NEW a, a = Assigned(stability),
         ExposuresLast(stability), PredistortedLast(stability)
  PROVE  Blocks(stability, a)
<1>1. PICK c : c = Counted(stability)
  OBVIOUS
<1>2. PICK d \in {0, 1} :
         d = IF stability[Label[Last(FieldSeq)]] # "PREDISTORTED" THEN 1 ELSE 0
  OBVIOUS
<1>3. PICK F : F = [l \in Labels |-> c.findex2[l] - d]
  OBVIOUS
<1>4. PICK P : P = [l \in Labels |-> IF F[l] > 0 THEN F[l] ELSE 0]
  OBVIOUS
<1>5. PICK E, G : E = Before(c.findex, NLabel) /\ G = Before(P, NLabel)
  OBVIOUS
<1>6. PICK x : x = [s \in Sets |-> c.index[FieldOf(s)] + Before(c.findex, Label[FieldOf(s)]) + s[3]]
  OBVIOUS
<1>7. PICK y : y = [fd \in Fields |-> c.index2[fd] + Before(F, Label[fd])]
  OBVIOUS
<1>8. PICK start : start = NCoeff * E
  OBVIOUS
<1>9. /\ a.ncoefftot = start + NCoeff2 * G
      /\ a.hasIndex = {fd \in Fields : c.index[fd] >= 0}
      /\ a.ncoeff = [s \in Sets |-> NCoeff] /\ a.ncoeff2 = [fd \in Fields |-> NCoeff2]
  BY <1>1, <1>2, <1>3, <1>4, <1>5, <1>8 DEF Assigned
<1>10. a.index = [s \in Sets |->
                    IF c.index[FieldOf(s)] < 0 THEN -1
                    ELSE NCoeff * (c.index[FieldOf(s)] + Before(c.findex, Label[FieldOf(s)]) + s[3])]
  BY <1>1 DEF Assigned
<1>11. /\ a.findex2 = [fd \in Fields |->
                         IF c.index2[fd] < 0 THEN -1
                         ELSE start + NCoeff2 * (c.index2[fd] + Before(F, Label[fd]))]
       /\ a.index2 = [s \in Sets |->
                        [fd \in Fields |->
                            IF c.index2[fd] < 0 THEN -1
                            ELSE start + NCoeff2 * (c.index2[fd] + Before(F, Label[fd]))][FieldOf(s)]]
  BY <1>1, <1>2, <1>3, <1>5, <1>8 DEF Assigned
<1>12. a.index2 = [s \in Sets |-> a.findex2[FieldOf(s)]]
  BY <1>11
<1>13. /\ c \in Counts
       /\ \A fd \in Fields : Found(stability, c, Label[fd], NSetOf(fd[1], fd[2]),
                                   c.index[fd], c.index2[fd])
  BY <1>1, CountedFound
<1>14. /\ E \in Nat
       /\ \A s \in Sets : Fitted(stability, s) => x[s] \in 0..E - 1
       /\ \A s, t \in Sets : Fitted(stability, s) /\ Fitted(stability, t) =>
             (x[s] = x[t] <=> Shared(stability, s, t))
  BY <1>1, <1>5, <1>6, InstrumentBlocks
<1>15. /\ G \in Nat
       /\ \A f \in Fields : c.index2[f] >= 0 => y[f] \in 0..G - 1
       /\ \A f, g \in Fields : f # g /\ c.index2[f] >= 0 /\ c.index2[g] >= 0 => y[f] # y[g]
  BY <1>1, <1>2, <1>3, <1>4, <1>5, <1>7, ExposureBlocks
<1>16. NCoeff \in Nat \ {0} /\ NCoeff2 \in Nat \ {0}
  BY NCoeffAssumption DEF NCoeffAssumption
<1>17. start \in Nat /\ NCoeff2 * G \in Nat /\ a.ncoefftot \in Nat
  BY <1>8, <1>9, <1>14, <1>15, <1>16
\* The blocks of the sets.
<1>18. ASSUME NEW s \in Sets
       PROVE  /\ FieldOf(s) \in Fields /\ c.index[FieldOf(s)] \in Int
              /\ c.index[FieldOf(s)] >= 0 <=> Fitted(stability, s)
              /\ ~Fitted(stability, s) => a.index[s] = -1
              /\ Fitted(stability, s) => /\ x[s] \in 0..E - 1
                                         /\ a.index[s] = NCoeff * x[s]
                                         /\ a.index[s] \in Nat
                                         /\ a.index[s] + NCoeff <= start
  <2>1. FieldOf(s) \in Fields
    BY SetFacts
  <2>2. c.index[FieldOf(s)] \in Int
    BY <1>13, <2>1 DEF Counts
  <2>3. c.index[FieldOf(s)] >= 0 <=> Fitted(stability, s)
    BY <1>13, <2>1 DEF Found, Fitted
  <2>4. ASSUME ~Fitted(stability, s) PROVE a.index[s] = -1
    BY <1>10, <2>2, <2>3, <2>4
  <2>5. ASSUME Fitted(stability, s)
        PROVE  /\ x[s] \in 0..E - 1 /\ a.index[s] = NCoeff * x[s]
               /\ a.index[s] \in Nat /\ a.index[s] + NCoeff <= start
    <3>1. x[s] \in 0..E - 1
      BY <1>14, <2>5
    <3>2. a.index[s] = NCoeff * x[s]
      BY <1>6, <1>10, <2>2, <2>3, <2>5
    <3>3. PICK i \in Nat : i = x[s] /\ i < E
      BY <1>14, <3>1
    <3>4. NCoeff * i + NCoeff <= NCoeff * E /\ NCoeff * i \in Int /\ NCoeff * i >= 0
      BY <1>14, <1>16, <3>3, Multiples
    <3> QED BY <1>8, <3>1, <3>2, <3>3, <3>4
  <2> QED BY <2>1, <2>2, <2>3, <2>4, <2>5
<1>19. ASSUME NEW s \in Sets, NEW t \in Sets, Fitted(stability, s), Fitted(stability, t)
       PROVE  IF Shared(stability, s, t) THEN a.index[s] = a.index[t]
              ELSE a.index[s] + NCoeff <= a.index[t] \/ a.index[t] + NCoeff <= a.index[s]
  <2>1. x[s] \in Int /\ x[t] \in Int /\ a.index[s] = NCoeff * x[s] /\ a.index[t] = NCoeff * x[t]
    BY <1>14, <1>18, <1>19
  <2>2. x[s] = x[t] <=> Shared(stability, s, t)
    BY <1>14, <1>19
  <2>3. CASE x[s] = x[t]
    BY <2>1, <2>2, <2>3
  <2>4. CASE x[s] < x[t]
    <3>1. NCoeff * x[s] + NCoeff <= NCoeff * x[t]
      BY <1>16, <2>1, <2>4, Multiples
    <3> QED BY <2>1, <2>2, <2>4, <3>1
  <2>5. CASE x[t] < x[s]
    <3>1. NCoeff * x[t] + NCoeff <= NCoeff * x[s]
      BY <1>16, <2>1, <2>5, Multiples
    <3> QED BY <2>1, <2>2, <2>5, <3>1
  <2> QED BY <2>1, <2>3, <2>4, <2>5
\* The blocks of the fields.
<1>20. ASSUME NEW f \in Fields
       PROVE  /\ c.index2[f] \in Int
              /\ c.index2[f] < 0 => a.findex2[f] = -1
              /\ c.index2[f] >= 0 => /\ y[f] \in 0..G - 1
                                     /\ a.findex2[f] = start + NCoeff2 * y[f]
                                     /\ a.findex2[f] \in Nat /\ a.findex2[f] >= start
                                     /\ a.findex2[f] + NCoeff2 <= a.ncoefftot
  <2>1. c.index2[f] \in Int
    BY <1>13 DEF Counts
  <2>2. ASSUME c.index2[f] < 0 PROVE a.findex2[f] = -1
    BY <1>11, <2>2
  <2>3. ASSUME c.index2[f] >= 0
        PROVE  /\ y[f] \in 0..G - 1 /\ a.findex2[f] = start + NCoeff2 * y[f]
               /\ a.findex2[f] \in Nat /\ a.findex2[f] >= start
               /\ a.findex2[f] + NCoeff2 <= a.ncoefftot
    <3>1. y[f] \in 0..G - 1
      BY <1>15, <2>3
    <3>2. a.findex2[f] = start + NCoeff2 * y[f]
      BY <1>7, <1>11, <2>1, <2>3
    <3>3. PICK i \in Nat : i = y[f] /\ i < G
      BY <1>15, <3>1
    <3>4. NCoeff2 * i + NCoeff2 <= NCoeff2 * G /\ NCoeff2 * i \in Int /\ NCoeff2 * i >= 0
      BY <1>15, <1>16, <3>3, Multiples
    <3>5. PICK u \in Int, v \in Int : u = NCoeff2 * i /\ v = NCoeff2 * G
      BY <1>17, <3>4
    <3> QED BY <1>9, <1>16, <1>17, <3>1, <3>2, <3>3, <3>4, <3>5
  <2> QED BY <2>1, <2>2, <2>3
<1>21. ASSUME NEW f \in Fields, NEW g \in Fields, f # g, c.index2[f] >= 0, c.index2[g] >= 0
       PROVE  a.findex2[f] + NCoeff2 <= a.findex2[g] \/ a.findex2[g] + NCoeff2 <= a.findex2[f]
  <2>1. PICK i \in Int, j \in Int : i = y[f] /\ j = y[g]
    BY <1>20, <1>21
  <2>2. i # j /\ a.findex2[f] = start + NCoeff2 * i /\ a.findex2[g] = start + NCoeff2 * j
    BY <1>15, <1>20, <1>21, <2>1
  <2>3. NCoeff2 * i + NCoeff2 <= NCoeff2 * j \/ NCoeff2 * j + NCoeff2 <= NCoeff2 * i
    <3>1. i < j \/ j < i
      BY <2>2
    <3> QED BY <1>16, <3>1, Multiples
  <2>4. PICK u \in Int, v \in Int : u = NCoeff2 * i /\ v = NCoeff2 * j
    BY <1>16, Multiples
  <2> QED BY <1>16, <1>17, <2>2, <2>3, <2>4
<1>22. a.index \in [Sets -> Int]
  <2>1. \A s \in Sets : a.index[s] \in Int
    BY <1>18
  <2> QED BY <1>10, <2>1
<1>23. a.findex2 \in [Fields -> Int]
  <2>1. \A f \in Fields : a.findex2[f] \in Int
    BY <1>20
  <2> QED BY <1>11, <2>1
<1>24. ASSUME NEW s \in Sets
       PROVE  /\ FieldOf(s) \in a.hasIndex <=> a.index[s] >= 0
              /\ a.index[s] >= 0 \/ a.index[s] = -1
              /\ a.index[s] >= 0 <=> Fitted(stability, s)
              /\ a.index[s] >= 0 => a.index[s] + NCoeff <= a.ncoefftot
  <2>1. CASE Fitted(stability, s)
    <3>1. a.index[s] \in Nat /\ a.index[s] + NCoeff <= start
      BY <1>18, <2>1
    <3>2. FieldOf(s) \in a.hasIndex
      BY <1>9, <1>18, <2>1
    <3>3. start <= a.ncoefftot
      BY <1>9, <1>17
    <3> QED BY <1>16, <1>17, <2>1, <3>1, <3>2, <3>3
  <2>2. CASE ~Fitted(stability, s)
    <3>1. a.index[s] = -1
      BY <1>18, <2>2
    <3>2. FieldOf(s) \notin a.hasIndex
      BY <1>9, <1>18, <2>2
    <3> QED BY <2>2, <3>1, <3>2
  <2> QED BY <2>1, <2>2
<1>25. \A s, t \in Sets : a.index[s] >= 0 /\ a.index[t] >= 0 =>
          IF Shared(stability, s, t) THEN a.index[s] = a.index[t]
          ELSE a.index[s] + NCoeff <= a.index[t] \/ a.index[t] + NCoeff <= a.index[s]
  BY <1>19, <1>24
<1>26. \A f \in Fields : /\ a.findex2[f] >= 0 \/ a.findex2[f] = -1
                         /\ a.findex2[f] >= 0 => a.findex2[f] + NCoeff2 <= a.ncoefftot
  BY <1>20
<1>27. \A f, g \in Fields : f # g /\ a.findex2[f] >= 0 /\ a.findex2[g] >= 0 =>
          a.findex2[f] + NCoeff2 <= a.findex2[g] \/ a.findex2[g] + NCoeff2 <= a.findex2[f]
  BY <1>20, <1>21
<1>28. ASSUME NEW s \in Sets, NEW f \in Fields, a.index[s] >= 0, a.findex2[f] >= 0
       PROVE  a.index[s] + NCoeff <= a.findex2[f]
  <2>1. a.index[s] \in Nat /\ a.index[s] + NCoeff <= start
    BY <1>18, <1>24, <1>28
  <2>2. a.findex2[f] \in Nat /\ a.findex2[f] >= start
    BY <1>20, <1>28
  <2> QED BY <1>16, <1>17, <2>1, <2>2
<1> QED BY <1>9, <1>12, <1>17, <1>22, <1>23, <1>24, <1>25, <1>26, <1>27, <1>28 DEF Blocks

\* Equations with room for n coefficients.
EquationsOf(n) ==
    [column : [0..n - 1 -> Int], nconst : [0..n - 1 -> Nat], ncoefftot : Nat,
     hasIndex : SUBSET Fields, index : [Sets -> Int], index2 : [Sets -> Int],
     findex2 : [Fields -> Int], ncoeff : [Sets -> Nat], ncoeff2 : [Fields -> Nat]]

\* The block of a set still has its first columns, that of a field all of them
\* and its constraints.
SetKept(eq, a, s) ==
    /\ a.index[s] < 0 => eq.index[s] = -1
    /\ a.index[s] >= 0 =>
          /\ eq.index[s] >= 0 /\ eq.index[s] + eq.ncoeff[s] <= eq.ncoefftot
          /\ \A k \in 0..eq.ncoeff[s] - 1 : eq.column[eq.index[s] + k] = a.index[s] + k

FieldKept(eq, a, const, f) ==
    /\ a.findex2[f] < 0 => eq.findex2[f] = -1
    /\ a.findex2[f] >= 0 =>
          /\ eq.findex2[f] >= 0 /\ eq.findex2[f] + NCoeff2 <= eq.ncoefftot
          /\ \A k \in 0..NCoeff2 - 1 : eq.column[eq.findex2[f] + k] = a.findex2[f] + k
          /\ eq.nconst[eq.findex2[f]] = const[a.findex2[f]]

\* Blocks that were apart are apart, in the same order.
OrderKept(eq, a, s, t) ==
    /\ a.index[s] = a.index[t] => eq.index[s] = eq.index[t] /\ eq.ncoeff[s] = eq.ncoeff[t]
    /\ a.index[s] < a.index[t] => eq.index[s] + eq.ncoeff[s] <= eq.index[t]

\* What the equations are while blocks of sets are trimmed; const are the
\* constraints that were counted.
BlocksKept(eq, a, const) ==
    /\ eq.hasIndex = a.hasIndex /\ eq.ncoeff2 = a.ncoeff2
    /\ eq.index2 = [s \in Sets |-> eq.findex2[FieldOf(s)]]
    /\ \A s \in Sets : /\ eq.ncoeff[s] <= NCoeff
                       /\ eq.ncoefftot + NCoeff - eq.ncoeff[s] <= a.ncoefftot
                       /\ SetKept(eq, a, s)
    /\ \A f \in Fields : FieldKept(eq, a, const, f)
    /\ \A s, t \in Sets : a.index[s] >= 0 /\ a.index[t] >= 0 => OrderKept(eq, a, s, t)
    /\ \A s \in Sets, f \in Fields : a.index[s] >= 0 /\ a.findex2[f] >= 0 =>
          eq.index[s] + eq.ncoeff[s] <= eq.findex2[f]

\* Elements from place "at" on of the first tot have moved down.
MovedDown(n, old, new, at, tot, nmiss) ==
    /\ \A q \in 0..n - 1 : q < at => new[q] = old[q]
    /\ \A q \in 0..n - 1 : at <= q /\ q + nmiss < tot => new[q] = old[q + nmiss]

LEMMA ShiftIs ==
  ASSUME NEW n \in Nat, NEW V, NEW array \in [0..n - 1 -> V], NEW at \in Nat, NEW tot \in 0..n,
         NEW nmiss \in Nat
  PROVE  /\ ShiftDown(array, at, tot, nmiss) \in [0..n - 1 -> V]
         /\ MovedDown(n, array, ShiftDown(array, at, tot, nmiss), at, tot, nmiss)
         /\ Shrunk(array, at, tot, nmiss) \in [0..n - 1 -> V]
         /\ MovedDown(n, array, Shrunk(array, at, tot, nmiss), at, tot, nmiss)
<1>1. PICK out : out = ShiftDown(array, at, tot, nmiss)
  OBVIOUS
<1>2. out = [q \in 0..n - 1 |-> IF at <= q /\ q + nmiss < tot THEN array[q + nmiss] ELSE array[q]]
  BY <1>1 DEF ShiftDown
<1>3. \A q \in 0..n - 1 : q + nmiss < tot => q + nmiss \in 0..n - 1
  OBVIOUS
<1>4. out \in [0..n - 1 -> V] /\ MovedDown(n, array, out, at, tot, nmiss)
  BY <1>2, <1>3 DEF MovedDown
<1>5. ASSUME nmiss >= tot PROVE MovedDown(n, array, array, at, tot, nmiss)
  BY <1>5 DEF MovedDown
<1>6. Shrunk(array, at, tot, nmiss) = IF nmiss >= tot THEN array ELSE out
  BY <1>1 DEF Shrunk
<1> QED BY <1>1, <1>4, <1>5, <1>6

\* A block of a set loses its last coefficients and what is behind it follows.
LEMMA TrimSetKeeps ==
  ASSUME NEW stability, NEW a, Blocks(stability, a), NEW const,
         NEW eq \in EquationsOf(a.ncoefftot), BlocksKept(eq, a, const), NEW s \in Sets,
         NEW out, out = TrimSet(eq, s)
  PROVE  out \in EquationsOf(a.ncoefftot) /\ BlocksKept(out, a, const)
<1>1. PICK n \in Nat : n = a.ncoefftot
  BY DEF Blocks
<1>2. PICK tot \in Nat : tot = eq.ncoefftot
  BY DEF EquationsOf
<1>3. /\ eq.column \in [0..n - 1 -> Int] /\ eq.nconst \in [0..n - 1 -> Nat]
      /\ eq.hasIndex \in SUBSET Fields /\ eq.index \in [Sets -> Int] /\ eq.index2 \in [Sets -> Int]
      /\ eq.findex2 \in [Fields -> Int] /\ eq.ncoeff \in [Sets -> Nat] /\ eq.ncoeff2 \in [Fields -> Nat]
  BY <1>1 DEF EquationsOf
<1>4. NCoeff \in Nat \ {0} /\ NCoeff2 \in Nat \ {0}
  BY NCoeffAssumption DEF NCoeffAssumption
<1>5. CASE FieldOf(s) \notin eq.hasIndex
  BY <1>5 DEF TrimSet
<1>6. CASE FieldOf(s) \in eq.hasIndex
  <2>1. a.index[s] >= 0 /\ a.index[s] \in Int
    BY <1>6 DEF BlocksKept, Blocks
  <2>2. PICK at \in Int, nc \in Nat : at = eq.index[s] /\ nc = eq.ncoeff[s]
    BY <1>3
  <2>3. /\ nc <= NCoeff /\ tot + NCoeff - nc <= n /\ at >= 0 /\ at + nc <= tot
    BY <1>1, <1>2, <2>1, <2>2 DEF BlocksKept, SetKept
  <2>4. at \in 0..n - 1 /\ tot \in 0..n
    BY <1>4, <2>3
  <2>5. PICK left \in Nat : left = eq.nconst[at]
    BY <1>3, <2>4
  <2>6. CASE left >= nc
    BY <2>2, <2>5, <2>6 DEF TrimSet
  <2>7. CASE left < nc
    <3>1. PICK nmiss \in Nat : nmiss = nc - left /\ nmiss > 0
      BY <2>7
    <3>2. PICK end \in Nat : end = at + left
      BY <2>3
    <3> DEFINE down(i) == IF i >= 0 THEN i - nmiss ELSE i
    <3>3. /\ out = [eq EXCEPT
                      !.column = Shrunk(@, end, tot, nmiss),
                      !.nconst = ShiftDown(@, end, tot, nmiss),
                      !.ncoeff = [t \in Sets |->
                          IF @[t] # 0 /\ eq.index[t] = at THEN @[t] - nmiss ELSE @[t]],
                      !.index = [t \in Sets |-> IF @[t] > at THEN @[t] - nmiss ELSE @[t]],
                      !.index2 = [t \in Sets |-> down(@[t])],
                      !.findex2 = [fd \in Fields |-> down(@[fd])],
                      !.ncoefftot = @ - nmiss]
      <4>1. /\ at = eq.index[s] /\ tot = eq.ncoefftot
            /\ nmiss = eq.ncoeff[s] - eq.nconst[eq.index[s]]
            /\ end = eq.index[s] + eq.nconst[eq.index[s]]
        BY <1>2, <2>2, <2>5, <3>1, <3>2
      <4>2. ~(FieldOf(s) \notin eq.hasIndex \/ eq.nconst[eq.index[s]] >= eq.ncoeff[s])
        BY <1>6, <2>2, <2>5, <2>7
      <4> QED BY <4>1, <4>2 DEF TrimSet
    <3>4. /\ out.column = Shrunk(eq.column, end, tot, nmiss)
          /\ out.nconst = ShiftDown(eq.nconst, end, tot, nmiss)
          /\ out.ncoeff = [t \in Sets |-> IF eq.ncoeff[t] # 0 /\ eq.index[t] = at
                                          THEN eq.ncoeff[t] - nmiss ELSE eq.ncoeff[t]]
          /\ out.index = [t \in Sets |-> IF eq.index[t] > at THEN eq.index[t] - nmiss ELSE eq.index[t]]
          /\ out.index2 = [t \in Sets |-> down(eq.index2[t])]
          /\ out.findex2 = [fd \in Fields |-> down(eq.findex2[fd])]
          /\ out.ncoefftot = tot - nmiss
          /\ out.hasIndex = eq.hasIndex /\ out.ncoeff2 = eq.ncoeff2
      BY <1>2, <3>3 DEF EquationsOf
    <3>5. /\ out.column \in [0..n - 1 -> Int]
          /\ \A q \in 0..n - 1 : q < end => out.column[q] = eq.column[q]
          /\ \A q \in 0..n - 1 : end <= q /\ q + nmiss < tot => out.column[q] = eq.column[q + nmiss]
      <4>1. PICK old \in [0..n - 1 -> Int] : old = eq.column
        BY <1>3
      <4>2. /\ Shrunk(old, end, tot, nmiss) \in [0..n - 1 -> Int]
            /\ MovedDown(n, old, Shrunk(old, end, tot, nmiss), end, tot, nmiss)
        BY <2>4, ShiftIs
      <4> QED BY <3>4, <4>1, <4>2 DEF MovedDown
    <3>6. /\ out.nconst \in [0..n - 1 -> Nat]
          /\ \A q \in 0..n - 1 : end <= q /\ q + nmiss < tot => out.nconst[q] = eq.nconst[q + nmiss]
      <4>1. PICK old \in [0..n - 1 -> Nat] : old = eq.nconst
        BY <1>3
      <4>2. /\ ShiftDown(old, end, tot, nmiss) \in [0..n - 1 -> Nat]
            /\ MovedDown(n, old, ShiftDown(old, end, tot, nmiss), end, tot, nmiss)
        BY <2>4, ShiftIs
      <4> QED BY <3>4, <4>1, <4>2 DEF MovedDown
    \* Before the block trimmed, at it, behind it.
    <3>7. ASSUME NEW t \in Sets, a.index[t] >= 0
          PROVE  \/ /\ a.index[t] < a.index[s]
                    /\ out.index[t] = eq.index[t] /\ out.ncoeff[t] = eq.ncoeff[t]
                    /\ eq.index[t] + eq.ncoeff[t] <= at
                 \/ /\ a.index[t] = a.index[s]
                    /\ out.index[t] = at /\ out.ncoeff[t] = left
                    /\ eq.index[t] = at /\ eq.ncoeff[t] = nc
                 \/ /\ a.index[t] > a.index[s]
                    /\ out.index[t] = eq.index[t] - nmiss /\ out.ncoeff[t] = eq.ncoeff[t]
                    /\ at + nc <= eq.index[t]
      <4>1. OrderKept(eq, a, s, t) /\ OrderKept(eq, a, t, s)
        BY <2>1, <3>7 DEF BlocksKept
      <4>2. PICK i \in Int, m \in Nat : i = eq.index[t] /\ m = eq.ncoeff[t]
        BY <1>3
      <4>3. /\ out.index[t] = IF i > at THEN i - nmiss ELSE i
            /\ out.ncoeff[t] = IF m # 0 /\ i = at THEN m - nmiss ELSE m
        BY <3>4, <4>2
      <4>4. a.index[t] \in Int
        BY DEF Blocks
      <4>5. CASE a.index[t] < a.index[s]
        <5>1. i + m <= at
          BY <2>2, <4>1, <4>2, <4>5 DEF OrderKept
        <5> QED BY <2>2, <4>2, <4>3, <4>5, <5>1
      <4>6. CASE a.index[t] = a.index[s]
        <5>1. i = at /\ m = nc
          BY <2>2, <4>1, <4>2, <4>6 DEF OrderKept
        <5> QED BY <2>7, <3>1, <4>2, <4>3, <4>6, <5>1
      <4>7. CASE a.index[t] > a.index[s]
        <5>1. at + nc <= i
          BY <2>2, <4>1, <4>2, <4>7 DEF OrderKept
        <5> QED BY <2>7, <4>2, <4>3, <4>7, <5>1
      <4> QED BY <2>1, <4>4, <4>5, <4>6, <4>7
    <3>8. ASSUME NEW t \in Sets, a.index[t] < 0
          PROVE  out.index[t] = -1 /\ out.ncoeff[t] = eq.ncoeff[t]
      <4>1. eq.index[t] = -1 /\ eq.ncoeff[t] \in Nat
        BY <1>3, <3>8 DEF BlocksKept, SetKept
      <4> QED BY <2>3, <3>4, <4>1
    <3>9. ASSUME NEW f \in Fields
          PROVE  /\ a.findex2[f] < 0 => out.findex2[f] = -1
                 /\ a.findex2[f] >= 0 => /\ out.findex2[f] = eq.findex2[f] - nmiss
                                         /\ at + nc <= eq.findex2[f]
      <4>1. a.findex2[f] >= 0 => at + nc <= eq.findex2[f]
        BY <2>1, <2>2 DEF BlocksKept
      <4>2. a.findex2[f] < 0 => eq.findex2[f] = -1
        BY DEF BlocksKept, FieldKept
      <4>3. eq.findex2[f] \in Int /\ out.findex2[f] = down(eq.findex2[f])
        BY <1>3, <3>4
      <4> QED BY <2>3, <4>1, <4>2, <4>3
    <3>10. ASSUME NEW t \in Sets
           PROVE  out.index[t] \in Int /\ out.ncoeff[t] \in Nat /\ out.ncoeff[t] <= NCoeff
      <4>1. eq.index[t] \in Int /\ eq.ncoeff[t] \in Nat /\ eq.ncoeff[t] <= NCoeff
        BY <1>3 DEF BlocksKept
      <4>2. a.index[t] \in Int
        BY DEF Blocks
      <4>3. a.index[t] >= 0 \/ a.index[t] < 0
        BY <4>2
      <4>4. CASE a.index[t] < 0
        BY <3>8, <4>1, <4>4
      <4>5. CASE a.index[t] >= 0
        BY <2>3, <2>7, <1>4, <3>7, <4>1, <4>5
      <4> QED BY <4>3, <4>4, <4>5
    <3>11. /\ tot - nmiss \in Nat
           /\ out.index \in [Sets -> Int] /\ out.ncoeff \in [Sets -> Nat]
           /\ out.findex2 \in [Fields -> Int] /\ out.index2 \in [Sets -> Int]
      <4>1. tot - nmiss \in Nat
        BY <2>3, <3>1
      <4>2. out.index \in [Sets -> Int] /\ out.ncoeff \in [Sets -> Nat]
        BY <3>4, <3>10
      <4>3. out.findex2 \in [Fields -> Int] /\ out.index2 \in [Sets -> Int]
        BY <1>3, <3>4
      <4> QED BY <4>1, <4>2, <4>3
    <3>12. out \in EquationsOf(n)
      <4>1. out.hasIndex \in SUBSET Fields /\ out.ncoeff2 \in [Fields -> Nat] /\ out.ncoefftot \in Nat
        BY <1>3, <3>4, <3>11
      <4>2. out = [column |-> out.column, nconst |-> out.nconst, ncoefftot |-> out.ncoefftot,
                   hasIndex |-> out.hasIndex, index |-> out.index, index2 |-> out.index2,
                   findex2 |-> out.findex2, ncoeff |-> out.ncoeff, ncoeff2 |-> out.ncoeff2]
        BY <3>3 DEF EquationsOf
      <4> QED BY <3>5, <3>6, <3>11, <4>1, <4>2 DEF EquationsOf
    <3>13. out.index2 = [t \in Sets |-> out.findex2[FieldOf(t)]]
      <4>1. \A t \in Sets : eq.index2[t] = eq.findex2[FieldOf(t)] /\ FieldOf(t) \in Fields
        BY SetFacts DEF BlocksKept
      <4>2. \A t \in Sets : out.index2[t] = out.findex2[FieldOf(t)]
        BY <3>4, <4>1
      <4> QED BY <3>11, <4>2
    <3>14. ASSUME NEW t \in Sets
           PROVE  /\ out.ncoefftot + NCoeff - out.ncoeff[t] <= a.ncoefftot
                  /\ SetKept(out, a, t)
      <4>1. /\ eq.index[t] \in Int /\ eq.ncoeff[t] \in Nat
            /\ tot + NCoeff - eq.ncoeff[t] <= n /\ SetKept(eq, a, t) /\ a.index[t] \in Int
        BY <1>1, <1>2, <1>3 DEF BlocksKept, Blocks
      <4>2. CASE a.index[t] < 0
        <5>1. SetKept(out, a, t)
          BY <3>8, <4>1, <4>2 DEF SetKept
        <5>2. tot - nmiss + NCoeff - eq.ncoeff[t] <= n
          BY <1>4, <4>1
        <5> QED BY <1>1, <3>4, <3>8, <4>2, <5>1, <5>2
      <4>3. CASE a.index[t] >= 0
        <5>1. /\ eq.index[t] >= 0 /\ eq.index[t] + eq.ncoeff[t] <= tot
              /\ \A k \in 0..eq.ncoeff[t] - 1 : eq.column[eq.index[t] + k] = a.index[t] + k
          BY <1>2, <4>1, <4>3 DEF SetKept
        <5>2. PICK i \in Nat, m \in Nat : i = eq.index[t] /\ m = eq.ncoeff[t]
          BY <4>1, <5>1
        <5>3. PICK j \in Int, l \in Nat : j = out.index[t] /\ l = out.ncoeff[t]
          BY <3>10
        <5>4. /\ j >= 0 /\ j + l <= tot - nmiss /\ tot - nmiss + NCoeff - l <= n
              /\ l <= m
              /\ \A k \in 0..l - 1 : out.column[j + k] = eq.column[i + k]
          <6>1. CASE a.index[t] < a.index[s]
            <7>1. j = i /\ l = m /\ i + m <= at
              BY <2>1, <3>7, <4>1, <4>3, <5>2, <5>3, <6>1
            <7>2. \A k \in 0..l - 1 : j + k \in 0..n - 1 /\ j + k < end
              BY <2>4, <3>2, <7>1
            <7>3. \A k \in 0..l - 1 : out.column[j + k] = eq.column[i + k]
              BY <3>5, <7>1, <7>2
            <7> QED BY <1>4, <2>3, <3>1, <4>1, <5>2, <7>1, <7>3
          <6>2. CASE a.index[t] = a.index[s]
            <7>1. j = at /\ l = left /\ i = at /\ m = nc
              BY <2>1, <3>7, <4>1, <4>3, <5>2, <5>3, <6>2
            <7>2. \A k \in 0..l - 1 : j + k \in 0..n - 1 /\ j + k < end
              BY <2>3, <2>4, <2>7, <3>2, <7>1
            <7>3. \A k \in 0..l - 1 : out.column[j + k] = eq.column[i + k]
              BY <3>5, <7>1, <7>2
            <7> QED BY <1>4, <2>3, <2>7, <3>1, <4>1, <5>2, <7>1, <7>3
          <6>3. CASE a.index[t] > a.index[s]
            <7>1. j = i - nmiss /\ l = m /\ at + nc <= i /\ i + m <= tot
              BY <2>1, <3>7, <4>1, <4>3, <5>1, <5>2, <5>3, <6>3
            <7>2. \A k \in 0..l - 1 : /\ j + k \in 0..n - 1 /\ end <= j + k
                                      /\ j + k + nmiss < tot /\ j + k + nmiss = i + k
              BY <2>3, <2>4, <3>1, <3>2, <7>1
            <7>3. \A k \in 0..l - 1 : out.column[j + k] = eq.column[i + k]
              BY <3>5, <7>2
            <7>4. j >= 0
              BY <2>3, <3>1, <7>1
            <7> QED BY <1>4, <3>1, <4>1, <5>2, <7>1, <7>3, <7>4
          <6> QED BY <2>1, <4>1, <6>1, <6>2, <6>3
        <5>5. \A k \in 0..l - 1 : out.column[j + k] = a.index[t] + k
          <6> TAKE k \in 0..l - 1
          <6>1. k \in 0..m - 1
            BY <5>2, <5>3, <5>4
          <6>2. eq.column[i + k] = a.index[t] + k
            BY <5>1, <5>2, <6>1
          <6>3. out.column[j + k] = eq.column[i + k]
            BY <5>4
          <6> QED BY <6>2, <6>3
        <5> QED BY <1>1, <3>4, <4>1, <4>3, <5>3, <5>4, <5>5 DEF SetKept
      <4> QED BY <4>1, <4>2, <4>3
    <3>15. ASSUME NEW f \in Fields PROVE FieldKept(out, a, const, f)
      <4>1. FieldKept(eq, a, const, f) /\ eq.findex2[f] \in Int /\ a.findex2[f] \in Int
        BY <1>3 DEF BlocksKept, Blocks
      <4>2. CASE a.findex2[f] < 0
        BY <3>9, <4>1, <4>2 DEF FieldKept
      <4>3. CASE a.findex2[f] >= 0
        <5>1. PICK i \in Nat : /\ i = eq.findex2[f] /\ i + NCoeff2 <= tot
                               /\ \A k \in 0..NCoeff2 - 1 : eq.column[i + k] = a.findex2[f] + k
                               /\ eq.nconst[i] = const[a.findex2[f]]
          BY <1>2, <4>1, <4>3 DEF FieldKept
        <5>2. PICK j \in Int : j = out.findex2[f] /\ j = i - nmiss /\ at + nc <= i
          BY <3>9, <4>3, <5>1
        <5>3. j >= 0 /\ j + NCoeff2 <= tot - nmiss /\ end <= j
          <6>1. end = at + left /\ nmiss = nc - left /\ j = i - nmiss /\ at + nc <= i
            BY <3>1, <3>2, <5>2
          <6>2. i + NCoeff2 <= tot /\ NCoeff2 \in Nat /\ at >= 0
            BY <1>4, <2>3, <5>1
          <6> QED BY <6>1, <6>2
        <5>4. \A k \in 0..NCoeff2 - 1 : /\ j + k \in 0..n - 1 /\ end <= j + k
                                        /\ j + k + nmiss < tot /\ j + k + nmiss = i + k
          BY <1>1, <1>2, <1>4, <2>4, <3>1, <3>2, <5>1, <5>2, <5>3
        <5>5. \A k \in 0..NCoeff2 - 1 : out.column[j + k] = a.findex2[f] + k
          BY <3>5, <5>1, <5>4
        <5>6. out.nconst[j] = const[a.findex2[f]]
          <6>1. 0 \in 0..NCoeff2 - 1 /\ j + 0 = j /\ i + 0 = i
            BY <1>4
          <6>2. j \in 0..n - 1 /\ end <= j /\ j + nmiss < tot /\ j + nmiss = i
            BY <5>2, <5>4, <6>1
          <6> QED BY <3>6, <5>1, <6>2
        <5> QED BY <3>4, <4>1, <4>3, <5>2, <5>3, <5>5, <5>6 DEF FieldKept
      <4> QED BY <4>1, <4>2, <4>3
    <3>16. ASSUME NEW t \in Sets, NEW u \in Sets, a.index[t] >= 0, a.index[u] >= 0
           PROVE  OrderKept(out, a, t, u)
      <4>1. /\ a.index[t] \in Int /\ a.index[u] \in Int /\ a.index[s] \in Int
            /\ eq.index[t] \in Int /\ eq.index[u] \in Int
            /\ eq.ncoeff[t] \in Nat /\ eq.ncoeff[u] \in Nat
        BY <1>3 DEF Blocks
      <4>2. /\ eq.index[t] >= 0 /\ eq.index[u] >= 0
        BY <3>16 DEF BlocksKept, SetKept
      <4>3. CASE a.index[t] = a.index[u]
        <5>1. eq.index[t] = eq.index[u] /\ eq.ncoeff[t] = eq.ncoeff[u]
          BY <3>16, <4>3 DEF BlocksKept, OrderKept
        <5> QED BY <3>4, <4>1, <4>3, <5>1 DEF OrderKept
      <4>4. CASE a.index[t] < a.index[u]
        <5>1. eq.index[t] + eq.ncoeff[t] <= eq.index[u]
          BY <3>16, <4>4 DEF BlocksKept, OrderKept
        <5>2. out.index[t] + out.ncoeff[t] <= out.index[u]
          <6>1. \/ /\ a.index[t] < a.index[s]
                   /\ out.index[t] = eq.index[t] /\ out.ncoeff[t] = eq.ncoeff[t]
                   /\ eq.index[t] + eq.ncoeff[t] <= at
                \/ /\ a.index[t] = a.index[s]
                   /\ out.index[t] = at /\ out.ncoeff[t] = left
                   /\ eq.index[t] = at /\ eq.ncoeff[t] = nc
                \/ /\ a.index[t] > a.index[s]
                   /\ out.index[t] = eq.index[t] - nmiss /\ out.ncoeff[t] = eq.ncoeff[t]
                   /\ at + nc <= eq.index[t]
            BY <3>7, <3>16
          <6>2. \/ /\ a.index[u] < a.index[s]
                   /\ out.index[u] = eq.index[u]
                \/ /\ a.index[u] = a.index[s]
                   /\ out.index[u] = at /\ eq.index[u] = at
                \/ /\ a.index[u] > a.index[s]
                   /\ out.index[u] = eq.index[u] - nmiss
                   /\ at + nc <= eq.index[u]
            BY <3>7, <3>16
          <6>3. left = nc - nmiss
            BY <3>1
          <6> QED BY <3>1, <4>1, <4>4, <5>1, <6>1, <6>2, <6>3
        <5> QED BY <4>4, <4>1, <5>2 DEF OrderKept
      <4>5. CASE a.index[t] > a.index[u]
        BY <4>1, <4>5 DEF OrderKept
      <4> QED BY <4>1, <4>3, <4>4, <4>5
    <3>17. ASSUME NEW t \in Sets, NEW f \in Fields, a.index[t] >= 0, a.findex2[f] >= 0
           PROVE  out.index[t] + out.ncoeff[t] <= out.findex2[f]
      <4>1. /\ eq.index[t] + eq.ncoeff[t] <= eq.findex2[f]
            /\ eq.index[t] \in Int /\ eq.ncoeff[t] \in Nat /\ eq.findex2[f] \in Int
        BY <1>3, <3>17 DEF BlocksKept
      <4>2. out.findex2[f] = eq.findex2[f] - nmiss /\ at + nc <= eq.findex2[f]
        BY <3>9, <3>17
      <4>3. left = nc - nmiss
        BY <3>1
      <4> QED BY <3>1, <3>7, <3>17, <4>1, <4>2, <4>3
    <3>18. out.hasIndex = a.hasIndex /\ out.ncoeff2 = a.ncoeff2
      BY <3>4 DEF BlocksKept
    <3> HIDE DEF down
    <3> QED BY <1>1, <3>10, <3>12, <3>13, <3>14, <3>15, <3>16, <3>17, <3>18 DEF BlocksKept
  <2> QED BY <2>6, <2>7
<1> QED BY <1>5, <1>6

\* The sets of all fields, one after the other.
SetsInOrder == FlattenSeq([i \in DOMAIN FieldSeq |-> SetSeq(FieldSeq[i])])

LEMMA SetsInOrderSeq == SetsInOrder \in Seq(Sets)
<1> DEFINE parts == [i \in DOMAIN FieldSeq |-> SetSeq(FieldSeq[i])]
<1>1. FieldSeq \in Seq(Fields) /\ DOMAIN FieldSeq = 1..Len(FieldSeq) /\ Len(FieldSeq) \in Nat
  BY FieldOrder
<1>2. ASSUME NEW i \in 1..Len(FieldSeq) PROVE SetSeq(FieldSeq[i]) \in Seq(Sets)
  <2>1. PICK fd \in Fields : fd = FieldSeq[i]
    BY <1>1
  <2>2. fd[1] \in 0..NGroup - 1 /\ fd[2] \in 0..NFieldOf(fd[1]) - 1 /\ fd = <<fd[1], fd[2]>>
    BY FieldFacts
  <2>3. NSetOf(fd[1], fd[2]) \in Nat
    BY <2>2, ShapeFacts
  <2>4. ASSUME NEW j \in 1..NSetOf(fd[1], fd[2]) PROVE <<fd[1], fd[2], j - 1>> \in Sets
    <3>1. j - 1 \in 0..NSetOf(fd[1], fd[2]) - 1
      BY <2>3
    <3> QED BY <2>2, <3>1, SetFacts
  <2> QED BY <2>1, <2>3, <2>4 DEF SetSeq
<1>3. parts \in Seq(Seq(Sets))
  BY <1>1, <1>2
<1> HIDE DEF parts
<1>4. FlattenSeq(parts) \in Seq(Sets)
  BY <1>3, FlattenParts
<1> QED BY <1>4 DEF SetsInOrder, parts

\* What the equations may be while the sets are trimmed.
Trimming(a, const) == {eq \in EquationsOf(a.ncoefftot) : BlocksKept(eq, a, const)}

LEMMA TrimSetsKeep ==
  ASSUME NEW stability, NEW a, Blocks(stability, a), NEW const,
         NEW base \in Trimming(a, const), NEW seq \in Seq(Sets)
  PROVE  FoldLeft(TrimSet, base, seq) \in Trimming(a, const)
<1> DEFINE n == Len(seq)
           A == Trimming(a, const)
           step == [u \in (1..n) \X A |-> TrimSet(u[2], seq[u[1]])]
           next(g, T) == IF T = {} THEN base ELSE TrimSet(g[T \ {Max(T)}], seq[Max(T)])
           all == CHOOSE g : g = [T \in SUBSET (1..n) |-> next(g, T)]
<1>1. n \in Nat /\ DOMAIN seq = 1..n /\ \A i \in 1..n : seq[i] \in Sets
  OBVIOUS
<1>2. ASSUME NEW eq \in A, NEW s \in Sets PROVE TrimSet(eq, s) \in A
  <2>1. eq \in EquationsOf(a.ncoefftot) /\ BlocksKept(eq, a, const)
    BY DEF Trimming
  <2>2. TrimSet(eq, s) \in EquationsOf(a.ncoefftot) /\ BlocksKept(TrimSet(eq, s), a, const)
    BY <2>1, TrimSetKeeps
  <2> QED BY <2>2 DEF Trimming
<1>3. base \in A
  OBVIOUS
<1> HIDE DEF n, A
<1>4. ASSUME NEW eq \in A, NEW i \in 1..n
      PROVE  step[<<i, eq>>] \in A /\ step[<<i, eq>>] = TrimSet(eq, seq[i])
  <2>1. TrimSet(eq, seq[i]) \in A
    BY <1>1, <1>2
  <2> QED BY <2>1
<1> HIDE DEF step
<1>5. PICK g : /\ g = [T \in SUBSET (1..n) |->
                       IF T = {} THEN base ELSE step[<<Max(T), g[T \ {Max(T)}]>>]]
               /\ \A T \in SUBSET (1..n) : g[T] \in A
  <2>1. \A i \in 1..n : \A eq \in A : step[<<i, eq>>] \in A
    BY <1>4
  <2>2. PICK h : FoldRecursion(n, base, step, h) /\ \A T \in SUBSET (1..n) : h[T] \in A
    BY <1>1, <1>3, <2>1, FoldDefined
  <2> QED BY <2>2, Zenon DEF FoldRecursion
<1>6. ASSUME NEW T \in SUBSET (1..n)
      PROVE  (IF T = {} THEN base ELSE step[<<Max(T), g[T \ {Max(T)}]>>]) = next(g, T)
  <2>1. CASE T = {}
    BY <2>1
  <2>2. CASE T # {}
    <3>1. Max(T) \in 1..n /\ T \ {Max(T)} \in SUBSET (1..n)
      BY <1>1, <2>2, MaxInSet
    <3> QED BY <1>4, <1>5, <2>2, <3>1
  <2> QED BY <2>1, <2>2
<1>7. g = [T \in SUBSET (1..n) |-> next(g, T)]
  <2> HIDE DEF next
  <2> QED BY <1>5, <1>6
<1>8. all = [T \in SUBSET (1..n) |-> next(all, T)]
  <2> HIDE DEF next
  <2> QED BY <1>7
<1>9. FoldLeft(TrimSet, base, seq) = all[1..n]
  BY <1>1 DEF FoldLeft, MapThenFoldSet, n
<1> HIDE DEF all
<1> DEFINE acc == [m \in 0..n |-> all[1..m]]
           Good == {m \in Nat : m \in 0..n => acc[m] \in A}
<1>10. acc[0] = base /\ FoldLeft(TrimSet, base, seq) = acc[n]
  <2>1. 1..0 = {} /\ 0 \in 0..n /\ n \in 0..n
    BY <1>1
  <2>2. all[{}] = base
    BY <1>8
  <2> QED BY <1>9, <2>1, <2>2
<1>11. ASSUME NEW m \in 1..n PROVE acc[m] = TrimSet(acc[m - 1], seq[m])
  <2>1. /\ 1..m \in SUBSET (1..n) /\ 1..m # {} /\ Max(1..m) = m
        /\ (1..m) \ {Max(1..m)} = 1..m - 1 /\ m - 1 \in 0..n /\ m \in 0..n
    BY <1>1, FoldPrefix
  <2>2. all[1..m] = TrimSet(all[1..m - 1], seq[m])
    BY <1>8, <2>1
  <2> QED BY <2>1, <2>2
<1> HIDE DEF acc
<1>12. 0 \in Good
  BY <1>3, <1>10
<1>13. ASSUME NEW m \in Nat, m \in Good PROVE m + 1 \in Good
  <2> SUFFICES ASSUME m + 1 \in 0..n PROVE acc[m + 1] \in A
    OBVIOUS
  <2>1. m \in 0..n /\ m + 1 \in 1..n /\ (m + 1) - 1 = m
    BY <1>1
  <2>2. acc[m] \in A /\ seq[m + 1] \in Sets
    BY <1>1, <1>13, <2>1
  <2>3. acc[m + 1] = TrimSet(acc[m], seq[m + 1])
    BY <1>11, <2>1
  <2> QED BY <1>2, <2>2, <2>3
<1>14. n \in Good
  <2> HIDE DEF Good
  <2> QED BY <1>1, <1>12, <1>13, NumberInduction
<1> QED BY <1>1, <1>10, <1>14 DEF A

\* Every field has at least as many constraints as coefficients of its own.
Dense(a, const) == \A f \in Fields : a.findex2[f] >= 0 => const[a.findex2[f]] >= NCoeff2

\* Then no block of a field is trimmed.
LEMMA TrimFieldNot ==
  ASSUME NEW stability, NEW a, Blocks(stability, a), NEW const, Dense(a, const),
         NEW eq \in Trimming(a, const), NEW fd \in Fields
  PROVE  TrimField(eq, fd) = eq
<1>1. BlocksKept(eq, a, const) /\ eq.findex2 \in [Fields -> Int]
  BY DEF Trimming, EquationsOf
<1>2. FieldKept(eq, a, const, fd) /\ eq.ncoeff2 = a.ncoeff2 /\ a.findex2[fd] \in Int
  BY <1>1 DEF BlocksKept, Blocks
<1>3. eq.ncoeff2[fd] = NCoeff2
  BY <1>2 DEF Blocks
<1>4. CASE a.findex2[fd] < 0
  <2>1. eq.findex2[fd] = -1
    BY <1>2, <1>4 DEF FieldKept
  <2>2. eq.findex2[fd] < 0
    BY <2>1
  <2> QED BY <2>2 DEF TrimField
<1>5. CASE a.findex2[fd] >= 0
  <2>1. eq.nconst[eq.findex2[fd]] >= NCoeff2
    BY <1>2, <1>5 DEF FieldKept, Dense
  <2> QED BY <1>3, <2>1 DEF TrimField
<1> QED BY <1>2, <1>4, <1>5

LEMMA TrimFieldsNot ==
  ASSUME NEW stability, NEW a, Blocks(stability, a), NEW const, Dense(a, const),
         NEW base \in Trimming(a, const)
  PROVE  FoldLeft(TrimField, base, FieldSeq) = base
<1> DEFINE n == Len(FieldSeq)
           next(g, T) == IF T = {} THEN base ELSE TrimField(g[T \ {Max(T)}], FieldSeq[Max(T)])
           all == CHOOSE g : g = [T \in SUBSET (1..n) |-> next(g, T)]
           same == [T \in SUBSET (1..n) |-> base]
<1>1. n \in Nat /\ DOMAIN FieldSeq = 1..n /\ \A i \in 1..n : FieldSeq[i] \in Fields
  BY FieldOrder
<1>2. \A fd \in Fields : TrimField(base, fd) = base
  BY TrimFieldNot
<1> HIDE DEF n
<1>3. ASSUME NEW T \in SUBSET (1..n) PROVE same[T] = next(same, T)
  <2>1. CASE T = {}
    BY <2>1
  <2>2. CASE T # {}
    <3>1. Max(T) \in 1..n /\ T \ {Max(T)} \in SUBSET (1..n)
      BY <1>1, <2>2, MaxInSet
    <3> QED BY <1>1, <1>2, <2>2, <3>1
  <2> QED BY <2>1, <2>2
<1>4. same = [T \in SUBSET (1..n) |-> next(same, T)]
  <2>1. same = [T \in SUBSET (1..n) |-> same[T]]
    OBVIOUS
  <2> HIDE DEF next, same
  <2> QED BY <1>3, <2>1
<1>5. all = [T \in SUBSET (1..n) |-> next(all, T)]
  <2> HIDE DEF next
  <2> QED BY <1>4
<1>6. FoldLeft(TrimField, base, FieldSeq) = all[1..n]
  BY <1>1 DEF FoldLeft, MapThenFoldSet, n
<1> HIDE DEF all
<1> DEFINE Good == {m \in Nat : m \in 0..n => all[1..m] = base}
<1>7. 0 \in Good
  <2>1. 1..0 = {} /\ {} \in SUBSET (1..n)
    OBVIOUS
  <2> QED BY <1>5, <2>1
<1>8. ASSUME NEW m \in Nat, m \in Good PROVE m + 1 \in Good
  <2> SUFFICES ASSUME m + 1 \in 0..n PROVE all[1..m + 1] = base
    OBVIOUS
  <2>1. m \in 0..n /\ m + 1 \in 1..n /\ (m + 1) - 1 = m
    BY <1>1
  <2>2. /\ 1..m + 1 \in SUBSET (1..n) /\ 1..m + 1 # {} /\ Max(1..m + 1) = m + 1
        /\ (1..m + 1) \ {Max(1..m + 1)} = 1..m
    BY <1>1, <2>1, FoldPrefix
  <2>3. all[1..m + 1] = TrimField(all[1..m], FieldSeq[m + 1])
    BY <1>5, <2>2
  <2>4. all[1..m] = base /\ FieldSeq[m + 1] \in Fields
    BY <1>1, <1>8, <2>1
  <2> QED BY <1>2, <2>3, <2>4
<1>9. n \in Good
  <2> HIDE DEF Good
  <2> QED BY <1>1, <1>7, <1>8, NumberInduction
<1> QED BY <1>1, <1>6, <1>9

LEMMA EquationsKept ==
  ASSUME NEW stability, NEW a, a = Assigned(stability), Blocks(stability, a),
         NEW const \in [0..a.ncoefftot - 1 -> Nat]
  PROVE  Equations(a, const) \in Trimming(a, const)
<1>1. PICK eq : eq = Equations(a, const)
  OBVIOUS
<1>2. PICK col : col = [p \in 0..a.ncoefftot - 1 |-> p]
  OBVIOUS
<1>3. eq = [column |-> col, nconst |-> const, ncoefftot |-> a.ncoefftot,
            hasIndex |-> a.hasIndex, index |-> a.index, index2 |-> a.index2,
            findex2 |-> a.findex2, ncoeff |-> a.ncoeff, ncoeff2 |-> a.ncoeff2]
  BY <1>1, <1>2 DEF Equations
<1>4. /\ eq.column = col /\ eq.nconst = const /\ eq.ncoefftot = a.ncoefftot
      /\ eq.hasIndex = a.hasIndex /\ eq.index = a.index /\ eq.index2 = a.index2
      /\ eq.findex2 = a.findex2 /\ eq.ncoeff = a.ncoeff /\ eq.ncoeff2 = a.ncoeff2
  BY <1>3
<1>5. NCoeff \in Nat \ {0} /\ NCoeff2 \in Nat \ {0}
  BY NCoeffAssumption DEF NCoeffAssumption
<1>6. /\ a.ncoefftot \in Nat
      /\ a.index \in [Sets -> Int] /\ a.findex2 \in [Fields -> Int]
      /\ a.index2 = [s \in Sets |-> a.findex2[FieldOf(s)]]
      /\ a.ncoeff = [s \in Sets |-> NCoeff] /\ a.ncoeff2 = [fd \in Fields |-> NCoeff2]
  BY DEF Blocks
<1>7. a.hasIndex \in SUBSET Fields
  BY DEF Assigned
<1>8. eq \in EquationsOf(a.ncoefftot)
  <2>1. col \in [0..a.ncoefftot - 1 -> Int]
    BY <1>2, <1>6
  <2>2. a.ncoeff \in [Sets -> Nat] /\ a.ncoeff2 \in [Fields -> Nat]
    BY <1>5, <1>6
  <2>3. a.index2 \in [Sets -> Int]
    <3>1. \A s \in Sets : FieldOf(s) \in Fields
      BY SetFacts
    <3> QED BY <1>6, <3>1
  <2> QED BY <1>3, <1>6, <1>7, <2>1, <2>2, <2>3 DEF EquationsOf
<1>9. ASSUME NEW s \in Sets
      PROVE  /\ eq.ncoeff[s] = NCoeff /\ eq.index[s] = a.index[s] /\ a.index[s] \in Int
             /\ SetKept(eq, a, s)
  <2>1. eq.ncoeff[s] = NCoeff /\ eq.index[s] = a.index[s] /\ a.index[s] \in Int
    BY <1>4, <1>6
  <2>2. /\ a.index[s] >= 0 \/ a.index[s] = -1
        /\ a.index[s] >= 0 => a.index[s] + NCoeff <= a.ncoefftot
    BY DEF Blocks
  <2>3. CASE a.index[s] < 0
    BY <2>1, <2>2, <2>3 DEF SetKept
  <2>4. CASE a.index[s] >= 0
    <3>1. PICK i \in Nat : i = a.index[s]
      BY <2>1, <2>4
    <3>2. \A k \in 0..NCoeff - 1 : i + k \in 0..a.ncoefftot - 1
      BY <1>5, <1>6, <2>2, <2>4, <3>1
    <3>3. \A k \in 0..NCoeff - 1 : col[i + k] = i + k
      BY <1>2, <3>2
    <3> QED BY <1>4, <2>1, <2>2, <2>4, <3>1, <3>3 DEF SetKept
  <2> QED BY <2>1, <2>3, <2>4
<1>10. ASSUME NEW f \in Fields PROVE FieldKept(eq, a, const, f)
  <2>1. eq.findex2[f] = a.findex2[f] /\ a.findex2[f] \in Int
    BY <1>4, <1>6
  <2>2. /\ a.findex2[f] >= 0 \/ a.findex2[f] = -1
        /\ a.findex2[f] >= 0 => a.findex2[f] + NCoeff2 <= a.ncoefftot
    BY DEF Blocks
  <2>3. CASE a.findex2[f] < 0
    BY <2>1, <2>2, <2>3 DEF FieldKept
  <2>4. CASE a.findex2[f] >= 0
    <3>1. PICK i \in Nat : i = a.findex2[f]
      BY <2>1, <2>4
    <3>2. \A k \in 0..NCoeff2 - 1 : i + k \in 0..a.ncoefftot - 1
      BY <1>5, <1>6, <2>2, <2>4, <3>1
    <3>3. \A k \in 0..NCoeff2 - 1 : col[i + k] = i + k
      BY <1>2, <3>2
    <3> QED BY <1>4, <2>1, <2>2, <2>4, <3>1, <3>3 DEF FieldKept
  <2> QED BY <2>1, <2>3, <2>4
<1>11. ASSUME NEW s \in Sets, NEW t \in Sets, a.index[s] >= 0, a.index[t] >= 0
       PROVE  OrderKept(eq, a, s, t)
  <2>1. IF Shared(stability, s, t) THEN a.index[s] = a.index[t]
        ELSE a.index[s] + NCoeff <= a.index[t] \/ a.index[t] + NCoeff <= a.index[s]
    BY <1>11 DEF Blocks
  <2> QED BY <1>5, <1>9, <2>1 DEF OrderKept
<1>12. ASSUME NEW s \in Sets, NEW f \in Fields, a.index[s] >= 0, a.findex2[f] >= 0
       PROVE  eq.index[s] + eq.ncoeff[s] <= eq.findex2[f]
  <2>1. a.index[s] + NCoeff <= a.findex2[f]
    BY <1>12 DEF Blocks
  <2> QED BY <1>4, <1>9, <2>1
<1>13. BlocksKept(eq, a, const)
  <2>1. ASSUME NEW s \in Sets
        PROVE  /\ eq.ncoeff[s] <= NCoeff
               /\ eq.ncoefftot + NCoeff - eq.ncoeff[s] <= a.ncoefftot
               /\ SetKept(eq, a, s)
    BY <1>4, <1>5, <1>6, <1>9
  <2> QED BY <1>4, <1>6, <1>10, <1>11, <1>12, <2>1 DEF BlocksKept
<1> QED BY <1>1, <1>8, <1>13 DEF Trimming

\* No block of a field is trimmed, and the blocks of the sets keep their first
\* columns.
LEMMA SolvedKept ==
  ASSUME NEW stability, NEW a, a = Assigned(stability), Blocks(stability, a),
         NEW const \in [0..a.ncoefftot - 1 -> Nat], Dense(a, const)
  PROVE  Trimmed(Equations(a, const)) \in Trimming(a, const)
<1>1. PICK eq : eq = Equations(a, const) /\ eq \in Trimming(a, const)
  BY EquationsKept
<1>2. PICK instruments : instruments = FoldLeft(TrimSet, eq, SetsInOrder)
  OBVIOUS
<1>3. instruments \in Trimming(a, const)
  BY <1>1, <1>2, TrimSetsKeep, SetsInOrderSeq
<1>4. FoldLeft(TrimField, instruments, FieldSeq) = instruments
  BY <1>3, TrimFieldsNot
<1>5. Trimmed(eq) = FoldLeft(TrimField, instruments, FieldSeq)
  BY <1>2 DEF Trimmed, SetsInOrder
<1> QED BY <1>1, <1>3, <1>4, <1>5

\* What a set reads from the solution are its own columns.
LEMMA ReadsOwn ==
  ASSUME NEW stability, NEW a, Blocks(stability, a), NEW const, NEW eq \in Trimming(a, const),
         NEW s \in Sets, NEW read \in ReadBack(eq, a, s)
  PROVE  read[1] < eq.ncoefftot /\ eq.column[read[1]] = read[2]
<1>1. /\ eq.index2 = [t \in Sets |-> eq.findex2[FieldOf(t)]]
      /\ SetKept(eq, a, s) /\ FieldOf(s) \in Fields /\ FieldKept(eq, a, const, FieldOf(s))
      /\ eq.index[s] \in Int /\ eq.findex2[FieldOf(s)] \in Int /\ eq.ncoeff[s] \in Nat
      /\ eq.ncoefftot \in Nat
  BY SetFacts DEF Trimming, EquationsOf, BlocksKept
<1>2. /\ a.index2 = [t \in Sets |-> a.findex2[FieldOf(t)]]
      /\ a.index[s] \in Int /\ a.findex2[FieldOf(s)] \in Int
  BY <1>1 DEF Blocks
<1>3. eq.index2[s] = eq.findex2[FieldOf(s)] /\ a.index2[s] = a.findex2[FieldOf(s)]
  BY <1>1, <1>2
<1>4. NCoeff2 \in Nat
  BY NCoeffAssumption DEF NCoeffAssumption
<1>5. CASE eq.index[s] >= 0 /\ \E k \in 0..eq.ncoeff[s] - 1 : read = <<eq.index[s] + k, a.index[s] + k>>
  <2>1. PICK k \in 0..eq.ncoeff[s] - 1 : read = <<eq.index[s] + k, a.index[s] + k>>
    BY <1>5
  <2>2. read[1] = eq.index[s] + k /\ read[2] = a.index[s] + k
    BY <2>1
  <2>3. a.index[s] >= 0
    BY <1>1, <1>2, <1>5 DEF SetKept
  <2>4. /\ eq.index[s] + eq.ncoeff[s] <= eq.ncoefftot
        /\ eq.column[eq.index[s] + k] = a.index[s] + k
    BY <1>1, <2>3 DEF SetKept
  <2> QED BY <1>1, <2>2, <2>4
<1>6. CASE eq.index2[s] >= 0 /\ \E k \in 0..NCoeff2 - 1 : read = <<eq.index2[s] + k, a.index2[s] + k>>
  <2>1. PICK k \in 0..NCoeff2 - 1 : read = <<eq.index2[s] + k, a.index2[s] + k>>
    BY <1>6
  <2>2. read[1] = eq.findex2[FieldOf(s)] + k /\ read[2] = a.findex2[FieldOf(s)] + k
    BY <1>3, <2>1
  <2>3. a.findex2[FieldOf(s)] >= 0
    BY <1>1, <1>2, <1>3, <1>6 DEF FieldKept
  <2>4. /\ eq.findex2[FieldOf(s)] + NCoeff2 <= eq.ncoefftot
        /\ eq.column[eq.findex2[FieldOf(s)] + k] = a.findex2[FieldOf(s)] + k
    BY <1>1, <2>3 DEF FieldKept
  <2> QED BY <1>1, <1>4, <2>2, <2>4
<1> QED BY <1>1, <1>3, <1>5, <1>6 DEF ReadBack

\* The columns of two blocks of n and m coefficients.
LEMMA BlocksMeet ==
  ASSUME NEW i \in Int, NEW j \in Int, NEW n \in Nat \ {0}, NEW m \in Nat \ {0}
  PROVE  /\ BlockColumns(i, n) # {} <=> i >= 0
         /\ i >= 0 /\ BlockColumns(i, n) = BlockColumns(j, n) => i = j
         /\ i < 0 \/ j < 0 \/ i + n <= j \/ j + m <= i =>
               BlockColumns(i, n) \cap BlockColumns(j, m) = {}
<1>1. BlockColumns(i, n) # {} <=> i >= 0
  <2>1. i >= 0 => i \in i..i + n - 1
    OBVIOUS
  <2> QED BY <2>1 DEF BlockColumns
<1>2. ASSUME i >= 0, BlockColumns(i, n) = BlockColumns(j, n) PROVE i = j
  <2>1. i \in BlockColumns(i, n)
    BY <1>2 DEF BlockColumns
  <2>2. j >= 0 /\ i >= j
    BY <1>2, <2>1 DEF BlockColumns
  <2>3. j \in BlockColumns(j, n)
    BY <2>2 DEF BlockColumns
  <2>4. j >= i
    BY <1>2, <2>3 DEF BlockColumns
  <2> QED BY <2>2, <2>4
<1>3. ASSUME i < 0 \/ j < 0 \/ i + n <= j \/ j + m <= i
      PROVE  BlockColumns(i, n) \cap BlockColumns(j, m) = {}
  <2>1. ASSUME NEW p \in BlockColumns(i, n) \cap BlockColumns(j, m) PROVE FALSE
    <3>1. i >= 0 /\ p \in i..i + n - 1 /\ j >= 0 /\ p \in j..j + m - 1
      BY <2>1 DEF BlockColumns
    <3> QED BY <1>3, <3>1
  <2> QED BY <2>1
<1> QED BY <1>1, <1>2, <1>3

\* Blocks that are apart have no column in common.
LEMMA ApartBlocks ==
  ASSUME Blocks(prefs.stability_type, assigned)
  PROVE  BlocksApart
<1> SUFFICES ASSUME NEW s \in Sets, NEW t \in Sets, NEW block,
                    block = BlockColumns(assigned.index[s], NCoeff)
             PROVE  /\ (block # {} /\ block = BlockColumns(assigned.index[t], NCoeff))
                       <=> (block # {} /\ SameBlock(s, t))
                    /\ SameBlock(s, t) \/ block \cap BlockColumns(assigned.index[t], NCoeff) = {}
                    /\ block \cap BlockColumns(assigned.index2[t], NCoeff2) = {}
                    /\ FieldOf(s) = FieldOf(t)
                       \/ BlockColumns(assigned.index2[s], NCoeff2)
                          \cap BlockColumns(assigned.index2[t], NCoeff2) = {}
  BY DEF BlocksApart
<1>1. NCoeff \in Nat \ {0} /\ NCoeff2 \in Nat \ {0}
  BY NCoeffAssumption DEF NCoeffAssumption
<1>2. PICK i \in Int, j \in Int, k \in Int, l \in Int :
         /\ i = assigned.index[s] /\ j = assigned.index[t]
         /\ k = assigned.findex2[FieldOf(s)] /\ l = assigned.findex2[FieldOf(t)]
         /\ k = assigned.index2[s] /\ l = assigned.index2[t]
  <2>1. FieldOf(s) \in Fields /\ FieldOf(t) \in Fields
    BY SetFacts
  <2> QED BY <2>1 DEF Blocks
<1>3. SameBlock(s, t) <=> Shared(prefs.stability_type, s, t)
  BY DEF SameBlock, Shared
<1>4. FieldOf(s) \in Fields /\ FieldOf(t) \in Fields
  BY SetFacts
<1>5. i >= 0 /\ j >= 0 => IF SameBlock(s, t) THEN i = j ELSE i + NCoeff <= j \/ j + NCoeff <= i
  BY <1>2, <1>3 DEF Blocks
<1>6. i >= 0 /\ SameBlock(s, t) => j >= 0
  <2>1. SameBlock(s, t) => Label[FieldOf(s)] = Label[FieldOf(t)]
    BY DEF SameBlock
  <2>2. /\ i >= 0 <=> Fitted(prefs.stability_type, s)
        /\ j >= 0 <=> Fitted(prefs.stability_type, t)
    BY <1>2 DEF Blocks
  <2> QED BY <2>1, <2>2 DEF Fitted
<1>7. i >= 0 /\ l >= 0 => i + NCoeff <= l
  BY <1>2, <1>4 DEF Blocks
<1>8. FieldOf(s) # FieldOf(t) /\ k >= 0 /\ l >= 0 => k + NCoeff2 <= l \/ l + NCoeff2 <= k
  BY <1>2, <1>4 DEF Blocks
<1>9. (block # {} /\ block = BlockColumns(j, NCoeff)) <=> (block # {} /\ SameBlock(s, t))
  <2>1. block # {} <=> i >= 0
    BY <1>1, <1>2, BlocksMeet
  <2>2. ASSUME i >= 0, block = BlockColumns(j, NCoeff) PROVE SameBlock(s, t)
    <3>1. i >= 0 /\ BlockColumns(i, NCoeff) = BlockColumns(j, NCoeff) => i = j
      BY <1>1, BlocksMeet
    <3>2. i = j
      BY <1>2, <2>2, <3>1
    <3> QED BY <1>1, <1>5, <2>2, <3>2
  <2>3. ASSUME i >= 0, SameBlock(s, t) PROVE block = BlockColumns(j, NCoeff)
    BY <1>2, <1>5, <1>6, <2>3
  <2> QED BY <2>1, <2>2, <2>3
<1>10. SameBlock(s, t) \/ block \cap BlockColumns(j, NCoeff) = {}
  <2>1. SameBlock(s, t) \/ i < 0 \/ j < 0 \/ i + NCoeff <= j \/ j + NCoeff <= i
    BY <1>5
  <2> QED BY <1>1, <1>2, <2>1, BlocksMeet
<1>11. block \cap BlockColumns(l, NCoeff2) = {}
  <2>1. i < 0 \/ l < 0 \/ i + NCoeff <= l
    BY <1>7
  <2> QED BY <1>1, <1>2, <2>1, BlocksMeet
<1>12. FieldOf(s) = FieldOf(t) \/ BlockColumns(k, NCoeff2) \cap BlockColumns(l, NCoeff2) = {}
  <2>1. FieldOf(s) = FieldOf(t) \/ k < 0 \/ l < 0 \/ k + NCoeff2 <= l \/ l + NCoeff2 <= k
    BY <1>8
  <2> QED BY <1>1, <2>1, BlocksMeet
<1> QED BY <1>2, <1>9, <1>10, <1>11, <1>12

LEMMA ConstraintsCounted ==
  ASSUME cell \in [Cells -> Nat]
  PROVE  Constraints \in [0..assigned.ncoefftot - 1 -> Nat]
<1>1. ASSUME NEW p \in 0..assigned.ncoefftot - 1
      PROVE  (IF <<"nconst", p>> \in DOMAIN cell THEN cell[<<"nconst", p>>] ELSE 0) \in Nat
  <2>1. PICK c : c = <<"nconst", p>>
    OBVIOUS
  <2>2. c \in DOMAIN cell => cell[c] \in Nat
    OBVIOUS
  <2> QED BY <2>1, <2>2
<1> QED BY <1>1 DEF Constraints

\* Blocks of coefficients are apart, and each set takes the solved values of its
\* own columns, wherever trimming has moved them.  The blocks are apart for
\* labels as ExposuresLast has them and pre-distorted instruments as
\* PredistortedLast has them (the loop and the test of astrsolve.c:270-290); the
\* values are its own when no field has fewer constraints than exposure
\* coefficients (mat_to_wcs reads a trimmed exposure block in full).
THEOREM OwnColumnsHolds ==
  ASSUME \A p \in Settings : ExposuresLast(p.stability_type) /\ PredistortedLast(p.stability_type)
  PROVE  Spec => /\ [](stage = "solved" => BlocksApart)
                 /\ [](Dense(assigned, Constraints) => OwnColumns)
<1>1. Init => Life /\ Filling /\ Additions
  BY LifeInit, FillingInit DEF Init, FillInit, Additions, Unfilled
<1>2. Life /\ Filling /\ Additions /\ [Next]_vars => (Life /\ Filling /\ Additions)'
  BY LifeNext, FillingNext, AdditionsNext
<1>3. ASSUME Additions, stage = "solved"
      PROVE  /\ Accounted /\ assigned = Assigned(prefs.stability_type)
             /\ Blocks(prefs.stability_type, assigned)
  <2>1. Accounted /\ assigned = Assigned(prefs.stability_type) /\ prefs \in Settings
    BY <1>3 DEF Additions
  <2>2. prefs.stability_type \in [Labels -> StabilityTypes]
    BY <2>1, SettingsAssumption DEF SettingsAssumption
  <2>3. ExposuresLast(prefs.stability_type) /\ PredistortedLast(prefs.stability_type)
    BY <2>1
  <2> QED BY <2>1, <2>2, <2>3, AssignedBlocks
<1>4. Additions => (stage = "solved" => BlocksApart)
  BY <1>3, ApartBlocks
<1>5. Additions => (Dense(assigned, Constraints) => OwnColumns)
  <2> SUFFICES ASSUME Additions, Dense(assigned, Constraints), stage = "solved"
               PROVE  ColumnsFollow
    BY <1>4 DEF OwnColumns
  <2>1. /\ Accounted /\ assigned = Assigned(prefs.stability_type)
        /\ Blocks(prefs.stability_type, assigned)
    BY <1>3
  <2>2. Constraints \in [0..assigned.ncoefftot - 1 -> Nat]
    BY <2>1, ConstraintsCounted DEF Accounted
  <2>3. PICK stability, a, const :
           stability = prefs.stability_type /\ a = assigned /\ const = Constraints
    OBVIOUS
  <2>4. Trimmed(Equations(a, const)) \in Trimming(a, const)
    BY <2>1, <2>2, <2>3, SolvedKept
  <2>5. PICK eq : eq = Solved /\ eq \in Trimming(a, const)
    BY <2>3, <2>4 DEF Solved
  <2>6. \A s \in Sets : \A read \in ReadBack(eq, a, s) :
           read[1] < eq.ncoefftot /\ eq.column[read[1]] = read[2]
    BY <2>1, <2>3, <2>5, ReadsOwn
  <2> QED BY <2>3, <2>5, <2>6 DEF ColumnsFollow
<1> QED BY <1>1, <1>2, <1>4, <1>5, PTL DEF Spec
=============================================================================
