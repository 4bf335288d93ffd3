------------------------- MODULE FieldGroupsProofs -------------------------
(***************************************************************************)
(* For any number of fields and any way they overlap, group_fields leaves  *)
(* every field in exactly one group, the one the field points to.          *)
(***************************************************************************)
EXTENDS FieldGroups, FiniteSetTheorems, TLAPS

\* Groups in use are different allocations, there are never more than fields
\* seen, and the fusion loop is past the group the newcomer went to.
IInv == /\ TypeOK
        /\ Partition
        /\ \A i, j \in 1..ngroup : i # j => fgroups[i].id # fgroups[j].id
        /\ \A i \in 1..ngroup : fgroups[i].id <= made
        /\ made < f1
        /\ pc = "fuse" => f1 \in Fields /\ g2 \in 1..ngroup /\ g2 < g

\* The parts of IInv beyond TypeOK and Partition.
Rest == /\ \A i, j \in 1..ngroup : i # j => fgroups[i].id # fgroups[j].id
        /\ \A i \in 1..ngroup : fgroups[i].id <= made
        /\ made < f1
        /\ pc = "fuse" => f1 \in Fields /\ g2 \in 1..ngroup /\ g2 < g

\* The empty list of groups holds the fields placed so far: none.
LEMMA InitIInv == Init => IInv
  BY NFieldAssumption DEF Init, IInv, TypeOK, Partition, Placed, Fields, Group

\* A newcomer never touches more groups than there are.
LEMMA TouchedBound == ASSUME TypeOK PROVE Cardinality(Touched) \in 0..NField
<1>1. Touched \subseteq 1..ngroup
  BY DEF Touched
<1>2. ngroup \in Nat /\ ngroup <= NField
  BY NFieldAssumption DEF TypeOK
<1>3. IsFiniteSet(1..ngroup) /\ Cardinality(1..ngroup) = ngroup
  BY <1>2, FS_Interval
<1>4. /\ IsFiniteSet(Touched)
      /\ Cardinality(Touched) <= ngroup
      /\ Cardinality(Touched) \in Nat
  BY <1>1, <1>3, FS_Subset, FS_CardinalityType
<1> QED BY <1>2, <1>4, NFieldAssumption

\* What the typing of the groups says of each of them.
LEMMA GroupTyped ==
  ASSUME IInv
  PROVE  /\ ngroup \in Nat /\ made \in Nat /\ f1 \in Nat
         /\ \A i \in 1..ngroup : /\ fgroups[i].field \subseteq Fields
                                 /\ fgroups[i].id \in Nat
<1>1. TypeOK
  BY DEF IInv
<1>2. ngroup \in Nat /\ made \in Nat /\ f1 \in Nat
  BY <1>1, NFieldAssumption DEF TypeOK
<1>3. \A i \in 1..ngroup : fgroups[i] \in Group
  BY <1>1 DEF TypeOK
<1> QED BY <1>2, <1>3 DEF Group

\* A new group for a field that touches none.
LEMMA NewGroupIInv == ASSUME IInv, NewGroup PROVE IInv'
<1>1. made + 1 \in 1..NField /\ f1 \in Fields /\ ngroup \in Nat
  BY NFieldAssumption DEF NewGroup, IInv, TypeOK, Fields
<1>2. TypeOK'
  <2>1. [id |-> made + 1, field |-> {f1}, flag |-> FALSE] \in Group
    BY <1>1 DEF Group
  <2>2. fgroups' \in [1..ngroup' -> Group]
    BY <1>1, <2>1 DEF NewGroup, IInv, TypeOK
  <2>3. ngroup' \in 0..made' /\ made' \in 0..NField /\ f1' \in 1..NField + 1
    BY <1>1, NFieldAssumption DEF NewGroup, IInv, TypeOK, Fields
  <2>4. fgroup' \in [Fields -> 0..made']
    BY <1>1, NFieldAssumption DEF NewGroup, IInv, TypeOK, Fields
  <2> QED BY <2>2, <2>3, <2>4 DEF NewGroup, IInv, TypeOK
<1>3. /\ ngroup' = ngroup + 1 /\ f1' = f1 + 1 /\ made' = made + 1
      /\ pc = "place" /\ pc' = "place"
      /\ \A i \in 1..ngroup : /\ fgroups'[i].field = fgroups[i].field
                              /\ fgroups'[i].id = fgroups[i].id
      /\ fgroups'[ngroup + 1].field = {f1}
      /\ fgroups'[ngroup + 1].id = made + 1
  BY <1>1 DEF NewGroup
<1>4. /\ fgroup'[f1] = made + 1
      /\ \A f \in Fields \ {f1} : fgroup'[f] = fgroup[f]
  BY <1>1 DEF NewGroup, IInv, TypeOK
<1>5. \A i \in 1..ngroup : f1 \notin fgroups[i].field
  BY <1>1, <1>3 DEF IInv, Partition, Placed, Fields
<1>6. \A i \in 1..ngroup' : i \in 1..ngroup \/ i = ngroup + 1
  BY <1>1, <1>3
<1>7. 1..ngroup \subseteq 1..ngroup' /\ ngroup + 1 \in 1..ngroup'
  BY <1>1, <1>3
<1>8. Partition'
  <2>1. \A f \in Fields : f \in Placed' <=> f \in Placed \/ f = f1
    BY <1>1, <1>3 DEF Placed, Fields
  <2>2. \A f \in Fields : f \in Placed <=> \E i \in 1..ngroup : f \in fgroups[i].field
    BY DEF IInv, Partition
  <2>3. \A f \in Fields : f \in Placed' <=> \E i \in 1..ngroup' : f \in fgroups'[i].field
    BY <1>3, <1>6, <1>7, <2>1, <2>2
  <2>4. \A i, j \in 1..ngroup' : i # j => fgroups'[i].field \cap fgroups'[j].field = {}
    BY <1>3, <1>5, <1>6 DEF IInv, Partition
  <2>5. \A i \in 1..ngroup' :
            /\ fgroups'[i].field # {}
            /\ \A f \in fgroups'[i].field : fgroup'[f] = fgroups'[i].id
    BY <1>3, <1>4, <1>5, <1>6, GroupTyped DEF IInv, Partition
  <2> QED BY <2>3, <2>4, <2>5 DEF Partition
<1>9. Rest'
  <2>1. \A i, j \in 1..ngroup' : i # j => fgroups'[i].id # fgroups'[j].id
    BY <1>3, <1>6, GroupTyped DEF IInv
  <2>2. \A i \in 1..ngroup' : fgroups'[i].id <= made'
    BY <1>3, <1>6, GroupTyped DEF IInv
  <2> QED BY <1>3, <2>1, <2>2, GroupTyped DEF IInv, Rest
<1> QED BY <1>2, <1>8, <1>9 DEF Rest, IInv

\* A newcomer joins the first group it touches.
LEMMA JoinIInv == ASSUME IInv, Join PROVE IInv'
<1>1. PICK first \in 1..ngroup :
          /\ fgroups' = [i \in 1..ngroup |->
                 IF i = first
                 THEN [fgroups[i] EXCEPT !.field = @ \cup {f1}, !.flag = FALSE]
                 ELSE [fgroups[i] EXCEPT !.flag = Raised(i)]]
          /\ fgroup' = [fgroup EXCEPT ![f1] = fgroups[first].id]
          /\ g2' = first /\ g' = first + 1
  BY DEF Join
<1>0. first \in 1..ngroup /\ g2' = first /\ g' = first + 1
  BY <1>1, Zenon
<1>2. TypeOK
  BY DEF IInv
<1>3. f1 \in Fields
  <2>1. f1 <= NField
    BY DEF Join
  <2> QED BY <1>2, <2>1, NFieldAssumption DEF TypeOK, Fields
<1>4. Cardinality(Touched) \in 0..NField
  BY <1>2, TouchedBound
<1>5. \A i \in 1..ngroup : Raised(i) \in BOOLEAN
  BY <1>2 DEF Raised, TypeOK, Group
<1>6. /\ ngroup' = ngroup /\ f1' = f1 /\ made' = made
      /\ pc = "place" /\ pc' = "fuse" /\ overlap' = overlap
  BY DEF Join
<1>7. \A i \in 1..ngroup : fgroups[i] \in Group
  BY <1>2 DEF TypeOK
<1>8. \A i \in 1..ngroup :
          /\ fgroups'[i].id = fgroups[i].id
          /\ fgroups'[i].field = IF i = first THEN fgroups[i].field \cup {f1}
                                 ELSE fgroups[i].field
          /\ fgroups'[i] \in Group
  BY <1>1, <1>3, <1>5, <1>7 DEF Group
<1>9. TypeOK'
  <2>1. fgroups' \in [1..ngroup' -> Group]
    BY <1>1, <1>6, <1>8
  <2>2. fgroup' \in [Fields -> 0..made']
    <3>1. fgroups[first].id \in 0..made
      <4>1. fgroups[first].id \in Nat /\ made \in Nat
        BY <1>1, GroupTyped
      <4>2. fgroups[first].id <= made
        BY <1>1 DEF IInv
      <4> QED BY <4>1, <4>2
    <3> QED BY <1>1, <1>2, <1>3, <1>6, <3>1 DEF TypeOK
  <2>3. g' \in 0..NField + 1 /\ g2' \in 0..NField
    <3>1. ngroup \in Nat /\ ngroup <= NField
      BY <1>2, NFieldAssumption DEF TypeOK
    <3>2. first \in Nat /\ first >= 1 /\ first <= NField
      BY <1>0, <3>1, NFieldAssumption
    <3> QED BY <1>0, <3>2, NFieldAssumption
  <2>4. widest' \in 0..NField
    BY <1>2, <1>4 DEF Join, TypeOK
  <2> QED BY <1>2, <1>6, <2>1, <2>2, <2>3, <2>4 DEF TypeOK
<1>10. \A i \in 1..ngroup : f1 \notin fgroups[i].field
  BY <1>3, <1>6 DEF IInv, Partition, Placed, Fields
<1>11. /\ fgroup'[f1] = fgroups[first].id
       /\ \A f \in Fields \ {f1} : fgroup'[f] = fgroup[f]
  BY <1>1, <1>2, <1>3 DEF TypeOK
<1>12. Partition'
  <2>1. \A f \in Fields : f \in Placed' <=> f \in Placed \/ f = f1
    BY <1>3, <1>6 DEF Placed, Fields
  <2>2. \A f \in Fields : f \in Placed <=> \E i \in 1..ngroup : f \in fgroups[i].field
    BY DEF IInv, Partition
  <2>3. \A f \in Fields : f \in Placed' <=> \E i \in 1..ngroup' : f \in fgroups'[i].field
    BY <1>6, <1>8, <2>1, <2>2
  <2>4. ASSUME NEW i \in 1..ngroup, NEW j \in 1..ngroup, i # j
        PROVE  fgroups'[i].field \cap fgroups'[j].field = {}
    <3>1. fgroups[i].field \cap fgroups[j].field = {}
      BY <2>4 DEF IInv, Partition
    <3>2. f1 \notin fgroups[i].field /\ f1 \notin fgroups[j].field
      BY <1>10
    <3> QED BY <1>8, <2>4, <3>1, <3>2
  <2>5. ASSUME NEW i \in 1..ngroup
        PROVE  /\ fgroups'[i].field # {}
               /\ \A f \in fgroups'[i].field : fgroup'[f] = fgroups'[i].id
    <3>1. /\ fgroups[i].field # {} /\ fgroups[i].field \subseteq Fields
          /\ \A f \in fgroups[i].field : fgroup[f] = fgroups[i].id
      BY GroupTyped DEF IInv, Partition
    <3>2. \A f \in fgroups[i].field : fgroup'[f] = fgroups[i].id
      BY <1>10, <1>11, <3>1
    <3>3. CASE i = first
      <4>1. fgroups'[i].field = fgroups[i].field \cup {f1} /\ fgroups'[i].id = fgroups[i].id
        BY <1>8, <3>3
      <4>2. fgroup'[f1] = fgroups[i].id
        BY <1>11, <3>3
      <4> QED BY <3>1, <3>2, <4>1, <4>2
    <3>4. CASE i # first
      <4>1. fgroups'[i].field = fgroups[i].field /\ fgroups'[i].id = fgroups[i].id
        BY <1>8, <3>4
      <4> QED BY <3>1, <3>2, <4>1
    <3> QED BY <3>3, <3>4
  <2> QED BY <1>6, <2>3, <2>4, <2>5 DEF Partition
<1>13. Rest'
  <2>1. ASSUME NEW i \in 1..ngroup, NEW j \in 1..ngroup, i # j
        PROVE  fgroups'[i].id # fgroups'[j].id
    BY <1>8, <2>1 DEF IInv
  <2>2. \A i \in 1..ngroup' : fgroups'[i].id <= made'
    BY <1>6, <1>8 DEF IInv
  <2>3. made' < f1' /\ f1' \in Fields
    BY <1>3, <1>6 DEF IInv
  <2>4. g2' \in 1..ngroup' /\ g2' < g'
    BY <1>0, <1>6, GroupTyped
  <2> QED BY <1>6, <2>1, <2>2, <2>3, <2>4 DEF Rest
<1> QED BY <1>9, <1>12, <1>13 DEF Rest, IInv

\* A flagged group is fused with the newcomer's.
LEMMA FuseIInv == ASSUME IInv, Fuse PROVE IInv'
<1>1. /\ g \in 1..ngroup /\ g2 \in 1..ngroup - 1 /\ g2 < g
      /\ ngroup \in 1..NField /\ ngroup' = ngroup - 1
  BY NFieldAssumption DEF Fuse, IInv, TypeOK
<1>2. /\ f1' = f1 /\ made' = made /\ pc = "fuse" /\ pc' = "fuse" /\ g' = g + 1
      /\ g2' = g2 /\ overlap' = overlap /\ widest' = widest
  BY DEF Fuse
<1>3. \A i \in 1..ngroup : fgroups[i] \in Group
  BY DEF IInv, TypeOK
\* Slot i now holds the group that was in slot From(i).
<1> DEFINE From(i) == IF i < g THEN i ELSE i + 1
<1>4. /\ \A i \in 1..ngroup' : From(i) \in 1..ngroup /\ From(i) # g
      /\ \A i, j \in 1..ngroup' : i # j => From(i) # From(j)
      /\ \A k \in 1..ngroup \ {g} : \E i \in 1..ngroup' : From(i) = k
  <2>1. \A i \in 1..ngroup' : From(i) \in 1..ngroup /\ From(i) # g
    BY <1>1
  <2>2. \A i, j \in 1..ngroup' : i # j => From(i) # From(j)
    BY <1>1
  <2>3. ASSUME NEW k \in 1..ngroup \ {g} PROVE \E i \in 1..ngroup' : From(i) = k
    <3>1. CASE k < g
      BY <1>1, <3>1
    <3>2. CASE k > g
      <4>1. k - 1 \in 1..ngroup' /\ From(k - 1) = k
        BY <1>1, <3>2
      <4> QED BY <4>1
    <3> QED BY <1>1, <3>1, <3>2
  <2> QED BY <2>1, <2>2, <2>3
<1>5. \A i \in 1..ngroup' :
          /\ fgroups'[i].id = fgroups[From(i)].id
          /\ fgroups'[i].field = IF From(i) = g2
                                 THEN fgroups[g2].field \cup fgroups[g].field
                                 ELSE fgroups[From(i)].field
          /\ fgroups'[i] \in Group
  <2>1. ASSUME NEW i \in 1..ngroup'
        PROVE  fgroups'[i] = IF From(i) = g2
                             THEN [fgroups[g2] EXCEPT !.field = @ \cup fgroups[g].field]
                             ELSE fgroups[From(i)]
    <3>1. fgroups' = [k \in 1..ngroup - 1 |->
             IF k = g2 THEN [fgroups[k] EXCEPT !.field = @ \cup fgroups[g].field]
             ELSE IF k < g THEN fgroups[k] ELSE fgroups[k + 1]]
      BY DEF Fuse
    <3>2. From(i) = g2 <=> i = g2
      BY <1>1
    <3> QED BY <1>1, <3>1, <3>2
  <2>2. [fgroups[g2] EXCEPT !.field = @ \cup fgroups[g].field] \in Group
    BY <1>1, <1>3 DEF Group
  <2>3. /\ [fgroups[g2] EXCEPT !.field = @ \cup fgroups[g].field].id = fgroups[g2].id
        /\ [fgroups[g2] EXCEPT !.field = @ \cup fgroups[g].field].field
              = fgroups[g2].field \cup fgroups[g].field
    BY <1>1, <1>3 DEF Group
  <2> HIDE DEF From
  <2> QED BY <1>3, <1>4, <2>1, <2>2, <2>3
<1>6. \A f \in Fields : fgroup'[f] = IF f \in fgroups[g].field THEN fgroups[g2].id
                                     ELSE fgroup[f]
  BY DEF Fuse
<1> HIDE DEF From
<1>7. TypeOK'
  <2>1. fgroups' \in [1..ngroup' -> Group]
    BY <1>1, <1>5 DEF Fuse
  <2>2. fgroup' \in [Fields -> 0..made']
    <3>1. fgroups[g2].id \in 0..made
      BY <1>1, <1>3 DEF IInv, TypeOK, Group
    <3> QED BY <1>2, <3>1 DEF Fuse, IInv, TypeOK
  <2> QED BY <1>1, <1>2, <2>1, <2>2, NFieldAssumption DEF IInv, TypeOK
<1>8. Partition'
  <2>1. \A f \in Fields : f \in Placed' <=> f \in Placed
    BY <1>2 DEF Placed
  <2>2. \A f \in Fields : f \in Placed <=> \E i \in 1..ngroup : f \in fgroups[i].field
    BY DEF IInv, Partition
  <2>3. \A f : (\E i \in 1..ngroup : f \in fgroups[i].field)
                   <=> \E i \in 1..ngroup' : f \in fgroups'[i].field
    BY <1>1, <1>4, <1>5
  <2>4. \A i, j \in 1..ngroup' : i # j => fgroups'[i].field \cap fgroups'[j].field = {}
    BY <1>1, <1>4, <1>5 DEF IInv, Partition
  <2>5. ASSUME NEW i \in 1..ngroup'
        PROVE  /\ fgroups'[i].field # {}
               /\ \A f \in fgroups'[i].field : fgroup'[f] = fgroups'[i].id
    <3>1. \A k \in 1..ngroup :
              /\ fgroups[k].field # {} /\ fgroups[k].field \subseteq Fields
              /\ \A f \in fgroups[k].field : fgroup[f] = fgroups[k].id
      BY GroupTyped DEF IInv, Partition
    <3>2. From(i) \in 1..ngroup /\ From(i) # g /\ g2 \in 1..ngroup
      BY <1>1, <1>4
    <3>3. fgroups[From(i)].field \cap fgroups[g].field = {}
      BY <1>1, <3>2 DEF IInv, Partition
    <3>4. CASE From(i) = g2
      BY <1>1, <1>5, <1>6, <3>1, <3>2, <3>4
    <3>5. CASE From(i) # g2
      BY <1>5, <1>6, <3>1, <3>2, <3>3, <3>5
    <3> QED BY <3>4, <3>5
  <2> QED BY <2>1, <2>2, <2>3, <2>4, <2>5 DEF Partition
<1>9. Rest'
  <2>1. \A i, j \in 1..ngroup' : i # j => fgroups'[i].id # fgroups'[j].id
    BY <1>4, <1>5 DEF IInv
  <2>2. \A i \in 1..ngroup' : fgroups'[i].id <= made'
    BY <1>2, <1>4, <1>5 DEF IInv
  <2>3. made' < f1' /\ f1' \in Fields /\ g2' \in 1..ngroup' /\ g2' < g'
    BY <1>1, <1>2 DEF IInv
  <2> QED BY <2>1, <2>2, <2>3 DEF Rest
<1> QED BY <1>7, <1>8, <1>9 DEF Rest, IInv

\* Every step keeps IInv.
LEMMA NextIInv == IInv /\ [Next]_vars => IInv'
<1> SUFFICES ASSUME IInv, [Next]_vars PROVE IInv'
  OBVIOUS
<1>1. CASE NewGroup
  BY <1>1, NewGroupIInv
<1>2. CASE Join
  BY <1>2, JoinIInv
<1>3. CASE Fuse
  BY <1>3, FuseIInv
<1>4. CASE PassOver
  <2>1. TypeOK'
    BY <1>4, NFieldAssumption DEF IInv, PassOver, TypeOK, Fields
  <2>2. Placed' = Placed
    BY <1>4, NFieldAssumption DEF IInv, TypeOK, PassOver, Placed, Fields
  <2>3. fgroups' = fgroups /\ ngroup' = ngroup /\ fgroup' = fgroup /\ made' = made
    BY <1>4 DEF PassOver
  <2>4. Partition'
    BY <2>2, <2>3, Zenon DEF IInv, Partition
  <2>5. /\ made' < f1'
        /\ pc' = "fuse" => f1' \in Fields /\ g2' \in 1..ngroup' /\ g2' < g'
    BY <1>4, <2>3, NFieldAssumption DEF PassOver, IInv, TypeOK
  <2> QED BY <2>1, <2>3, <2>4, <2>5 DEF IInv
<1>5. CASE NextField
  <2>1. TypeOK'
    BY <1>5, NFieldAssumption DEF IInv, NextField, TypeOK, Fields
  <2>2. Placed' = Placed
    BY <1>5, NFieldAssumption DEF IInv, TypeOK, NextField, Placed, Fields
  <2>3. fgroups' = fgroups /\ ngroup' = ngroup /\ fgroup' = fgroup /\ made' = made
    BY <1>5 DEF NextField
  <2>4. Partition'
    BY <2>2, <2>3, Zenon DEF IInv, Partition
  <2>5. /\ made' < f1'
        /\ pc' = "fuse" => f1' \in Fields /\ g2' \in 1..ngroup' /\ g2' < g'
    BY <1>5, <2>3, NFieldAssumption DEF NextField, IInv, TypeOK
  <2> QED BY <2>1, <2>3, <2>4, <2>5 DEF IInv
<1>6. CASE Finish
  <2>1. TypeOK'
    BY <1>6, NFieldAssumption DEF IInv, Finish, TypeOK, Fields
  <2>2. Placed' = Placed
    BY <1>6, NFieldAssumption DEF IInv, TypeOK, Finish, Placed, Fields
  <2>3. fgroups' = fgroups /\ ngroup' = ngroup /\ fgroup' = fgroup /\ made' = made
    BY <1>6 DEF Finish
  <2>4. Partition'
    BY <2>2, <2>3, Zenon DEF IInv, Partition
  <2>5. made' < f1' /\ pc' # "fuse"
    BY <1>6 DEF Finish, IInv
  <2> QED BY <2>1, <2>3, <2>4, <2>5 DEF IInv
<1>7. CASE UNCHANGED vars
  BY <1>7 DEF vars, IInv, TypeOK, Partition, Placed
<1> QED BY <1>1, <1>2, <1>3, <1>4, <1>5, <1>6, <1>7 DEF Next

\* The inductive invariant holds throughout.
THEOREM GroupsInvariant == Spec => []IInv
  BY InitIInv, NextIInv, PTL DEF Spec

\* The array of nfield groups is never overrun, and no loop leaves it.
THEOREM GroupsTyped == Spec => []TypeOK
  BY GroupsInvariant, PTL DEF IInv

\* Every field placed is in exactly one group, to which it points.
THEOREM GroupsPartition == Spec => []Partition
  BY GroupsInvariant, PTL DEF IInv

---------------------------------------------------------------------------
(* Groups as connected parts of the sky *)

Overlapping(A, B) == \E a \in A, b \in B : {a, b} \in overlap

Connected(F) == \A part \in (SUBSET F) \ {{}, F} :
                    \E a \in part, b \in F \ part : {a, b} \in overlap

\* The newcomer's group and one that is to be fused with it.
ToFuse(i, j) == pc = "fuse" /\ ((i = g2 /\ fgroups[j].flag) \/ (j = g2 /\ fgroups[i].flag))

\* A flag is up only on a group the newcomer overlaps, that the fusion loop
\* has yet to come to; and on one at most.
OneFlag ==
    /\ pc # "fuse" => \A i \in 1..ngroup : ~fgroups[i].flag
    /\ pc = "fuse" =>
          /\ f1 \in fgroups[g2].field
          /\ \A i \in 1..ngroup : fgroups[i].flag =>
                i >= g /\ Overlapping({f1}, fgroups[i].field)
          /\ \A i, j \in 1..ngroup : fgroups[i].flag /\ fgroups[j].flag => i = j

\* Groups that overlap are to be fused.
Apart == \A i, j \in 1..ngroup :
             i # j /\ ~ToFuse(i, j) => ~Overlapping(fgroups[i].field, fgroups[j].field)

InOnePiece == \A i \in 1..ngroup : Connected(fgroups[i].field)

\* What holds of the groups as long as a newcomer links two at most.  With
\* three, the loop that fuses them passes over the second of two neighbours
\* and leaves its flag up.
LinkInv == widest <= 2 => OneFlag /\ Apart /\ InOnePiece

\* Parts in one piece each that overlap are one piece.
LEMMA UnionConnected ==
  ASSUME NEW F, NEW G, Connected(F), Connected(G), Overlapping(F, G)
  PROVE  Connected(F \cup G)
<1> SUFFICES ASSUME NEW part \in SUBSET (F \cup G), part # {}, part # F \cup G
             PROVE  \E a \in part, b \in (F \cup G) \ part : {a, b} \in overlap
  BY DEF Connected
<1>1. CASE part \cap F \notin {{}, F}
  <2>1. \E a \in part \cap F, b \in F \ (part \cap F) : {a, b} \in overlap
    BY <1>1 DEF Connected
  <2> QED BY <2>1
<1>2. CASE part \cap G \notin {{}, G}
  <2>1. \E a \in part \cap G, b \in G \ (part \cap G) : {a, b} \in overlap
    BY <1>2 DEF Connected
  <2> QED BY <2>1
<1>3. CASE part \cap F \in {{}, F} /\ part \cap G \in {{}, G}
  <2>1. PICK a \in F, b \in G : {a, b} \in overlap
    BY DEF Overlapping
  <2>2. {b, a} \in overlap
    <3>1. {b, a} = {a, b}
      OBVIOUS
    <3> QED BY <2>1, <3>1
  <2>3. CASE part \cap F = F
    <3>1. part \cap G = {}
      BY <1>3, <2>3
    <3> QED BY <2>1, <2>3, <3>1
  <2>4. CASE part \cap F = {}
    <3>1. part \cap G = G
      BY <1>3, <2>4
    <3> QED BY <2>2, <2>4, <3>1
  <2> QED BY <1>3, <2>3, <2>4
<1> QED BY <1>1, <1>2, <1>3

LEMMA SingleConnected == \A f : Connected({f})
  BY DEF Connected

\* Overlapping is symmetric.
LEMMA OverlapSymmetric ==
  ASSUME NEW A, NEW B, Overlapping(A, B) PROVE Overlapping(B, A)
<1>1. PICK a \in A, b \in B : {a, b} \in overlap
  BY DEF Overlapping
<1>2. {b, a} = {a, b}
  OBVIOUS
<1> QED BY <1>1, <1>2 DEF Overlapping

\* A set of two elements at most.
LEMMA TwoAtMost ==
  ASSUME NEW S, IsFiniteSet(S), Cardinality(S) <= 2,
         NEW x \in S, NEW y \in S, NEW z \in S, y # x, z # x
  PROVE  y = z
<1> SUFFICES ASSUME y # z PROVE FALSE
  OBVIOUS
<1>1. /\ IsFiniteSet(S \ {x}) /\ Cardinality(S \ {x}) = Cardinality(S) - 1
  BY FS_RemoveElement
<1>2. /\ IsFiniteSet((S \ {x}) \ {y}) /\ Cardinality((S \ {x}) \ {y}) = Cardinality(S) - 2
  <2>1. y \in S \ {x} /\ Cardinality(S) \in Nat
    BY FS_CardinalityType
  <2>2. /\ IsFiniteSet((S \ {x}) \ {y})
        /\ Cardinality((S \ {x}) \ {y}) = Cardinality(S \ {x}) - 1
    BY <1>1, <2>1, FS_RemoveElement
  <2> QED BY <1>1, <2>1, <2>2
<1>3. z \in (S \ {x}) \ {y}
  OBVIOUS
<1>4. Cardinality((S \ {x}) \ {y}) \in Nat /\ Cardinality((S \ {x}) \ {y}) # 0
  BY <1>2, <1>3, FS_CardinalityType, FS_EmptySet
<1>5. Cardinality(S) \in Nat
  BY FS_CardinalityType
<1> QED BY <1>2, <1>4, <1>5

\* A field that touches no group is a group of its own.
LEMMA NewGroupLink == ASSUME IInv, LinkInv, NewGroup PROVE LinkInv'
<1> SUFFICES ASSUME widest' <= 2 PROVE OneFlag' /\ Apart' /\ InOnePiece'
  BY DEF LinkInv
<1>1. /\ widest <= 2 /\ pc = "place" /\ pc' = "place" /\ overlap' = overlap
      /\ ngroup' = ngroup + 1 /\ ngroup \in Nat /\ Touched = {}
  BY DEF NewGroup, IInv, TypeOK
<1>2. OneFlag /\ Apart /\ InOnePiece
  BY <1>1 DEF LinkInv
<1>3. /\ \A i \in 1..ngroup : fgroups'[i] = fgroups[i]
      /\ fgroups'[ngroup + 1].field = {f1} /\ fgroups'[ngroup + 1].flag = FALSE
      /\ \A i \in 1..ngroup' : i \in 1..ngroup \/ i = ngroup + 1
  BY <1>1 DEF NewGroup
<1>5. OneFlag'
  BY <1>1, <1>2, <1>3 DEF OneFlag
<1>6. \A i \in 1..ngroup : ~Overlapping(fgroups[i].field, {f1})
  BY <1>1, <1>2 DEF OneFlag, Touched, Overlapping
<1>7. Apart'
  <2> SUFFICES ASSUME NEW i \in 1..ngroup', NEW j \in 1..ngroup', i # j
               PROVE  ~\E a \in fgroups'[i].field, b \in fgroups'[j].field : {a, b} \in overlap'
    BY DEF Apart, Overlapping
  <2> DEFINE Meet(A, B) == \E a \in A, b \in B : {a, b} \in overlap
  <2>1. CASE i \in 1..ngroup /\ j \in 1..ngroup
    BY <1>1, <1>2, <1>3, <2>1 DEF Apart, Overlapping, ToFuse
  <2>2. CASE i \in 1..ngroup /\ j = ngroup + 1
    BY <1>1, <1>3, <1>6, <2>2 DEF Overlapping
  <2>3. CASE i = ngroup + 1 /\ j \in 1..ngroup
    <3>1. ~Overlapping({f1}, fgroups[j].field)
      BY <1>6, <2>3, OverlapSymmetric
    <3> QED BY <1>1, <1>3, <2>3, <3>1 DEF Overlapping
  <2> QED BY <1>3, <2>1, <2>2, <2>3
<1>8. InOnePiece'
  <2>1. ASSUME NEW i \in 1..ngroup PROVE Connected(fgroups[i].field)
    BY <1>2 DEF InOnePiece
  <2>2. Connected({f1})
    BY SingleConnected
  <2>3. \A i \in 1..ngroup' : Connected(fgroups'[i].field)
    BY <1>3, <2>1, <2>2, Zenon
  <2> QED BY <1>1, <2>3 DEF InOnePiece, Connected
<1> QED BY <1>5, <1>7, <1>8

\* Overlapping reads overlap alone: Apart after a step that keeps overlap.
LEMMA ApartNext ==
  ASSUME overlap' = overlap, ngroup' = ngroup,
         \A i, j \in 1..ngroup :
           i # j /\ ~ToFuse(i, j)' => ~Overlapping(fgroups'[i].field, fgroups'[j].field)
  PROVE  Apart'
<1> SUFFICES ASSUME NEW i \in 1..ngroup', NEW j \in 1..ngroup', i # j, ~ToFuse(i, j)'
             PROVE  ~Overlapping(fgroups[i].field, fgroups[j].field)'
  BY Zenon DEF Apart
<1>1. ~Overlapping(fgroups'[i].field, fgroups'[j].field)
  OBVIOUS
<1> QED BY <1>1, Zenon DEF Overlapping

\* The newcomer's group is one piece, and apart from those it did not touch.
LEMMA JoinLink == ASSUME IInv, LinkInv, Join PROVE LinkInv'
<1> SUFFICES ASSUME widest' <= 2 PROVE OneFlag' /\ Apart' /\ InOnePiece'
  BY DEF LinkInv
<1>1. /\ pc = "place" /\ pc' = "fuse" /\ overlap' = overlap /\ f1' = f1
      /\ ngroup' = ngroup /\ ngroup \in Nat /\ Touched # {}
      /\ widest \in Nat /\ Cardinality(Touched) \in Nat
  <2>1. TypeOK
    BY DEF IInv
  <2>2. Cardinality(Touched) \in Nat
    BY <2>1, TouchedBound, NFieldAssumption
  <2>3. widest \in Nat /\ ngroup \in Nat
    BY <2>1, NFieldAssumption DEF TypeOK
  <2> QED BY <2>2, <2>3 DEF Join
<1>2. widest <= 2 /\ Cardinality(Touched) <= 2
  <2>1. widest' = IF Cardinality(Touched) > widest THEN Cardinality(Touched) ELSE widest
    BY DEF Join
  <2> QED BY <1>1, <2>1
<1>3. OneFlag /\ Apart /\ InOnePiece
  BY <1>2 DEF LinkInv
<1>4. /\ \A i \in 1..ngroup : ~fgroups[i].flag
      /\ \A i \in 1..ngroup : Raised(i) <=> i \in Touched
      /\ \A i \in 1..ngroup : i \in Touched <=> Overlapping(fgroups[i].field, {f1})
  BY <1>1, <1>3 DEF OneFlag, Raised, Touched, Overlapping
<1>5. PICK first \in 1..ngroup :
          /\ Raised(first) /\ \A i \in 1..first - 1 : ~Raised(i)
          /\ fgroups' = [i \in 1..ngroup |->
                 IF i = first
                 THEN [fgroups[i] EXCEPT !.field = @ \cup {f1}, !.flag = FALSE]
                 ELSE [fgroups[i] EXCEPT !.flag = Raised(i)]]
          /\ g2' = first /\ g' = first + 1
  BY DEF Join
<1>6. /\ first \in Touched /\ \A i \in 1..first - 1 : i \notin Touched
      /\ g2' = first /\ g' = first + 1 /\ first \in Nat
  <2>1. Raised(first) /\ (\A i \in 1..first - 1 : ~Raised(i)) /\ g2' = first /\ g' = first + 1
    BY <1>5, Zenon
  <2>2. first \in Nat /\ \A i \in 1..first - 1 : i \in 1..ngroup
    BY <1>1
  <2> QED BY <1>4, <2>1, <2>2
<1>7. \A i \in 1..ngroup :
          /\ fgroups'[i].field = IF i = first THEN fgroups[i].field \cup {f1}
                                 ELSE fgroups[i].field
          /\ fgroups'[i].flag = IF i = first THEN FALSE ELSE Raised(i)
  <2>1. \A i \in 1..ngroup : fgroups[i] \in Group
    BY DEF IInv, TypeOK
  <2> QED BY <1>5, <2>1 DEF Group
<1>8. ASSUME NEW i \in Touched, NEW j \in Touched, i # first, j # first PROVE i = j
  <2>1. IsFiniteSet(Touched)
    <3>1. Touched \subseteq 1..ngroup
      BY DEF Touched
    <3>2. IsFiniteSet(1..ngroup)
      BY <1>1, FS_Interval
    <3> QED BY <3>1, <3>2, FS_Subset
  <2> QED BY <1>2, <1>6, <1>8, <2>1, TwoAtMost
<1>9. OneFlag'
  <2>1. f1 \in fgroups'[first].field
    BY <1>7
  <2>2. ASSUME NEW i \in 1..ngroup, fgroups'[i].flag
        PROVE  i \in Touched /\ i # first /\ i >= first + 1 /\ Overlapping({f1}, fgroups'[i].field)
    <3>1. i \in Touched /\ i # first
      BY <1>4, <1>7, <2>2
    <3>2. i \notin 1..first - 1
      BY <1>6, <3>1
    <3>3. Overlapping({f1}, fgroups[i].field)
      BY <1>4, <3>1, OverlapSymmetric
    <3>4. i >= first + 1
      BY <1>1, <1>6, <3>1, <3>2
    <3>5. fgroups'[i].field = fgroups[i].field
      BY <1>7, <3>1
    <3> QED BY <3>1, <3>3, <3>4, <3>5
  <2> QED BY <1>1, <1>6, <1>8, <2>1, <2>2 DEF OneFlag, Overlapping
<1>10. Apart'
  <2> SUFFICES ASSUME NEW i \in 1..ngroup, NEW j \in 1..ngroup, i # j, ~ToFuse(i, j)'
               PROVE  ~Overlapping(fgroups'[i].field, fgroups'[j].field)
    BY <1>1, ApartNext
  <2>1. ~Overlapping(fgroups[i].field, fgroups[j].field)
    BY <1>1, <1>3 DEF Apart, ToFuse
  <2>2. CASE i # first /\ j # first
    BY <1>7, <2>1, <2>2
  <2>3. CASE i = first
    <3>1. j \notin Touched
      BY <1>1, <1>4, <1>6, <1>7, <2>3 DEF ToFuse
    <3>2. ~Overlapping({f1}, fgroups[j].field)
      BY <1>4, <3>1, OverlapSymmetric
    <3> QED BY <1>7, <2>1, <2>3, <3>2 DEF Overlapping
  <2>4. CASE j = first
    <3>1. i \notin Touched
      BY <1>1, <1>4, <1>6, <1>7, <2>4 DEF ToFuse
    <3>2. ~Overlapping(fgroups[i].field, {f1})
      BY <1>4, <3>1
    <3> QED BY <1>7, <2>1, <2>4, <3>2 DEF Overlapping
  <2> QED BY <2>2, <2>3, <2>4
<1>11. InOnePiece'
  <2>1. \A i \in 1..ngroup : Connected(fgroups[i].field)
    BY <1>3 DEF InOnePiece
  <2>2. Connected(fgroups[first].field \cup {f1})
    BY <1>4, <1>6, <2>1, SingleConnected, UnionConnected
  <2>3. \A i \in 1..ngroup : Connected(fgroups'[i].field)
    BY <1>7, <2>1, <2>2
  <2> QED BY <1>1, <2>3 DEF InOnePiece, Connected
<1> QED BY <1>9, <1>10, <1>11

\* The other group the newcomer touched becomes part of its group.
LEMMA FuseLink == ASSUME IInv, LinkInv, Fuse PROVE LinkInv'
<1> SUFFICES ASSUME widest <= 2 PROVE OneFlag' /\ Apart' /\ InOnePiece'
  BY DEF LinkInv, Fuse
<1>1. /\ g \in 1..ngroup /\ g2 \in 1..ngroup - 1 /\ g2 < g /\ g \in Nat /\ g2 \in Nat
      /\ ngroup \in Nat /\ ngroup' = ngroup - 1 /\ fgroups[g].flag
  BY NFieldAssumption DEF Fuse, IInv, TypeOK
<1>2. /\ f1' = f1 /\ pc = "fuse" /\ pc' = "fuse" /\ g' = g + 1
      /\ g2' = g2 /\ overlap' = overlap
  BY DEF Fuse
<1>3. OneFlag /\ Apart /\ InOnePiece
  BY DEF LinkInv
<1> DEFINE From(i) == IF i < g THEN i ELSE i + 1
<1>4. /\ \A i \in 1..ngroup' : From(i) \in 1..ngroup /\ From(i) # g
      /\ \A i, j \in 1..ngroup' : i # j => From(i) # From(j)
      /\ g2 \in 1..ngroup' /\ From(g2) = g2
  BY <1>1
<1>5. \A i \in 1..ngroup' :
          /\ fgroups'[i].field = IF From(i) = g2
                                 THEN fgroups[g2].field \cup fgroups[g].field
                                 ELSE fgroups[From(i)].field
          /\ fgroups'[i].flag = fgroups[From(i)].flag
  <2>1. ASSUME NEW i \in 1..ngroup'
        PROVE  fgroups'[i] = IF From(i) = g2
                             THEN [fgroups[g2] EXCEPT !.field = @ \cup fgroups[g].field]
                             ELSE fgroups[From(i)]
    <3>1. fgroups' = [k \in 1..ngroup - 1 |->
             IF k = g2 THEN [fgroups[k] EXCEPT !.field = @ \cup fgroups[g].field]
             ELSE IF k < g THEN fgroups[k] ELSE fgroups[k + 1]]
      BY DEF Fuse
    <3>2. From(i) = g2 <=> i = g2
      BY <1>1
    <3> QED BY <1>1, <3>1, <3>2
  <2>2. fgroups[g2] \in Group
    BY <1>1, <1>4 DEF IInv, TypeOK
  <2>3. /\ [fgroups[g2] EXCEPT !.field = @ \cup fgroups[g].field].flag = fgroups[g2].flag
        /\ [fgroups[g2] EXCEPT !.field = @ \cup fgroups[g].field].field
              = fgroups[g2].field \cup fgroups[g].field
    BY <2>2 DEF Group
  <2> HIDE DEF From
  <2> QED BY <2>1, <2>3
<1> HIDE DEF From
<1>6. \A i \in 1..ngroup : fgroups[i].flag => i = g
  BY <1>1, <1>2, <1>3 DEF OneFlag
<1>7. \A i \in 1..ngroup' : ~fgroups'[i].flag
  BY <1>4, <1>5, <1>6
<1>8. f1 \in fgroups[g2].field /\ Overlapping({f1}, fgroups[g].field)
  BY <1>1, <1>2, <1>3 DEF OneFlag
<1>9. OneFlag'
  <2>1. f1 \in fgroups'[g2].field
    BY <1>4, <1>5, <1>8
  <2> QED BY <1>2, <1>7, <2>1 DEF OneFlag
<1>10. Apart'
  <2> SUFFICES ASSUME NEW i \in 1..ngroup', NEW j \in 1..ngroup', i # j
               PROVE  ~Overlapping(fgroups'[i].field, fgroups'[j].field)
    BY <1>2 DEF Apart, Overlapping
  <2>1. ASSUME NEW k \in 1..ngroup, NEW l \in 1..ngroup, k # l,
               {k, l} # {g2, g}
        PROVE  ~Overlapping(fgroups[k].field, fgroups[l].field)
    BY <1>3, <1>6, <2>1 DEF Apart, ToFuse
  <2>2. From(i) \in 1..ngroup /\ From(j) \in 1..ngroup /\ From(i) # From(j)
        /\ From(i) # g /\ From(j) # g /\ g \in 1..ngroup
    BY <1>1, <1>4
  <2>3. ~Overlapping(fgroups[From(i)].field, fgroups[From(j)].field)
    BY <2>1, <2>2
  <2>4. CASE From(i) # g2 /\ From(j) # g2
    BY <1>5, <2>3, <2>4
  <2>5. CASE From(i) = g2
    <3>1. ~Overlapping(fgroups[g].field, fgroups[From(j)].field)
      BY <2>1, <2>2, <2>5
    <3> QED BY <1>5, <2>2, <2>3, <2>5, <3>1 DEF Overlapping
  <2>6. CASE From(j) = g2
    <3>1. ~Overlapping(fgroups[From(i)].field, fgroups[g].field)
      BY <2>1, <2>2, <2>6
    <3> QED BY <1>5, <2>2, <2>3, <2>6, <3>1 DEF Overlapping
  <2> QED BY <2>4, <2>5, <2>6
<1>11. InOnePiece'
  <2>1. \A i \in 1..ngroup : Connected(fgroups[i].field)
    BY <1>3 DEF InOnePiece
  <2>2. Overlapping(fgroups[g2].field, fgroups[g].field)
    BY <1>8 DEF Overlapping
  <2>3. Connected(fgroups[g2].field \cup fgroups[g].field)
    BY <1>1, <1>4, <2>1, <2>2, UnionConnected
  <2>4. \A i \in 1..ngroup' : Connected(fgroups'[i].field)
    BY <1>4, <1>5, <2>1, <2>3
  <2> QED BY <1>2, <2>4 DEF InOnePiece, Connected
<1> QED BY <1>9, <1>10, <1>11

LEMMA SamePieces ==
  ASSUME InOnePiece, UNCHANGED <<fgroups, ngroup, overlap>> PROVE InOnePiece'
<1>1. fgroups' = fgroups /\ ngroup' = ngroup /\ overlap' = overlap
  OBVIOUS
<1>2. \A i \in 1..ngroup' : Connected(fgroups'[i].field)
  BY <1>1, Zenon DEF InOnePiece
<1> QED BY <1>1, <1>2 DEF InOnePiece, Connected

\* Groups none of which is to be fused stay apart.
LEMMA SameApart ==
  ASSUME Apart, UNCHANGED <<fgroups, ngroup, overlap>>,
         \A i, j \in 1..ngroup : ToFuse(i, j) => ToFuse(i, j)'
  PROVE  Apart'
<1>1. fgroups' = fgroups /\ ngroup' = ngroup /\ overlap' = overlap
  OBVIOUS
<1> SUFFICES ASSUME NEW i \in 1..ngroup, NEW j \in 1..ngroup, i # j, ~ToFuse(i, j)'
             PROVE  ~Overlapping(fgroups'[i].field, fgroups'[j].field)
  BY <1>1, ApartNext
<1>2. ~ToFuse(i, j)
  OBVIOUS
<1> QED BY <1>1, <1>2 DEF Apart

\* When the loop has been through the groups, no flag is up.
LEMMA NextFieldLink == ASSUME IInv, LinkInv, NextField PROVE LinkInv'
<1> SUFFICES ASSUME widest <= 2 PROVE OneFlag' /\ Apart' /\ InOnePiece'
  BY DEF LinkInv, NextField
<1>1. /\ pc = "fuse" /\ pc' = "place" /\ g > ngroup /\ ngroup \in Nat /\ g \in Nat
      /\ fgroups' = fgroups /\ ngroup' = ngroup /\ overlap' = overlap
  BY DEF NextField, IInv, TypeOK
<1>2. OneFlag /\ Apart /\ InOnePiece
  BY DEF LinkInv
<1>3. \A i \in 1..ngroup : ~fgroups[i].flag
  BY <1>1, <1>2 DEF OneFlag
<1>4. OneFlag'
  BY <1>1, <1>3 DEF OneFlag
<1>5. Apart'
  <2>1. \A i, j \in 1..ngroup : ~ToFuse(i, j)
    BY <1>3 DEF ToFuse
  <2> QED BY <1>1, <1>2, <2>1, SameApart
<1>6. InOnePiece'
  BY <1>1, <1>2, SamePieces
<1> QED BY <1>4, <1>5, <1>6

\* A group whose flag is down is passed over.
LEMMA PassOverLink == ASSUME IInv, LinkInv, PassOver PROVE LinkInv'
<1> SUFFICES ASSUME widest <= 2 PROVE OneFlag' /\ Apart' /\ InOnePiece'
  BY DEF LinkInv, PassOver
<1>1. /\ pc = "fuse" /\ g \in Nat /\ ~fgroups[g].flag
      /\ g' = g + 1
      /\ UNCHANGED <<fgroups, ngroup, overlap, pc, f1, g2>>
  BY DEF PassOver, IInv, TypeOK
<1>2. OneFlag /\ Apart /\ InOnePiece
  BY DEF LinkInv
<1>3. \A i \in 1..ngroup : fgroups[i].flag => i >= g + 1
  <2>1. \A i \in 1..ngroup : fgroups[i].flag => i >= g /\ i # g /\ i \in Nat
    BY <1>1, <1>2 DEF OneFlag
  <2> QED BY <1>1, <2>1
<1>4. OneFlag'
  BY <1>1, <1>2, <1>3 DEF OneFlag, Overlapping
<1>5. Apart'
  BY <1>1, <1>2 DEF Apart, ToFuse, Overlapping
<1>6. InOnePiece'
  BY <1>1, <1>2, SamePieces
<1> QED BY <1>4, <1>5, <1>6

LEMMA FinishLink == ASSUME LinkInv, Finish PROVE LinkInv'
<1> SUFFICES ASSUME widest <= 2 PROVE OneFlag' /\ Apart' /\ InOnePiece'
  BY DEF LinkInv, Finish
<1>1. OneFlag /\ Apart /\ InOnePiece
  BY DEF LinkInv
<1>2. /\ pc = "place" /\ pc' = "done" /\ UNCHANGED <<fgroups, ngroup, overlap>>
  BY DEF Finish
<1>3. OneFlag'
  BY <1>1, <1>2 DEF OneFlag
<1>4. Apart'
  BY <1>1, <1>2, SameApart DEF ToFuse
<1> QED BY <1>1, <1>2, <1>3, <1>4, SamePieces

LEMMA NextLink == IInv /\ LinkInv /\ [Next]_vars => LinkInv'
<1> SUFFICES ASSUME IInv, LinkInv, [Next]_vars PROVE LinkInv'
  OBVIOUS
<1>1. CASE UNCHANGED vars
  <2> SUFFICES ASSUME widest <= 2 PROVE OneFlag' /\ Apart' /\ InOnePiece'
    BY <1>1 DEF vars, LinkInv
  <2>1. OneFlag /\ Apart /\ InOnePiece
    BY DEF LinkInv
  <2>2. UNCHANGED <<fgroups, ngroup, overlap, pc, f1, g, g2>>
    BY <1>1 DEF vars
  <2>3. OneFlag'
    BY <2>1, <2>2 DEF OneFlag, Overlapping
  <2>4. Apart'
    BY <2>1, <2>2, SameApart DEF ToFuse
  <2> QED BY <2>1, <2>2, <2>3, <2>4, SamePieces
<1> QED BY <1>1, NewGroupLink, JoinLink, FuseLink, PassOverLink, NextFieldLink, FinishLink
        DEF Next

LEMMA InitLink == Init => LinkInv
  BY DEF Init, LinkInv, OneFlag, Apart, InOnePiece

\* As long as no field links three groups or more, the groups are the connected
\* parts of the sky whenever a field is about to be placed: the loop of
\* group_fields that fuses groups misses none of two.
THEOREM GroupsPairsLinked == Spec => []PairsLinked
<1>1. LinkInv => PairsLinked
  <2> SUFFICES ASSUME LinkInv, pc = "place", widest <= 2 PROVE Components
    BY DEF PairsLinked
  <2>1. Apart /\ InOnePiece
    BY DEF LinkInv
  <2> QED BY <2>1 DEF Apart, ToFuse, Overlapping, InOnePiece, Connected, Components
<1> QED BY <1>1, InitIInv, NextIInv, InitLink, NextLink, PTL DEF Spec
============================================================================
