---------------------------- MODULE FieldGroups ----------------------------
(***************************************************************************)
(* fgroup.c: group_fields puts the fields that overlap on the sky,         *)
(* directly or through others, into groups.                                *)
(*                                                                         *)
(* Fields come one by one.  Every group with a field that overlaps the     *)
(* newcomer is flagged; the newcomer goes into the first flagged group,    *)
(* and the other flagged groups are to be fused with it.  The order of     *)
(* fields in a group only serves to stop the search for overlaps early,    *)
(* and is left out: a group holds a set of fields.                         *)
(***************************************************************************)
EXTENDS Naturals, FiniteSets

CONSTANT NField   \* number of fields

ASSUME NFieldAssumption == NField \in Nat \ {0}

Fields == 1..NField

VARIABLES overlap,   \* the pairs of fields that have overlapping sets
          fgroups,   \* the groups: identity, fields, flag
          ngroup,    \* their number
          fgroup,    \* the group each field points to, 0 for none
          f1,        \* the field being placed
          pc,        \* "place", "fuse" or "done"
          g, g2,     \* cursor of the fusion loop, group the newcomer went to
          made,      \* number of groups allocated
          widest     \* history: most groups a newcomer has linked

vars == <<overlap, fgroups, ngroup, fgroup, f1, pc, g, g2, made, widest>>

Pairs == {{a, b} : a \in Fields, b \in Fields} \ {{a} : a \in Fields}

Group == [id : 1..NField, field : SUBSET Fields, flag : BOOLEAN]

\* The loops stay within the fields and groups that exist: there are never
\* more groups than the nfield entries allocated for them.
TypeOK == /\ overlap \subseteq Pairs
          /\ fgroups \in [1..ngroup -> Group]
          /\ ngroup \in 0..made /\ made \in 0..NField
          /\ fgroup \in [Fields -> 0..made]
          /\ f1 \in 1..NField + 1
          /\ pc \in {"place", "fuse", "done"}
          /\ g \in 0..NField + 1 /\ g2 \in 0..NField
          /\ widest \in 0..NField

Init == /\ overlap \in SUBSET Pairs
        /\ fgroups = <<>> /\ ngroup = 0
        /\ fgroup = [f \in Fields |-> 0]
        /\ f1 = 1 /\ pc = "place"
        /\ g = 0 /\ g2 = 0 /\ made = 0 /\ widest = 0

\* The groups the newcomer overlaps.  A group whose flag is up already is not
\* looked at.
Touched == {i \in 1..ngroup :
                ~fgroups[i].flag /\ \E f \in fgroups[i].field : {f, f1} \in overlap}

Raised(i) == fgroups[i].flag \/ i \in Touched

\* Defect: one field too many is placed.
NewGroupTooMany ==
    /\ pc = "place" /\ f1 <= NField + 1 /\ Touched = {}
    /\ fgroups' = [i \in 1..ngroup + 1 |->
           IF i <= ngroup THEN fgroups[i]
           ELSE [id |-> made + 1, field |-> {f1}, flag |-> FALSE]]
    /\ ngroup' = ngroup + 1
    /\ fgroup' = [fgroup EXCEPT ![f1] = made + 1]
    /\ made' = made + 1
    /\ f1' = f1 + 1
    /\ UNCHANGED <<overlap, pc, g, g2, widest>>

\* "field too far: Create a new group"
NewGroup ==
    /\ pc = "place" /\ f1 <= NField /\ Touched = {}
    /\ fgroups' = [i \in 1..ngroup + 1 |->
           IF i <= ngroup THEN fgroups[i]
           ELSE [id |-> made + 1, field |-> {f1}, flag |-> FALSE]]
    /\ ngroup' = ngroup + 1
    /\ fgroup' = [fgroup EXCEPT ![f1] = made + 1]
    /\ made' = made + 1
    /\ f1' = f1 + 1
    /\ UNCHANGED <<overlap, pc, g, g2, widest>>

\* "Add to an existing group", the first whose flag is up.
Join ==
    /\ pc = "place" /\ f1 <= NField /\ Touched # {}
    /\ \E first \in 1..ngroup :
          /\ Raised(first) /\ \A i \in 1..first - 1 : ~Raised(i)
          /\ fgroups' = [i \in 1..ngroup |->
                 IF i = first
                 THEN [fgroups[i] EXCEPT !.field = @ \cup {f1}, !.flag = FALSE]
                 ELSE [fgroups[i] EXCEPT !.flag = Raised(i)]]
          /\ fgroup' = [fgroup EXCEPT ![f1] = fgroups[first].id]
          /\ g2' = first /\ g' = first + 1
    /\ pc' = "fuse"
    /\ widest' = IF Cardinality(Touched) > widest THEN Cardinality(Touched) ELSE widest
    /\ UNCHANGED <<overlap, ngroup, f1, made>>

\* Defect: the fields that change groups still point to the group they left.
FuseDangling ==
    /\ pc = "fuse" /\ g <= ngroup /\ fgroups[g].flag
    /\ fgroups' = [i \in 1..ngroup - 1 |->
           IF i = g2 THEN [fgroups[i] EXCEPT !.field = @ \cup fgroups[g].field]
           ELSE IF i < g THEN fgroups[i] ELSE fgroups[i + 1]]
    /\ ngroup' = ngroup - 1
    /\ g' = g + 1
    /\ UNCHANGED <<overlap, fgroup, f1, pc, g2, made, widest>>

\* "Fusion this group with the first one": its fields move over, it is freed,
\* the groups after it move up by one -- and the loop goes on with the next
\* index.
Fuse ==
    /\ pc = "fuse" /\ g <= ngroup /\ fgroups[g].flag
    /\ fgroups' = [i \in 1..ngroup - 1 |->
           IF i = g2 THEN [fgroups[i] EXCEPT !.field = @ \cup fgroups[g].field]
           ELSE IF i < g THEN fgroups[i] ELSE fgroups[i + 1]]
    /\ ngroup' = ngroup - 1
    /\ fgroup' = [f \in Fields |-> IF f \in fgroups[g].field THEN fgroups[g2].id
                                   ELSE fgroup[f]]
    /\ g' = g + 1
    /\ UNCHANGED <<overlap, f1, pc, g2, made, widest>>

\* Defect: the loop stops at the first group that is not to be fused.
PassOverEarly ==
    /\ pc = "fuse" /\ g <= ngroup /\ ~fgroups[g].flag
    /\ g' = ngroup + 1
    /\ UNCHANGED <<overlap, fgroups, ngroup, fgroup, f1, pc, g2, made, widest>>

PassOver ==
    /\ pc = "fuse" /\ g <= ngroup /\ ~fgroups[g].flag
    /\ g' = g + 1
    /\ UNCHANGED <<overlap, fgroups, ngroup, fgroup, f1, pc, g2, made, widest>>

NextField ==
    /\ pc = "fuse" /\ g > ngroup
    /\ pc' = "place" /\ f1' = f1 + 1
    /\ UNCHANGED <<overlap, fgroups, ngroup, fgroup, g, g2, made, widest>>

\* The groups are numbered and located.
Finish ==
    /\ pc = "place" /\ f1 > NField
    /\ pc' = "done"
    /\ UNCHANGED <<overlap, fgroups, ngroup, fgroup, f1, g, g2, made, widest>>

Next == NewGroup \/ Join \/ Fuse \/ PassOver \/ NextField \/ Finish

Spec == Init /\ [][Next]_vars

---------------------------------------------------------------------------
(* Properties *)

Placed == {f \in Fields : f < f1 \/ (f = f1 /\ pc = "fuse")}

\* However the groups are fused, every field placed is in one group, and
\* points to it: a field in no group drops out of the solution, one in two is
\* counted twice, one that points to a freed group crashes the program.
Partition ==
    /\ \A f \in Fields : f \in Placed <=> \E i \in 1..ngroup : f \in fgroups[i].field
    /\ \A i, j \in 1..ngroup :
          i # j => fgroups[i].field \cap fgroups[j].field = {}
    /\ \A i \in 1..ngroup :
          /\ fgroups[i].field # {}
          /\ \A f \in fgroups[i].field : fgroup[f] = fgroups[i].id

\* Fields of different groups do not overlap, and a group does not fall into
\* parts that do not overlap.
Components ==
    /\ \A i, j \in 1..ngroup : i # j =>
          \A a \in fgroups[i].field, b \in fgroups[j].field : {a, b} \notin overlap
    /\ \A i \in 1..ngroup :
          \A part \in (SUBSET fgroups[i].field) \ {{}, fgroups[i].field} :
             \E a \in part, b \in fgroups[i].field \ part : {a, b} \in overlap

\* As long as no newcomer links more than two groups, the groups are the
\* connected parts of the sky after every field.
PairsLinked == pc = "place" /\ widest <= 2 => Components

\* "Group fields that are likely to overlap" (fgroup.c:56), "Check that the
\* newcomer doesn't link groups together" (fgroup.c:134): in the end fields
\* are in the same group exactly if overlaps link them.
Grouped == pc = "done" => Components
============================================================================
