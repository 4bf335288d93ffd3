----------------------------- MODULE Exposures -----------------------------
(***************************************************************************)
(* What the pools of the astrometric pipeline work on: groups of fields    *)
(* (fgroupstruct, one per region of the sky), fields (one per exposure)    *)
(* and sets (one per detector of the exposure), and the instrument label   *)
(* that label_field has given to each field.                               *)
(***************************************************************************)
EXTENDS Integers, Sequences, SequencesExt

CONSTANTS Shape,   \* Shape[g+1][f+1]: number of sets of field f of group g
          Label    \* Label[<<g, f>>]: field->astromlabel

ASSUME ShapeAssumption ==
    Shape \in Seq(Seq(Nat \ {0})) /\ \A g \in DOMAIN Shape : Shape[g] # <<>>

NGroup == Len(Shape)
NFieldOf(g) == Len(Shape[g + 1])
NSetOf(g, f) == Shape[g + 1][f + 1]

Fields == UNION {{<<g, f>> : f \in 0..NFieldOf(g) - 1} : g \in 0..NGroup - 1}
SetsOf(fd) == {<<fd[1], fd[2], s>> : s \in 0..NSetOf(fd[1], fd[2]) - 1}
Sets == UNION {SetsOf(fd) : fd \in Fields}
FieldOf(s) == <<s[1], s[2]>>

Labels == {Label[fd] : fd \in Fields}

\* label_field counts the labels from 0 and gives one label to fields with
\* the same number of sets only.
ASSUME LabelAssumption ==
    /\ Labels = 0..Cardinality(Labels) - 1
    /\ \A fd, fd2 \in Fields : Label[fd] = Label[fd2] =>
           NSetOf(fd[1], fd[2]) = NSetOf(fd2[1], fd2[2])

\* The loops over groups, fields and sets run in this order.
FieldSeq == FlattenSeq([g \in 1..NGroup |->
                [f \in 1..NFieldOf(g - 1) |-> <<g - 1, f - 1>>]])
SetSeq(fd) == [s \in 1..NSetOf(fd[1], fd[2]) |-> <<fd[1], fd[2], s - 1>>]
===========================================================================
