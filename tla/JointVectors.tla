---------------------------- MODULE JointVectors ----------------------------
(* The joints of the model and the vectors over them, a sequence for each. *)
EXTENDS Integers, Sequences, FiniteSets, SequencesExt, FiniteSetsExt

CONSTANTS
    JointNames,           \* in the order of the model
    NonFinite             \* NaN and the infinities

ASSUME NamesAssumption ==
    JointNames \in Seq(STRING) /\ JointNames # <<>> /\ IsInjective(JointNames)

ASSUME NonFiniteAssumption == NonFinite \notin Int

Joints == DOMAIN JointNames
Numbers == Int \cup {NonFinite}
Abs(x) == IF x < 0 THEN -x ELSE x
Finite(vector) == NonFinite \notin ToSet(vector)
=============================================================================
