---------------------------- MODULE MCDriverNode ----------------------------
(* Instances of DriverNode for TLC.                                        *)
EXTENDS DriverNode, TLC

AnyGoal == Permutations(Goals)
=============================================================================
