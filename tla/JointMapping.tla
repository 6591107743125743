---------------------------- MODULE JointMapping ----------------------------
(***************************************************************************)
(* JointMapper (adapters/joint_mapping.py): canonical joint coordinates to *)
(* firmware coordinates and back, with a direction and an offset for each  *)
(* joint.  One unit stands for radians and degrees alike.                  *)
(***************************************************************************)
EXTENDS Integers

CONSTANTS Axes, Direction, Offset

\* What the constructor checks.
ASSUME MapperAssumption ==
    /\ Direction \in [Axes -> {-1, 1}]
    /\ Offset \in [Axes -> Int]

CoreToFirmware(position) ==
    [j \in Axes |-> Direction[j] * position[j] + Offset[j]]

\* Mutant of FirmwareToCore: the offset is taken off after the direction.
OffsetAfterDirection(angles) == [j \in Axes |-> Direction[j] * angles[j] - Offset[j]]

\* Dividing by a direction is multiplying by it.
FirmwareToCore(angles) == [j \in Axes |-> Direction[j] * (angles[j] - Offset[j])]
=============================================================================
