--------------------------- MODULE GoalConversion ---------------------------
(***************************************************************************)
(* The boundary between ROS and the core for one FollowJointTrajectory     *)
(* goal (myarm_m750_driver/trajectory_converter.py): the checks of the     *)
(* goal in their order, the reordering of every vector into the joint      *)
(* order of the model, and the tolerances the goal is watched with.        *)
(*                                                                         *)
(* Numbers are integers, exact where the code computes with floats;        *)
(* NonFinite stands for NaN and the infinities, Unbounded for the          *)
(* infinite tolerance.  A vector is a sequence.                            *)
(***************************************************************************)
EXTENDS JointVectors

CONSTANTS
    MaxPoints,            \* maximum_trajectory_points
    NowRos, OldHeaderTolerance,
    DefaultPathTolerance, DefaultGoalTolerance, DefaultGoalTimeTolerance,
    Unbounded

\* What the converter asks of its own parameters before it looks at a goal.
ASSUME ConverterAssumption ==
    /\ MaxPoints \in Nat \ {0}
    /\ OldHeaderTolerance \in Nat
    /\ DefaultPathTolerance \in Nat /\ DefaultGoalTolerance \in Nat
    /\ DefaultGoalTimeTolerance \in Nat
    /\ Unbounded \notin Int

Refused(code) == [ok |-> FALSE, code |-> code]

-----------------------------------------------------------------------------
(* Joint names and vectors                                                 *)

NamesMatch(names) ==
    /\ names # <<>>
    /\ IsInjective(names)
    /\ ToSet(names) = ToSet(JointNames)

IndexIn(names, name) == CHOOSE i \in DOMAIN names : names[i] = name

\* Mutant of ReorderIndices: where each name of the goal goes, not where each
\* canonical joint comes from.
ReorderIndicesInverse(names) ==
    [i \in DOMAIN names |-> IndexIn(JointNames, names[i])]

\* _compute_reorder_indices
ReorderIndices(names) ==
    [i \in DOMAIN JointNames |-> IndexIn(names, JointNames[i])]

\* _reorder
Reorder(vector, indices) == [i \in DOMAIN indices |-> vector[indices[i]]]

\* _validate_vector and _validate_optional_vector
VectorValid(vector) ==
    Len(vector) = Len(JointNames) /\ Finite(vector)
OptionalVectorValid(vector) == vector = <<>> \/ VectorValid(vector)

\* Mutant of PointsValid: two points may have the same time.
PointsValidEqualTimes(points) ==
    /\ points # <<>>
    /\ \A k \in DOMAIN points :
          /\ VectorValid(points[k].position)
          /\ OptionalVectorValid(points[k].velocity)
          /\ OptionalVectorValid(points[k].acceleration)
          /\ ~points[k].effort
          /\ points[k].time >= 0
          /\ k > 1 => points[k].time >= points[k - 1].time

\* The checks of _convert_points, all of which refuse with the same code.
PointsValid(points) ==
    /\ points # <<>>
    /\ \A k \in DOMAIN points :
          /\ VectorValid(points[k].position)
          /\ OptionalVectorValid(points[k].velocity)
          /\ OptionalVectorValid(points[k].acceleration)
          /\ ~points[k].effort
          /\ points[k].time >= 0
          /\ k > 1 => points[k].time > points[k - 1].time

\* The points of _convert_points; <<>> stands for None.
ConvertPoints(points, indices) ==
    LET Optional(vector) == IF vector = <<>> THEN <<>> ELSE Reorder(vector, indices) IN
    [k \in DOMAIN points |->
        [position     |-> Reorder(points[k].position, indices),
         velocity     |-> Optional(points[k].velocity),
         acceleration |-> Optional(points[k].acceleration),
         time         |-> points[k].time]]

-----------------------------------------------------------------------------
(* Start time and tolerances                                               *)

\* _resolve_start_time: the code the stamp is refused with, or "none".
StampError(stamp) ==
    CASE stamp = 0 -> "none"
      [] stamp < 0 -> "invalid_goal"
      [] stamp > 0 /\ stamp < NowRos - OldHeaderTolerance -> "old_header"
      [] OTHER -> "none"

\* The entries of _resolve_position_tolerances are checked in their order and
\* the first bad one decides the code.  derivative says that the entry gives a
\* velocity or an acceleration tolerance.
EntryError(entries, i) ==
    CASE entries[i].name \notin ToSet(JointNames) -> "invalid_joints"
      [] \/ \E k \in 1..(i - 1) : entries[k].name = entries[i].name
         \/ entries[i].derivative
         \/ entries[i].position = NonFinite
         \/ entries[i].position < -1 -> "invalid_goal"
      [] OTHER -> "none"

ToleranceError(entries) ==
    LET bad == {i \in DOMAIN entries : EntryError(entries, i) # "none"} IN
    IF bad = {} THEN "none" ELSE EntryError(entries, Min(bad))

\* _resolve_one_tolerance: zero is the default, -1 erases.
ResolveOne(value, default) ==
    CASE value = 0 -> default [] value = -1 -> Unbounded [] OTHER -> value

\* Mutant of ResolveTolerances: the entries are taken in the goal's order.
ResolveTolerancesByPosition(entries, default) ==
    [i \in DOMAIN JointNames |->
        IF i \in DOMAIN entries THEN ResolveOne(entries[i].position, default)
                                ELSE default]

\* _resolve_position_tolerances of entries that pass.
ResolveTolerances(entries, default) ==
    [i \in DOMAIN JointNames |->
        LET named == {k \in DOMAIN entries : entries[k].name = JointNames[i]} IN
        IF named = {} THEN default
        ELSE ResolveOne(entries[CHOOSE k \in named : TRUE].position, default)]

\* The checks that follow those of the points, the first failure first.
LaterError(goal) ==
    LET errors == <<StampError(goal.stamp), ToleranceError(goal.path),
                    ToleranceError(goal.final),
                    IF goal.extra < 0 THEN "invalid_goal" ELSE "none">>
        bad == {i \in 1..4 : errors[i] # "none"} IN
    IF bad = {} THEN "none" ELSE errors[Min(bad)]

GoalError(goal) ==
    IF Len(goal.points) > MaxPoints THEN "invalid_goal"
    ELSE IF ~NamesMatch(goal.names) THEN "invalid_joints"
    ELSE IF ~PointsValid(goal.points) THEN "invalid_goal"
    ELSE LaterError(goal)

\* convert_follow_joint_trajectory_goal
ConvertGoal(goal) ==
    IF GoalError(goal) # "none" THEN Refused(GoalError(goal))
    ELSE [ok     |-> TRUE,
          points |-> ConvertPoints(goal.points, ReorderIndices(goal.names)),
          start  |-> goal.stamp,      \* 0 stands for None
          path   |-> ResolveTolerances(goal.path, DefaultPathTolerance),
          final  |-> ResolveTolerances(goal.final, DefaultGoalTolerance),
          extra  |-> IF goal.extra = 0 THEN DefaultGoalTimeTolerance ELSE goal.extra]

-----------------------------------------------------------------------------
(* Watching a goal                                                         *)

\* violated_joint_names
ViolatedJoints(actual, desired, tolerance) ==
    {JointNames[i] : i \in {k \in DOMAIN JointNames :
        tolerance[k] # Unbounded /\ Abs(actual[k] - desired[k]) > tolerance[k]}}
=============================================================================
