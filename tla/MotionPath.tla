----------------------------- MODULE MotionPath -----------------------------
(***************************************************************************)
(* The way of one motion from its request to the firmware.  A ROS goal is  *)
(* converted (GoalConversion); a point-to-point move is generated from the *)
(* measured state (RobotController.move_joints); a caller of the session   *)
(* hands in a core trajectory of its own.  Each is a core trajectory that  *)
(* is validated against the measured state (TrajectorySafety) and sent     *)
(* point by point through the joint mapping.  A goal is watched on its way *)
(* and ends with a result: after each waypoint the measured joints are     *)
(* compared with that waypoint, and at last with the last one.  A goal     *)
(* that is canceled or whose command fails ends in GoalService.            *)
(* Every module of this chain is a function; this one puts them in their   *)
(* order and says what the chain promises from end to end.                 *)
(***************************************************************************)
EXTENDS GoalConversion, TrajectorySafety, JointMapping

CONSTANTS
    Requests,        \* [kind |-> "goal", ...], [kind |-> "move", target, profile]
                     \* or [kind |-> "core", names, points]
    MeasuredStates, Ages,
    Readings         \* what may be measured while a goal runs

\* A goal has sequences of names, points and tolerances, and every value of a
\* message is a number; a target and what the caller of the session hands in went
\* through the constructors of the core, and so did the measured state.
ASSUME RequestsAssumption ==
    \A r \in Requests :
        /\ r.kind \in {"goal", "move", "core"}
        /\ r.kind = "goal" =>
             /\ r.names \in Seq(STRING) /\ r.points \in Seq(ToSet(r.points))
             /\ \A k \in DOMAIN r.points :
                   r.points[k].time \in Int /\ r.points[k].position \in Seq(Numbers)
             /\ \A entries \in {r.path, r.final} :
                   entries \in Seq([name : STRING, position : Numbers, derivative : BOOLEAN])
        /\ r.kind = "move" =>
             /\ r.target \in [Joints -> Int]
             /\ r.profile \in [duration : Nat \ {0}, velocity : Numbers, acceleration : Numbers]
        /\ r.kind = "core" =>
             /\ r.points \in Seq(ToSet(r.points)) /\ TrajectoryConstructible(r.points)
             /\ \A k \in DOMAIN r.points : r.points[k].position \in [Joints -> Numbers]

ASSUME StatesAssumption ==
    MeasuredStates \subseteq [Joints -> Int] /\ Readings \subseteq [Joints -> Int]

\* The builder makes the mapper and the limits for the joints of the model.
ASSUME AxesAssumption == Axes = Joints

VARIABLES
    stage,           \* "new", "planned", "refused", "raised" or "admitted"
    request, measured, age,
    accepted,        \* what convert_follow_joint_trajectory_goal returned
    points,          \* of the core trajectory
    verdict,         \* of the validator
    next,            \* the waypoint to be sent
    firmware,        \* the angles last written; <<>> before the first
    readings,        \* of a goal: measured after each waypoint, and once settled
    violation,       \* _path_violation of the coordinator
    result           \* of a goal: "none", "path_violated", "goal_violated" or "succeeded"

asked == <<request, measured, age>>
planning == <<stage, accepted, points, verdict>>
sending == <<next, firmware>>
watching == <<readings, violation, result>>
vars == <<asked, planning, sending, watching>>

NoVerdict == [types |-> {}, samples |-> 0]

Init ==
    /\ stage = "new"
    /\ request \in Requests
    /\ measured \in MeasuredStates
    /\ request.kind = "move" => WholeCubic(measured, request.target, request.profile)
    /\ age \in Ages
    /\ accepted = Refused("none")
    /\ points = <<>>
    /\ verdict = NoVerdict
    /\ next = 1
    /\ firmware = <<>>
    /\ readings = <<>> /\ violation = {} /\ result = "none"

\* goal_callback; a goal that is refused never reaches the core.
Convert ==
    /\ stage = "new" /\ request.kind = "goal"
    /\ accepted' = ConvertGoal(request)
    /\ IF accepted'.ok THEN stage' = "planned" /\ points' = accepted'.points
                       ELSE stage' = "refused" /\ UNCHANGED points
    /\ UNCHANGED <<asked, verdict, sending, watching>>

\* move_joints: a profile the cubic exceeds raises.
Plan ==
    /\ stage = "new" /\ request.kind = "move"
    /\ IF ProfileAllows(measured, request.target, request.profile)
         THEN /\ stage' = "planned"
              /\ points' = Generate(measured, request.target, request.profile)
         ELSE stage' = "raised" /\ UNCHANGED points
    /\ UNCHANGED <<asked, accepted, verdict, sending, watching>>

\* execute_trajectory of a trajectory its caller constructed.
Take ==
    /\ stage = "new" /\ request.kind = "core"
    /\ points' = request.points
    /\ stage' = IF request.names = JointNames THEN "planned" ELSE "refused"
    /\ UNCHANGED <<asked, accepted, verdict, sending, watching>>

\* The core trajectory is constructed, which may raise, and validated.
Admit ==
    /\ stage = "planned"
    /\ verdict' = IF TrajectoryConstructible(points)
                    THEN Validate(JointNames, points, measured, age) ELSE verdict
    /\ stage' = IF ~TrajectoryConstructible(points) THEN "raised"
                ELSE IF verdict'.types = {} THEN "admitted" ELSE "refused"
    /\ UNCHANGED <<asked, accepted, points, sending, watching>>

\* A waypoint is written in firmware coordinates, after the progress of the one
\* before it was reported.
Send ==
    /\ stage = "admitted" /\ result = "none" /\ next <= Len(points)
    /\ request.kind = "goal" => Len(readings) = next - 1
    /\ firmware' = CoreToFirmware(points[next].position)
    /\ next' = next + 1
    /\ UNCHANGED <<asked, planning, watching>>

Watched == stage = "admitted" /\ request.kind = "goal" /\ result = "none"

\* _progress_callback: the joints measured after a waypoint are compared with that
\* waypoint; a violation stays until another one replaces it.
Watch ==
    /\ Watched /\ Len(readings) < next - 1
    /\ \E actual \in Readings :
          LET off == ViolatedJoints(actual, points[next - 1].position, accepted.path) IN
          /\ readings' = Append(readings, actual)
          /\ violation' = IF off = {} THEN violation ELSE off
    /\ UNCHANGED <<asked, planning, sending, result>>

\* A violation cancels the command, which may have sent more waypoints by then;
\* execute_callback then looks at it before anything else.
EndOffPath ==
    /\ Watched /\ violation # {}
    /\ result' = "path_violated"
    /\ UNCHANGED <<asked, planning, sending, readings, violation>>

\* _wait_for_goal_tolerance; the readings before the last one leave no trace.
Settle ==
    /\ Watched /\ violation = {} /\ Len(readings) = Len(points)
    /\ \E actual \in Readings :
          /\ readings' = Append(readings, actual)
          /\ result' = IF ViolatedJoints(actual, points[Len(points)].position,
                                         accepted.final) = {}
                         THEN "succeeded" ELSE "goal_violated"
    /\ UNCHANGED <<asked, planning, sending, violation>>

Next == Convert \/ Plan \/ Take \/ Admit \/ Send \/ Watch \/ EndOffPath \/ Settle

Spec == Init /\ [][Next]_vars

-----------------------------------------------------------------------------
(* Properties                                                              *)

\* Every number of an accepted goal stands in the core trajectory under the
\* joint name the goal gave it, in whatever order the goal lists the joints.
ConversionKeepsNames ==
    stage \notin {"new"} /\ accepted.ok =>
        \A k \in DOMAIN request.points, i \in DOMAIN request.names, j \in DOMAIN JointNames :
            request.names[i] = JointNames[j] =>
                /\ accepted.points[k].position[j] = request.points[k].position[i]
                /\ request.points[k].velocity # <<>> =>
                     accepted.points[k].velocity[j] = request.points[k].velocity[i]
                /\ request.points[k].acceleration # <<>> =>
                     accepted.points[k].acceleration[j] = request.points[k].acceleration[i]

\* A goal the driver accepted never fails in the constructors of the core: what
\* the converter lets pass, JointTrajectory takes.
AcceptedIsConstructible == stage = "raised" => request.kind = "move"

\* Along an admitted trajectory, beginning at the measured state, the arm leaves
\* the workspace for no stretch longer than the resample step: whatever stretch of
\* the way between two waypoints is longer, from a fortieth of it to another, has
\* a place inside.  And no joint leaves its limits at any waypoint.
Fine == 40
NoLongExcursion ==
    stage = "admitted" =>
        \A k \in DOMAIN points :
            LET from == PositionAt(points, measured, k - 1)
                to == points[k].position
                longest == Largest(Difference(to, from)) IN
            /\ \A j \in Joints : to[j] \in (Lower[j] + LimitMargin)..(Upper[j] - LimitMargin)
            /\ \A a, b \in 0..Fine :
                  a < b /\ longest * (b - a) > ResampleStep * Fine =>
                    \E d \in 1..longest : \E i \in 0..d :
                        /\ a * d <= i * Fine /\ i * Fine <= b * d
                        /\ ~Outside(Along(from, to, i, d), d)

\* A generated motion whose profile asks for no more than the policy allows is
\* never refused for its velocities, its accelerations or its times, sampled and
\* derived as the validator derives them.
GeneratedIsSmooth ==
    request.kind = "move" /\ stage = "refused" =>
        \/ request.profile.velocity = NonFinite
        \/ request.profile.acceleration = NonFinite
        \/ \E j \in Joints : \/ request.profile.velocity > MaxVelocity[j]
                             \/ request.profile.acceleration > MaxAcceleration[j]
        \/ verdict.types \cap {"joint_velocity", "joint_acceleration",
                               "non_finite_value", "trajectory_time"} = {}

\* The joints a reading has further from a waypoint of the request, in the numbers
\* of the request, than the tolerance the request gives for that joint by name.
Strays(actual, k, entries, default) ==
    {j \in Joints :
        LET given == {entries[i].position : i \in
                        {n \in DOMAIN entries : entries[n].name = JointNames[j]}}
            tolerance == IF given \subseteq {0} THEN default ELSE CHOOSE v \in given : TRUE IN
        /\ tolerance # -1
        /\ \E i \in DOMAIN request.names :
              /\ request.names[i] = JointNames[j]
              /\ Abs(actual[j] - request.points[k].position[i]) > tolerance}

\* A goal ends as off its path exactly when some joint was, at some waypoint,
\* further from it than the goal's own path tolerance for that joint, however
\* small the later deviations; otherwise the last reading and the goal's own goal
\* tolerances decide.  What is reported as off its path was off it.
WatchedByName ==
    result # "none" =>
        LET last == Len(request.points)
            strayed == UNION {Strays(readings[k], k, request.path, DefaultPathTolerance) :
                                k \in {n \in 1..last : n <= Len(readings)}} IN
        /\ result = "path_violated" <=> strayed # {}
        /\ violation \subseteq {JointNames[j] : j \in strayed}
        /\ result # "path_violated" =>
             /\ Len(readings) = last + 1
             /\ result = "succeeded" <=>
                  Strays(readings[last + 1], last, request.final, DefaultGoalTolerance) = {}

\* A waypoint that was written and is read back unmoved is the waypoint.
FirmwareRoundTrip ==
    next > 1 => FirmwareToCore(firmware) = points[next - 1].position

\* What IMPLEMENTATION_NOTES.md:30 says of the validator: a trajectory costs at
\* most the budget of kinematics samples, or is rejected before the first.
SamplesWithinBudget == verdict.samples <= MaxSamples
=============================================================================
