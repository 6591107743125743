-------------------------- MODULE TrajectorySafety --------------------------
(***************************************************************************)
(* What the core does with a trajectory before the first hardware write:   *)
(* the constructors of JointTrajectoryPoint and JointTrajectory            *)
(* (domain/models.py), the validator (domain/safety) and the generator of  *)
(* point-to-point motions (runtime/trajectory.py).                         *)
(*                                                                         *)
(* Quotients are kept as <<numerator, denominator>>; NonFinite stands for  *)
(* NaN, which the comparisons of the code let pass.  The violations are    *)
(* the set of their types.                                                 *)
(***************************************************************************)
EXTENDS JointVectors

CONSTANTS
    MaxTrajectoryPoints, MaxSamples, ResampleStep,   \* SafetyPolicy
    StateTimeout, MaxStep, MaxVelocity, MaxAcceleration,
    Lower, Upper, LimitMargin, SingularityEnabled,   \* limits are per joint
    Outside(_, _), Singular(_, _)    \* external: kinematics of <<numerators, denominator>>

ASSUME PolicyAssumption ==
    /\ MaxTrajectoryPoints \in Nat \ {0} /\ MaxSamples \in Nat \ {0}
    /\ ResampleStep \in Nat \ {0}
    /\ Lower \in [Joints -> Int] /\ Upper \in [Joints -> Int] /\ LimitMargin \in Nat
    /\ MaxVelocity \in [Joints -> Nat] /\ MaxAcceleration \in [Joints -> Nat]

\* A point as the constructors take it, and a trajectory of such points.
PointConstructible(point) ==
    /\ Len(point.position) = Len(JointNames)
    /\ point.time >= 0
    /\ point.velocity = <<>> \/ Len(point.velocity) = Len(JointNames)
    /\ point.acceleration = <<>> \/ Len(point.acceleration) = Len(JointNames)

TrajectoryConstructible(points) ==
    /\ points # <<>>
    /\ \A k \in DOMAIN points :
          /\ PointConstructible(points[k])
          /\ k > 1 => points[k].time > points[k - 1].time

-----------------------------------------------------------------------------
(* Derivatives                                                             *)

Difference(to, from) ==
    [j \in Joints |-> IF NonFinite \in {to[j], from[j]} THEN NonFinite ELSE to[j] - from[j]]

Still == [j \in Joints |-> <<0, 1>>]
Undefined == [j \in Joints |-> <<NonFinite, 1>>]
FiniteRatio(r) == r[1] # NonFinite

\* _validate_velocity: the velocity of a step.
DerivedVelocity(delta, dt) ==
    IF dt > 0 THEN [j \in Joints |-> <<delta[j], dt>>]
    ELSE IF \A j \in Joints : delta[j] = 0 THEN Still ELSE Undefined

\* _validate_acceleration: the change of the velocity over a step.
DerivedAcceleration(velocity, previous, dt) ==
    LET both(j) == FiniteRatio(velocity[j]) /\ FiniteRatio(previous[j])
        change(j) == velocity[j][1] * previous[j][2] - previous[j][1] * velocity[j][2] IN
    IF dt > 0
      THEN [j \in Joints |->
              IF both(j) THEN <<change(j), velocity[j][2] * previous[j][2] * dt>>
                         ELSE <<NonFinite, 1>>]
      ELSE IF \A j \in Joints : both(j) /\ change(j) = 0 THEN Still ELSE Undefined

AsRatios(vector) == [j \in Joints |-> <<vector[j], 1>>]

\* _validate_derivative
DerivativeViolations(ratios, limit, type) ==
    UNION {CASE ~FiniteRatio(ratios[j]) -> {"non_finite_value", type}
             [] FiniteRatio(ratios[j]) /\ Abs(ratios[j][1]) > limit[j] * ratios[j][2] -> {type}
             [] OTHER -> {} : j \in Joints}

-----------------------------------------------------------------------------
(* Positions and the workspace                                             *)

\* _validate_position
PositionViolations(position, delta) ==
    UNION {(IF position[j] # NonFinite
               /\ ~(position[j] \in (Lower[j] + LimitMargin)..(Upper[j] - LimitMargin))
              THEN {"joint_limit"} ELSE {})
           \cup
           (IF delta[j] # NonFinite /\ Abs(delta[j]) > MaxStep
              THEN {"joint_step"} ELSE {}) : j \in Joints}

Largest(delta) == Max({Abs(delta[j]) : j \in Joints})
Ceiling(a, b) == (a + b - 1) \div b

\* Mutant of SampleCount: rounded down.
SampleCountDown(delta) == Max({1, Largest(delta) \div ResampleStep})

SampleCount(delta) == Max({1, Ceiling(Largest(delta), ResampleStep)})

\* The numerators of the position i / n of the way between two others.
Along(from, to, i, n) == [j \in Joints |-> n * from[j] + i * (to[j] - from[j])]

SampleViolations(sample, n) ==
    CASE Outside(sample, n) -> {"workspace"}
      [] ~Outside(sample, n) /\ SingularityEnabled /\ Singular(sample, n) -> {"singularity"}
      [] OTHER -> {}

\* _validate_workspace_segment
SegmentViolations(from, to) ==
    LET n == SampleCount(Difference(to, from)) IN
    UNION {SampleViolations(Along(from, to, i, n), n) : i \in 1..n}

\* _workspace_sample_count: "none" once a position is not finite, "over" once the
\* budget is exceeded, else the samples so far.
Estimate(current, points) ==
    LET Count(acc, point) ==
          LET delta == Difference(point.position, acc.previous)
              ratioExceeds ==
                  Largest(delta) > (MaxSamples - acc.total) * ResampleStep
              total == acc.total + SampleCount(delta) IN
          IF acc.status # "counting" THEN acc
          ELSE IF ~Finite(point.position) THEN [acc EXCEPT !.status = "none"]
          ELSE IF ratioExceeds \/ total > MaxSamples THEN [acc EXCEPT !.status = "over"]
          ELSE [acc EXCEPT !.total = total, !.previous = point.position]
    IN FoldLeft(Count, [status |-> "counting", total |-> 0, previous |-> current], points).status

-----------------------------------------------------------------------------
(* TrajectoryValidator.validate                                            *)

\* Point k of the loop, the measured state in front of the first.  It is finite,
\* and the times increase: the constructors see to both.
PositionAt(points, current, k) == IF k = 0 THEN current ELSE points[k].position
TimeAt(points, k) == IF k = 0 THEN 0 ELSE points[k].time

Delta(points, current, k) ==
    Difference(PositionAt(points, current, k), PositionAt(points, current, k - 1))
Interval(points, k) == TimeAt(points, k) - TimeAt(points, k - 1)
VelocityAt(points, current, k) ==
    IF k = 0 THEN Still ELSE DerivedVelocity(Delta(points, current, k), Interval(points, k))
AccelerationAt(points, current, k) ==
    DerivedAcceleration(VelocityAt(points, current, k), VelocityAt(points, current, k - 1),
                        Interval(points, k))

\* The way to point k is resampled when both its ends are finite.
Resampled(points, current, k) ==
    Finite(PositionAt(points, current, k - 1)) /\ Finite(PositionAt(points, current, k))

\* One turn of the loop over the points.
PointViolations(points, current, k) ==
    LET point == points[k] IN
    UNION {IF Finite(point.position) THEN {} ELSE {"non_finite_value"},
           PositionViolations(point.position, Delta(points, current, k)),
           IF point.velocity = <<>> THEN {}
             ELSE DerivativeViolations(AsRatios(point.velocity), MaxVelocity, "joint_velocity"),
           DerivativeViolations(VelocityAt(points, current, k), MaxVelocity, "joint_velocity"),
           IF point.acceleration = <<>> THEN {}
             ELSE DerivativeViolations(AsRatios(point.acceleration), MaxAcceleration,
                                       "joint_acceleration"),
           DerivativeViolations(AccelerationAt(points, current, k), MaxAcceleration,
                                "joint_acceleration"),
           IF Resampled(points, current, k)
             THEN SegmentViolations(PositionAt(points, current, k - 1), point.position) ELSE {}}

\* The kinematics samples the loop takes.
SamplesTaken(points, current) ==
    MapThenSumSet(LAMBDA k : SampleCount(Delta(points, current, k)),
                  {k \in DOMAIN points : Resampled(points, current, k)})

\* The types of the violations, and the kinematics samples spent to find them.
Validate(names, points, current, age) ==
    LET stale == IF age > StateTimeout THEN {"stale_state"} ELSE {} IN
    CASE names # JointNames -> [types |-> stale \cup {"trajectory_time"}, samples |-> 0]
      [] names = JointNames /\ Len(points) > MaxTrajectoryPoints
           -> [types |-> stale \cup {"trajectory_budget"}, samples |-> 0]
      [] names = JointNames /\ Len(points) <= MaxTrajectoryPoints
           /\ Estimate(current, points) = "over"
           -> [types |-> stale \cup {"trajectory_budget"}, samples |-> 0]
      [] OTHER -> [types   |-> stale \cup UNION {PointViolations(points, current, k) :
                                                    k \in DOMAIN points},
                   samples |-> SamplesTaken(points, current)]

-----------------------------------------------------------------------------
(* PointToPointTrajectoryGenerator.generate                                *)

\* Time is counted in periods of the command rate, so that a duration d has d
\* intervals; the cubic is one of whole numbers when the displacement is a
\* multiple of d^3.
\* profile: [duration, velocity, acceleration], NonFinite for a limit not given.
WholeCubic(start, target, profile) ==
    LET d == profile.duration IN
    \A j \in Joints : Difference(target, start)[j] % (d * d * d) = 0

ProfileAllows(start, target, profile) ==
    LET d == profile.duration
        largest == Largest(Difference(target, start)) IN
    /\ profile.velocity # NonFinite => 3 * largest <= 2 * d * profile.velocity
    /\ profile.acceleration # NonFinite => 6 * largest <= d * d * profile.acceleration

\* Mutant of Generate: the last sample is left to the caller.
GenerateShort(start, target, profile) ==
    LET d == profile.duration
        unit == [j \in Joints |-> Difference(target, start)[j] \div (d * d * d)]
        Times(n) == [j \in Joints |-> unit[j] * n] IN
    [i \in 1..d |->
        [position     |-> [j \in Joints |-> start[j] + Times(3 * d * i * i - 2 * i * i * i)[j]],
         velocity     |-> Times(6 * i * (d - i)),
         acceleration |-> Times(6 * d - 12 * i),
         time         |-> i - 1]]

Generate(start, target, profile) ==
    LET d == profile.duration
        unit == [j \in Joints |-> Difference(target, start)[j] \div (d * d * d)]
        Times(n) == [j \in Joints |-> unit[j] * n] IN
    [k \in 1..(d + 1) |->
        LET i == k - 1 IN
        [position     |-> [j \in Joints |-> start[j] + Times(3 * d * i * i - 2 * i * i * i)[j]],
         velocity     |-> Times(6 * i * (d - i)),
         acceleration |-> Times(6 * d - 12 * i),
         time         |-> i]]
=============================================================================
