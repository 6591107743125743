CONSTANTS
    JointNames <- Names
    MaxPoints = 4
    NowRos = 6
    OldHeaderTolerance = 2
    DefaultPathTolerance = 3
    DefaultGoalTolerance = 1
    DefaultGoalTimeTolerance = 2
    NonFinite = NonFinite
    Unbounded = Unbounded
    MaxTrajectoryPoints = 3
    MaxSamples = 4
    ResampleStep = 2
    StateTimeout = 1
    MaxStep = 6
    MaxVelocity <- MaxV
    MaxAcceleration <- MaxA
    Lower <- Low
    Upper <- High
    LimitMargin = 1
    SingularityEnabled = TRUE
    Outside <- InObstacle
    Singular <- AtElbow
    Axes <- ThreeAxes
    Direction <- Signs
    Offset <- Shift
    Requests <- AllRequests
    MeasuredStates <- States
    Ages = {0, 2}
    Readings <- Seen
SPECIFICATION Spec
INVARIANT SamplesWithinBudget
CHECK_DEADLOCK FALSE
