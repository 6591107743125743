CONSTANTS
    Gates = {"ros", "moveit"}
    QueueDepth = 2
    MaxDiagnostics = 5
    MaxInterrupts = 2
    MaxDeaths = 1
SPECIFICATION FairSpec
INVARIANTS Reaped PassIsEarned
PROPERTIES GateEnds
