CONSTANTS
    Cameras = {k1}
    NoCamera = NoCamera
    Consumers = {c1, c2}
    MaximumAttempts = 1
    FrameLimit = 3
    SpawnMayFail = TRUE
SPECIFICATION FairSpec
INVARIANTS
    FramesAccounted
    NoLostWakeup
    DeadIsSettled
PROPERTIES
    StoppedWorkerEnds
