CONSTANTS
    Cameras = {k1, k2}
    NoCamera = NoCamera
    Consumers = {}
    MaximumAttempts = 1
    FrameLimit = 1
    SpawnMayFail = TRUE
SPECIFICATION Spec
SYMMETRY CameraSymmetry
INVARIANTS ClosedIsReleased
PROPERTIES CloseReleases
