CONSTANTS
    Threads = {t1, t2}
    NoThread = NoThread
    MaxCalls = 5
    MaxRetries = 1
    RetryDelay = 2
    OpTime = 2
    Timeout = 2
    Declarations = {"supported", "unverified"}
SPECIFICATION Spec
SYMMETRY ThreadSymmetry
INVARIANTS LockHeldBriefly LateIsFailure PortKept ClaimsHonest StatusIdentityCurrent LockReleased
