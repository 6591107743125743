CONSTANTS
    Threads = {t1, t2, t3}
    NoThread = NoThread
    Waypoints = 2
    CallBudget <- CommandBudget
SPECIFICATION Spec
SYMMETRY ThreadSymmetry
INVARIANTS
    TypeOK
    ExecutingHasOwner
    SuccessIsUninterrupted
    CanceledMeansStopped
    OneStopPerCommand
PROPERTIES
    NoWriteAfterStop
    WritesAreExclusive
