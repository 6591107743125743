CONSTANTS
    Threads = {t1, t2}
    NoThread = NoThread
    Waypoints = 2
    CallBudget <- ReconnectBudget
SPECIFICATION FairSpec
INVARIANTS SessionAgrees
PROPERTIES FailureLatches KeepsPromise EveryCallReturns
