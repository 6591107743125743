CONSTANTS
    Threads = {t1, t2}
    NoThread = NoThread
    Waypoints = 2
    CallBudget <- ReconnectBudget
SPECIFICATION Spec
PROPERTIES
    StopCancelsAdmitted
