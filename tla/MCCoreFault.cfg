SPECIFICATION Spec
CONSTANTS
    Goals = {g1}
    NoGoal = NoGoal
    MaxCalls = 3
INVARIANTS
    CoreFaultIsDriverFault
