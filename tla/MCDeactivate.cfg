SPECIFICATION Spec
CONSTANTS
    Goals = {g1}
    NoGoal = NoGoal
    MaxCalls = 4
INVARIANTS
    DeactivateCancels
