SPECIFICATION FairSpec
CONSTANTS
    Goals = {g1, g2}
    NoGoal = NoGoal
    MaxCalls = 3
INVARIANTS
    
    ReportsAreTrue
    GoneIsQuiet
PROPERTIES
    GoalsEnd
    ShutdownEnds
    
