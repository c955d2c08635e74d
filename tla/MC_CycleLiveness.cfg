CONSTANTS
    Operation = "thread"
    Passes = 1
    Starts = 1
    CutSteps = 2
    Segments = 1
    PlannerSize = 2
SPECIFICATION MCSpec
PROPERTY StopEnds
PROPERTY ForwardCompletes
