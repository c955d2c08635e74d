CONSTANTS
    Operation = "ellipse"
    Passes = 2
    Starts = 1
    CutSteps = 1
    Segments = 2
    PlannerSize = 2
SPECIFICATION Spec
INVARIANT InfeedsAtApproach
INVARIANT CutComplete
