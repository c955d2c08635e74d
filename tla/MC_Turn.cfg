CONSTANTS
    Operation = "turn"
    Passes = 3
    Starts = 1
    CutSteps = 2
    Segments = 1
    PlannerSize = 2
SPECIFICATION Spec
INVARIANT CutComplete
INVARIANT CutSupervised
PROPERTY KeepsContract
