CONSTANTS
    Operation = "ellipse"
    Passes = 1
    Starts = 1
    CutSteps = 1
    Segments = 2
    PlannerSize = 2
SPECIFICATION Spec
INVARIANT CutSupervised
