CONSTANTS
    Slide = 2
    Step = 1
    StopsAt = {1}
    MaxLines = 2
    MaxResets = 1
SPECIFICATION Spec
INVARIANT HoldStopsOnRelease
CHECK_DEADLOCK FALSE
