CONSTANTS
    Slide = 1
    Step = 1
    StopsAt = {1}
    MaxLines = 2
    MaxResets = 1
SPECIFICATION Spec
INVARIANT TypeOK
INVARIANT HoldNeedsFinger
INVARIANT EditStops
PROPERTY StartsInside
CHECK_DEADLOCK FALSE
