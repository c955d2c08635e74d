CONSTANTS
    Turn = 3
    ZMax = 3
    MaxCount = 4
    Forward = {TRUE}
    Speeds = {20, 32, 40}
    MaxInputs = 3
SPECIFICATION Spec
INVARIANT TypeOK
INVARIANT PhaseKept
INVARIANT NewestParameters
INVARIANT StopTakesHold
PROPERTY StartsInGear
CHECK_DEADLOCK FALSE
