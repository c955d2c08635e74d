CONSTANTS
    Operation = "thread"
    Passes = 2
    Starts = 2
    CutSteps = 3
    Segments = 1
    PlannerSize = 2
SPECIFICATION Spec
INVARIANT TypeOK
INVARIANT RapidsAreClear
INVARIANT InfeedsAtApproach
INVARIANT EntryWaitsClear
INVARIANT CutComplete
INVARIANT NoOwnAlarm
PROPERTY StopIsFinal
PROPERTY EndsForAReason
PROPERTY KeepsContract
