CONSTANTS
    MaxGeneration = 2
SPECIFICATION FairSpec
INVARIANT TypeOK
INVARIANT Exclusive
INVARIANT UpdateHoldsMachine
INVARIANT DisabledAxisRests
PROPERTY AxisChangeApplied
PROPERTY BootDecides
