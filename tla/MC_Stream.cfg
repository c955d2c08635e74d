CONSTANTS
    UsbLines = 2
    Ids = 2
    LineLen = 3
    RingSize = 3
    QueueSize = 2
    MaxEpoch = 2
SPECIFICATION Spec
INVARIANT TypeOK
INVARIANT WholeOrHeadless
INVARIANT OwnedStreamIsClean
INVARIANT ErrorAcknowledged
INVARIANT NothingDiscardedRuns
PROPERTY StatusOfOwnLine
