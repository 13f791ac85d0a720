SPECIFICATION FairSpec
CONSTANTS
    Timeout = 2
    MaxEintr = 1
    MaxCalls = 1
    MaxSegments = 1
    MaxSignals = 3
INVARIANT ConnectBounded
CHECK_DEADLOCK FALSE
