SPECIFICATION FairSpec
CONSTANTS
    Timeout = 3
    MaxEintr = 2
    MaxCalls = 2
    MaxSegments = 2
    MaxSignals = 4
INVARIANTS
    TypeOK
    ResourcesOwned
    SuccessMeansAnswered
    SilenceBounded
PROPERTIES
    ExchangeAdvances
    ExchangeReturns
CHECK_DEADLOCK FALSE
