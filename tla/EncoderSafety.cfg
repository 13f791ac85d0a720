SPECIFICATION FairSpec
CONSTANTS
    Clients = {a, b}
    Resolutions = {D1, HD}
    Rates = {slow, fast}
    Absent = Absent
    MaxCalls = 2
    MaxTotal = 2
    MaxEdits = 1
INVARIANTS
    TypeOK
    InStep
    SuccessMeansApplied
    RequestsAreAuthentic
PROPERTIES
    SetKeepsTheRest
    CallsReturn
