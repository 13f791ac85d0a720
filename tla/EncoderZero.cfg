SPECIFICATION Spec
CONSTANTS
    Clients = {a}
    Resolutions = {D1, HD}
    Rates = {slow}
    Absent = Absent
    MaxCalls = 1
    MaxTotal = 1
    MaxEdits = 0
INVARIANT ZeroMeansSet
