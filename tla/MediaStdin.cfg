SPECIFICATION FairSpec
CONSTANTS
    Devices = {cam1, cam2}
    Empty = Empty
    Junk = Junk
    Null = Null
    MaxProfiles = 2
    MaxRuns = 1
PROPERTY CallbackReturns
