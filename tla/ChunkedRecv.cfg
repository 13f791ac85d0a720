SPECIFICATION FairSpec
CONSTANTS
    Base = 2
    MaxDigits = 3
    Lf = Lf
    Other = Other
    BufLen = 3
    DataBytes = {1, Lf}
    MaxChunks = 2
    MaxPayload = 4
INVARIANTS TypeOK PayloadDelivered
PROPERTIES Segmentation ReadingAdvances ReadingEnds
