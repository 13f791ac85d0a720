SPECIFICATION Spec
CONSTANTS
    Letters = {x}
    Slash = slash
    Colon = colon
    At = at
    Nul = nul
    Wrap = 10
    MaxUri = 4
    MaxName = 1
    MaxSize = 9
INVARIANTS
    StaysInBuffer
    TextIsWholeOrEmpty
