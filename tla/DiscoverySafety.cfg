SPECIFICATION FairSpec
CONSTANTS
    Devices = {d1}
    MaxMatches = 2
    QueueCap = 2
    MaxArrivals = 4
INVARIANTS
    TypeOK
    ResourcesFollowSearch
    CountedIsTold
    HandledInOrder
PROPERTIES
    Promise
    SearchAdvances
    Terminates
    AnswersAreHandled
