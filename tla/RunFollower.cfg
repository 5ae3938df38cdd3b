SPECIFICATION FairSpec
CONSTANTS
    Window = 4
    LogMax = 6
    ChanSize = 1
    MaxFailures = 1
    MaxReports = 4
    MaxFollows = 2
    MaxFaults = 2
INVARIANTS
    TypeOK
    CountedExactly
PROPERTIES
    FollowEnds
CHECK_DEADLOCK FALSE
