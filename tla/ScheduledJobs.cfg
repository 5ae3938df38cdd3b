SPECIFICATION FairSpec
CONSTANTS
    JobIds = {hourly, broken}
    Hopeless = {broken}
    Clients = {c1, c2}
    Every = 2
    MaxRetries = 1
    MaxOps = 2
    MaxFaults = 2
INVARIANTS
    TypeOK
    JobsKept
PROPERTIES
    SpacedStarts
    JobsServed
CHECK_DEADLOCK FALSE
