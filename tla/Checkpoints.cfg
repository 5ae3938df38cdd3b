SPECIFICATION Spec
CONSTANTS
    Runs = {a, b}
    Daemons = {b}
    Keep = 2
    MaxRev = 3
    MaxLives = 3
    MaxGcs = 1
    MaxFaults = 1
    MaxSec = 2
    MaxFrac = 1
INVARIANTS
    NewestStay
    LatestIsFresh
PROPERTIES
    OrphansOnly
CHECK_DEADLOCK FALSE
