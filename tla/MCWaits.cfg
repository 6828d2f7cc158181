CONSTANTS
    Attempts = {a1}
    Requests = {q1}
    Runs = {r1}
    Timed = {q1, r1}
    MaxControl = 3
    MaxFaults = 1
    MaxRestarts = 1
    None = None
SPECIFICATION FairSpec
INVARIANTS
    TypeOK
    WaitsAreExact
    StartupFindsEverySource
    ProcessesAreOwned
    EndingIsTruthful
PROPERTIES
    EndIsFinal
    WaitsEnd
    CancelledProcessStops
CHECK_DEADLOCK FALSE
