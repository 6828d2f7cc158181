CONSTANTS
    Attempts = {a1}
    Dispatches = {d1, d2}
    MaxControl = 3
    MaxFaults = 2
    MaxRestarts = 1
    None = None
SPECIFICATION FairSpec
INVARIANTS
    TypeOK
    StartIsDriven
    TurnsAreAccounted
    PredecessorStopsFirst
PROPERTIES
    OneTurnPerGeneration
    StartsSettle
CHECK_DEADLOCK FALSE
