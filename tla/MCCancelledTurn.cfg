CONSTANTS
    Attempts = {a1}
    Dispatches = {d1, d2}
    MaxControl = 2
    MaxFaults = 0
    MaxRestarts = 0
    None = None
SPECIFICATION FairSpec
CHECK_DEADLOCK FALSE
PROPERTY CancelStopsEveryTurn
