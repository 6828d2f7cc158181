CONSTANTS
    Attempts = {a1}
    Requests = {}
    Runs = {r1}
    Timed = {r1}
    MaxControl = 1
    MaxFaults = 0
    MaxRestarts = 0
    None = None
SPECIFICATION FairSpec
CHECK_DEADLOCK FALSE
PROPERTY CancelledRunEnds
