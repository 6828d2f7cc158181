SPECIFICATION FairSpec
CONSTANTS
    Members <- FiveMembers
    Parent <- FiveParent
    Spare <- NoSpare
    Root = "lead"
    None = None
    MaxDepth = 4
    MaxWidth = 3
    MaxMembers = 5
    MaxReplans = 2
    MaxWaves = 1
    MaxControl = 2
    MaxFaults = 1
INVARIANTS
    TypeOK
    RevisionsFormALine
    BarrierRows
    ReplannedLaneOwnsOneTransition
PROPERTIES
    SuccessorWaitsForManifest
    StartupFindsEveryReplan
    LatestReplanIsContinued
CHECK_DEADLOCK FALSE
