SPECIFICATION FairSpec
CONSTANTS
    Members <- FiveMembers
    Parent <- FiveParent
    Spare <- NoSpare
    Root = "lead"
    None = None
    MaxDepth = 4
    MaxWidth = 3
    MaxMembers = 5
    MaxReplans = 2
    MaxWaves = 1
    MaxControl = 0
    MaxFaults = 0
PROPERTIES
    ReplanIsContinued
CHECK_DEADLOCK FALSE
