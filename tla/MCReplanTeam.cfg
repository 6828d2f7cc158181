SPECIFICATION Spec
CONSTANTS
    Members <- ThreeMembers
    Parent <- ThreeParent
    Spare <- OneSpare
    Root = "lead"
    None = None
    MaxDepth = 4
    MaxWidth = 3
    MaxMembers = 5
    MaxReplans = 2
    MaxWaves = 4
    MaxControl = 0
    MaxFaults = 0
INVARIANTS
    LiveBranchIsCurrent
    ParticipationIsExact
    CompletedTeamReturnedGreen
CHECK_DEADLOCK FALSE
