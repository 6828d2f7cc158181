SPECIFICATION FairSpec
CONSTANTS
    lead = lead
    alpha = alpha
    beta = beta
    gamma = gamma
    None = None
    Members <- TreeMembers
    Root = lead
    Parent <- TreeParent
    ChildBudget = 2
    RetryBudget = 0
    MaxWaveMembers = 2
    ReplacementLimit = 0
    MaxControl = 2
    MaxFaults = 0
INVARIANTS
    GreenTaskCoversTeam
PROPERTIES
    ReturnedWaveContinues
    SettledWaveContinues
CHECK_DEADLOCK FALSE
