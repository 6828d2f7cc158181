SPECIFICATION FairSpec
CONSTANTS
    lead = lead
    alpha = alpha
    beta = beta
    gamma = gamma
    None = None
    Members <- FlatMembers
    Root = lead
    Parent <- FlatParent
    ChildBudget = 2
    RetryBudget = 0
    MaxWaveMembers = 2
    ReplacementLimit = 0
    MaxControl = 2
    MaxFaults = 0
PROPERTIES
    PauseOnlyDelaysJoin
CHECK_DEADLOCK FALSE
