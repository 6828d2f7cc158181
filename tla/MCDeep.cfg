SPECIFICATION Spec
CONSTANTS
    lead = lead
    alpha = alpha
    beta = beta
    gamma = gamma
    None = None
    Members <- DeepMembers
    Root = lead
    Parent <- DeepParent
    ChildBudget = 1
    RetryBudget = 1
    MaxWaveMembers = 2
    ReplacementLimit = 0
    MaxControl = 3
    MaxFaults = 1
INVARIANTS
    WaveMatchesChildren
    FinishedTaskIsQuiet
    OneOpenAssignmentPerMember
    BudgetsAccountForWork
PROPERTIES
    ImplementsFanOutFanIn
CHECK_DEADLOCK FALSE
