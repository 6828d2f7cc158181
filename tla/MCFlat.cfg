SPECIFICATION Spec
CONSTANTS
    lead = lead
    alpha = alpha
    beta = beta
    gamma = gamma
    None = None
    Members <- FlatMembers
    Root = lead
    Parent <- FlatParent
    ChildBudget = 2
    RetryBudget = 0
    MaxWaveMembers = 2
    ReplacementLimit = 1
    MaxControl = 3
    MaxFaults = 1
INVARIANTS
    TypeOK
    LiveDispatchIsCurrent
    LaneHasOneOwner
    OneSuccessorPerSource
    StartupFindsEveryLane
    WatchdogStaysInBudget
PROPERTIES
    HistoryIsImmutable
    StoppedTaskOpensNothing
CHECK_DEADLOCK FALSE
