CONSTANTS
    windows = windows
    data = data
    None = None
    Partitions <- MCPartitions
    CanDelete <- MCCanDelete
    CanFormat <- MCCanFormat
    CanShrink <- MCCanShrink
    CanExtend <- MCCanExtend
    CanInstall <- MCCanInstall
    RestartSeconds = 3
    MaxRequests = 3
SPECIFICATION Spec
INVARIANTS
    TypeOK
    TargetShownAndReady
    PlanGoesWithBackend
    FormsStayFit
PROPERTIES
    SuccessIsReal
    BusyEnds
    RestartHappens
CHECK_DEADLOCK FALSE
