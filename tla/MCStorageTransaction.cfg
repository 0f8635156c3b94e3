CONSTANTS
    Align = 2
    Reserved = 1
    GiB = 2
    MinRoot = 4
    NtfsSlack = 1
    WholeEspStart = 2
    WholeEspSize = 2
    MaxNum = 6
    MaxRuns = 2
    MaxEnv = 1
    Disks <- MCDisks
SPECIFICATION Spec
INVARIANTS
    TypeOK
    PartitionsSurvive
    FsInsidePartition
    TableAlwaysSound
    BackupIsOriginal
    OnlyConfirmedDisk
    InstalledLayout
    AcceptedUnlessChanged
CHECK_DEADLOCK FALSE
