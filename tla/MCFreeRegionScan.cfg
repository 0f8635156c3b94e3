CONSTANTS
    Align = 3
    Reserved = 1
    GiB = 3
    MinRoot = 3
    MaxParts = 3
    MaxStart = 8
    MaxLen = 4
    Totals = {4, 8, 13}
    Tables <- MCTables
SPECIFICATION Spec
INVARIANTS
    RegionsUsable
    RegionsPairwiseDisjoint
    NoFreeAlignedRunMissed
    ScanComputesFreeRegions
CHECK_DEADLOCK FALSE
