SPECIFICATION SetupSpec
CONSTANTS
    Trigger = {n1}
    Run = {r1, r2}
    Batch = {b1}
    PerRun = 1
    Estimate <- MCEstimate
    Ceiling = 3
    RowCost = 2
    MaxRows = 2
    MaxFaults = 2
    OldestRun = 1
INVARIANTS
    OverlapHasReason
    GrantsWithinCeiling
PROPERTIES
    DueTriggersRun
CHECK_DEADLOCK FALSE
