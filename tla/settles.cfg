SPECIFICATION SetupSpec
CONSTANTS
    MaxKeys = 2
    MaxEdits = 1
    MaxFaults = 1
    Targets = 4
    Manual = {3}
    Crew = {w1, w2}
INVARIANTS
    OrderIsOnRecord
    DroppedNotOrdered
    ListIsComplete
PROPERTIES
    CancelReaches
    CancelledSendsNoMore
    RunEnds
    PaidIsRecorded
    UncertainSettles
    SubmittedSettles
CHECK_DEADLOCK FALSE
