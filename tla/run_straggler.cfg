SPECIFICATION Spec
CONSTANTS
    Targets = 3
    Manual = {3}
    Crew = {w1, w2}
INVARIANTS
    SentLeavesPool
CHECK_DEADLOCK FALSE
