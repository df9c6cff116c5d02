SPECIFICATION SetupSpec
CONSTANTS
    Row <- MCRow
    Profile = {"p", "q"}
    Workspace = {"w1", "w2"}
    ProfileOf <- MCProfileOf
    WorkspaceOf <- MCWorkspaceOf
    Worker = {"u", "v"}
    Limit = 1
    MaxAttempt = 1
    MaxSlots = 3
    MaxFaults = 0
    Setups <- MCSweep
INVARIANTS
    OnlyProofFrees
CHECK_DEADLOCK FALSE
