SPECIFICATION TickSpec
CONSTANTS
    Row <- MCRow
    Profile = {"p", "q"}
    Workspace = {"w1", "w2"}
    ProfileOf <- MCProfileOf
    WorkspaceOf <- MCWorkspaceOf
    Worker = {"u", "v"}
    Limit = 1
    MaxAttempt = 1
    MaxSlots = 3
    MaxFaults = 1
    Setups <- MCSetups
    Mail = {1, 2, 3, 4}
    Received <- MCReceived
    OptOut = {2}
    Stored = {3}
    Poller = {"server", "cli"}
    Cli = {"cli"}
    PageSize = 2
    MaxPages = 2
    Overlap = 1
INVARIANTS
    OutIsClaimed
    OneInvitation
    SlotHolds
    NoReplyLost
PROPERTIES
    PendingResolved
    RepliesCount
CHECK_DEADLOCK FALSE
