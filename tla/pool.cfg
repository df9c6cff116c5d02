SPECIFICATION SetupSpec
CONSTANTS
    e1 = e1
    e2 = e2
    e3 = e3
    e4 = e4
    p1 = p1
    p2 = p2
    p3 = p3
    i1 = i1
    i2 = i2
    i3 = i3
    shared = shared
    open = open
    Nobody = Nobody
    Email = {e1, e2, e3, e4}
    Person = {p1, p2, p3}
    To <- MCTo
    Worker = {w1, w2}
    Identity = {i1, i2, i3}
    Group = {shared, open}
    GroupOf <- MCGroupOf
    DailyCap <- MCCapOne
    Uncapped = {i3}
    Legacy = {p3}
    LegacyIdentity = i2
    MaxDay = 1
    MaxPicks = 3
    Crashes = TRUE
    Patient = FALSE
    Pools <- MCPools
    QuietSetup = TRUE
    Workspace = {ours, theirs}
    Address = {a1, a2}
    SharedPerson = {sp}
    MaxTouches = 3
    Unlinked = Unlinked
INVARIANTS
    OneSenderPerPerson
    CapKept
    OutIsCounted
PROPERTIES
    FirstTouchIsAlone
CHECK_DEADLOCK FALSE
SYMMETRY Symmetry
