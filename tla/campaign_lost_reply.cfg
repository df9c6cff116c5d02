SPECIFICATION SetupSpec
CONSTANTS
    Key = {0, 1, 2}
    Last = 2
    Mail = {m}
    Replayed = {}
    Worker = {srv, cli}
    Cli = {cli}
    MaxFaults = 1
INVARIANTS
    ReplyStopsFollowUps
CHECK_DEADLOCK FALSE
