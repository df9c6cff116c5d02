SPECIFICATION FairSpec
CONSTANTS
    a = a
    Window = {a}
    Channel = {"gmail"}
    MaxSends = 1
PROPERTIES
    ClaimedSendsSettle
CHECK_DEADLOCK FALSE
