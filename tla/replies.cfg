SPECIFICATION MCSpec
CONSTANTS
    a = a
    Window = {a, b}
    Channel = {"gmail", "smtp", "linkedin"}
    MaxSends = 2
INVARIANTS
    FailedIsExplained
    SentIsOut
PROPERTIES
    SeenBeforeNext
    RecordedSendsSettle
CHECK_DEADLOCK FALSE
