SPECIFICATION BothSpec
CONSTANTS
    Key = {0, 1, 2}
    Last = 2
    Mail = {m}
    Replayed = {}
    Worker = {srv, cli}
    Cli = {cli}
    MaxFaults = 1
    MaxProposals = 2
    Process = {"server", "cli"}
    Decider = {"server"}
    Saver = {"cli"}
    Text = {"a", "b", "c"}
    First = "a"
    MaxDeaths = 1
INVARIANTS
    StepsInOrder
    EndIsFinal
    StopIsFinal
    WrittenIsOnRecord
PROPERTIES
    SentStepIsPassed
    DecisionReplacesItsOwn
CHECK_DEADLOCK FALSE
