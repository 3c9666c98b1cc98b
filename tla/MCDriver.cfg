SPECIFICATION FairSpec
CONSTANTS
    Capabilities <- AllCaps
    Tools <- EchoTool
    Hop = 0
    MaxHops = 8
    Named = {}
    Effects <- Some
    MaxSteps = 3
    MaxModelCalls = 4
    MaxChildren = 2
    UserQuestions = TRUE
    MaxCrashes = 1
INVARIANTS OneDriverLog GivenIsSpent
PROPERTY RunsSettle
CHECK_DEADLOCK FALSE
