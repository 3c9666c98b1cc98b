SPECIFICATION FairSpec
CONSTANTS
    Runs <- Some
    NoRun = "none"
    Parent <- SomeParent
    ThreadOf <- SomeThread
    Source <- SomeSource
    Scopes <- SomeScopes
    Requests = {q1}
    MaxResumes = 1
    MaxFaults = 1
INVARIANTS StopsAreExact AnsweredStopsHold
PROPERTY CoveredRunsEnd
CHECK_DEADLOCK FALSE
