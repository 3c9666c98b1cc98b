SPECIFICATION FairSpec
CONSTANTS
    Runs = {r1, r2}
    Principals = {p1}
    OwnerOf <- OneOwner
    Pruners = {q1}
    MaxLog = 2
    MaxBatch = 2
    MaxTime = 1
    Clients = {c1}
    Watchable = {p1, r1}
    FromStart = {}
    Tasks = {s1, s2}
    Page = 1
    MaxStreams = 1
    Announced <- Always
    MaxDrops = 1
INVARIANT NoStreamSleepsOnNews
PROPERTIES ClientsAreFed EveryClientCatchesUp
CHECK_DEADLOCK FALSE
