\* One schedule, a scheduler that may fail at any call and the sweep that settles what it leaves.
CONSTANTS
    Schedules = {t1}
    Hooks = {}
    Events = {}
    Requests = {q1}
    TickTimes = {1, 3}
    MaxNow = 2
    MaxGen = 1
    MaxRotation = 0
    MaxTriggers = 2
    Skew = 0
    MaxFaults = 1
    Schedulers = {s1}
    Deliveries = {}
    Sweeps = {v1}
    MissedAfter = 0
    SkipsMissed = {t1}
    Runs <- FiredRuns
    Workers = {w1}
    NoLease = NoLease
    MaxDecisions = 1
SPECIFICATION FairSpec
INVARIANTS  StopHolds
PROPERTY FiresSettle
CHECK_DEADLOCK FALSE
