\* One run, two workers, a stop and a user's answer: a failure anywhere, and a
\* lease lost under a live worker.
CONSTANTS
    r1 = r1  r2 = r2  p1 = p1  p2 = p2
    Runs = {r1}
    Workers = {w1, w2}
    NoLease = NoLease
    NoRun = NoRun
    Producers = {p1}
    ProducedRun <- SameRun
    Children = {}
    Forgettable = {r1}
    Couriers = {d1}
    Answerable = {r1}
    MaxTries = 1
    Stoppable = {r1}
    MaxDecisions = 1
    MaxDeliveries = 2
    Reloads = 1
    MaxFaults = 1
    MaxExpiries = 1
    AskKinds = {}
    Poison = {}
    Unloadable = {}
SPECIFICATION Spec
INVARIANTS TypeOK RunsAreTracked LogWellFormed
PROPERTY LogsOnlyGrow
CHECK_DEADLOCK FALSE
SYMMETRY Alike
