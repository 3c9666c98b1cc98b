\* The asked task ends as the ask's deadline passes.
CONSTANTS
    r1 = r1  r2 = r2  p1 = p1  p2 = p2
    Runs = {r1}
    Workers = {w1}
    NoLease = NoLease
    NoRun = NoRun
    Producers = {p1}
    ProducedRun <- SameRun
    Children = {}
    Forgettable = {}
    Couriers = {d1, d2}
    Answerable = {}
    MaxTries = 1
    Stoppable = {}
    MaxDecisions = 1
    MaxDeliveries = 1
    Reloads = 1
    MaxFaults = 0
    MaxExpiries = 0
    AskKinds = {"MessageSent"}
    Poison = {}
    Unloadable = {}
SPECIFICATION Spec
INVARIANT AnswerOnlyWhileOpen
CHECK_DEADLOCK FALSE
