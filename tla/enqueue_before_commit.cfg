SPECIFICATION Spec
CONSTANTS
    t1 = t1
    t2 = t2
    t3 = t3
    r1 = r1
    r2 = r2
    Tasks = {t1, t2}
    Runs = {r1}
    RunOf <- OneRun
    MaxRetries = 1
    ScheduledRuns = {}
    Position <- InOrder
    Workers = {w1}
    Capacity = 2
    Needs <- Unchained
    Faults = {}
    MaxFaults = 0
INVARIANT MissingIsUnrecoverable
CHECK_DEADLOCK FALSE
