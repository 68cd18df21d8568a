SPECIFICATION Spec
CONSTANTS
    t1 = t1
    t2 = t2
    t3 = t3
    r1 = r1
    r2 = r2
    Tasks = {t1, t2}
    Runs = {r1}
    RunOf <- OneRun
    MaxRetries = 1
    ScheduledRuns = {}
    Position <- InOrder
    Workers = {w1}
    Capacity = 1
    Needs <- Unchained
    Faults = {"ack"}
    MaxFaults = 1
INVARIANT RunCompletionSound
CHECK_DEADLOCK FALSE
