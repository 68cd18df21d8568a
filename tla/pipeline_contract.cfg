SPECIFICATION Spec
CONSTANTS
    t1 = t1
    t2 = t2
    t3 = t3
    r1 = r1
    r2 = r2
    Tasks = {t1, t2, t3}
    Runs = {r1, r2}
    RunOf <- TwoRuns
    MaxRetries = 1
    ScheduledRuns = {r2}
    Position <- InOrder
    Workers = {w1}
    Capacity = 2
    Needs <- Unchained
    Faults = {"throttle", "enqueue", "outage", "commit", "backend"}
    MaxFaults = 2
INVARIANTS ContractInv RunCompletionSound
PROPERTIES KeepsContract
CHECK_DEADLOCK FALSE
