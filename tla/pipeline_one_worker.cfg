SPECIFICATION Spec
CONSTANTS
    t1 = t1
    t2 = t2
    t3 = t3
    r1 = r1
    r2 = r2
    Tasks = {t1, t2}
    Runs = {r1}
    RunOf <- OneRun
    MaxRetries = 1
    ScheduledRuns = {r1}
    Position <- InOrder
    Workers = {w1}
    Capacity = 2
    Needs <- Chained
    Faults = {"throttle", "process", "write", "reply", "ack", "crash", "enqueue", "outage", "commit", "backend", "slow"}
    MaxFaults = 1
INVARIANTS TypeOK NoTaskLost FailedAfterAllAttempts SettledRunIsCompleted
CHECK_DEADLOCK FALSE
