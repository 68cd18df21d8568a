SPECIFICATION FairSpec
CONSTANTS
    t1 = t1
    t2 = t2
    t3 = t3
    r1 = r1
    r2 = r2
    Tasks = {t1}
    Runs = {r1}
    RunOf <- OneRun
    MaxRetries = 1
    ScheduledRuns = {}
    Position <- InOrder
    Workers = {w1, w2}
    Capacity = 1
    Needs <- Unchained
    Faults = {"throttle", "process", "write", "reply", "ack", "crash", "enqueue", "outage", "commit", "backend", "slow"}
    MaxFaults = 1
INVARIANTS IInv EntryHeldOnce
PROPERTIES EveryTaskSettles EveryRunCompletes
CHECK_DEADLOCK FALSE
