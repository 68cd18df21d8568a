SPECIFICATION CronSpec
CONSTANTS
    Schedules = {s1, s2}
    Requests = {r1}
    CronsOf <- SomeCrons
    NextOccurrence <- Periodic
    BatchSize = 2
    MaxTime = 3
    MaxFailures = 1
INVARIANTS CronInv OccurrencesIncrease ActiveWillFire
PROPERTY DueIsSwept
CHECK_DEADLOCK FALSE
