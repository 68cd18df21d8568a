SPECIFICATION LimiterSpec
CONSTANTS
    Capacity = 6
    Cost = 3
    Grain = 2
    Ttl = 8
    MaxClock = 8
    MaxCalls = 4
    MaxElapsed = 5
INVARIANTS LimiterInv GrantBound PatientCallerServed
CONSTRAINT ShortWindows
