SPECIFICATION FairRegistrySpec
CONSTANTS
    Interval = 5
    Ttl = 15
    BeatTime = 1
    MaxIds = 2
INVARIANTS RegistryInv OfflineIsDone MissedBeatTolerated HealthyIsOnline
PROPERTIES DeadIsDropped ShutdownCompletes
