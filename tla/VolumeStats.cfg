SPECIFICATION Spec
CONSTANTS
    Targets = {"t1", "t2", "t3"}
    Path <- MCPath
    VolumeOf <- MCVolumeOf
    RemoteOf <- MCRemoteOf
    Calls = {c1}
    Stats <- MCStats
    MaxMounts = 2
CONSTRAINT Apart
CHECK_DEADLOCK FALSE
INVARIANTS
    TypeOK
    SteadyIsTold
    ScrapeIsTrue
