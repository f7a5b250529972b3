SPECIFICATION Spec
CONSTANTS
    Calls = {c1, c2, c3}
    Targets = {"t1", "t2"}
    Volumes = {"v1", "v2"}
    Remotes = {"base", "crypt"}
    VolumeOf <- MCVolumeOf
    RemotesOf <- MCRemotesOf
    UpdateParams = {"v1"}
    AllowNonEmpty = FALSE
    MaxRetries = 1
    None = None
    Broken = Broken
SYMMETRY Symmetry
CHECK_DEADLOCK FALSE
INVARIANTS
    TypeOK
    LockOwned
    NoNilDaemon
    LiveMountTracked
    SectionTracked
    AnswerIsTrue
PROPERTIES
    OnlyUnpublishStops
    ImplementsService
