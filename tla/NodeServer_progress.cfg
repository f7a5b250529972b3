SPECIFICATION FairSpec
CONSTANTS
    Calls = {c1, c2}
    Targets = {"t1", "t2"}
    Volumes = {"v1", "v2"}
    Remotes = {"base", "crypt"}
    VolumeOf <- MCVolumeOf
    RemotesOf <- MCRemotesOf
    UpdateParams = {"v1"}
    AllowNonEmpty = FALSE
    MaxRetries = 1
    None = None
CHECK_DEADLOCK FALSE
PROPERTIES
    Answered
