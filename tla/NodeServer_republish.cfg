SPECIFICATION Spec
CONSTANTS
    Calls = {c1, c2, c3}
    Targets = {"t1", "t2"}
    Volumes = {"v1", "v2"}
    Remotes = {"base", "crypt"}
    VolumeOf <- MCVolumeOf
    RemotesOf <- MCRemotesOf
    UpdateParams = {}
    AllowNonEmpty = FALSE
    MaxRetries = 1
    None = None
SYMMETRY Symmetry
CHECK_DEADLOCK FALSE
INVARIANT RepublishSucceeds
