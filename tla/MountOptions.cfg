SPECIFICATION MCSpec
CONSTANTS
    Calls = {c1, c2}
    Requests <- MCRequests
    Normalize <- MCNormalize
    OptionInfo <- MCOptionInfo
    Methods = {"mount", "mount2"}
    Value = {"rel", "/cache", "/other", "/elsewhere", "/tmp/v", "/default", "true", "false", "0",
             "5", "7", "1000", "off", "bad", "nfs", "mount2"}
    Absolute = {"/cache", "/other", "/elsewhere", "/tmp/v"}
    DefaultDir = "/default"
    None = None
CHECK_DEADLOCK FALSE
INVARIANTS
    TypeOK
    OptionsAsAsked
    CacheDirNamed
