SPECIFICATION Spec
CONSTANTS
    Names = {"s3-region", "s3_region", "crypt-password", "gid", "--"}
    SecretNames = {"s3-region", "crypt-password", "remote", "configData", "remoteType"}
    GroupNames = {"gid"}
    Flags = {"s3_region", "crypt_password", "gid"}
    NormalOf <- MCNormalOf
    Types = {"s3", "crypt"}
    Options = {"region", "endpoint", "password", "remote"}
    OptionOf <- MCOptionOf
    Passwords = {"password"}
    ConfigData <- MCConfigData
    RemoteName = "enc"
    RemoteType = "crypt"
    None = None
CHECK_DEADLOCK FALSE
INVARIANTS
    TypeOK
    SectionComplete
    OwnTypeParams
    ParamsApplied
