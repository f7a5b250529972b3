SPECIFICATION FairSpec
CONSTANTS
    Configs <- MCConfigs
    MaxRestarts = 2
CHECK_DEADLOCK FALSE
INVARIANTS
    TypeOK
    ReadyIsTrue
PROPERTY ComesUp
