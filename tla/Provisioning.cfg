SPECIFICATION Spec
CONSTANTS
    Claims <- MCClaims
    Params <- MCParams
    Secret <- MCSecret
    Folded <- MCFolded
    Capabilities = {"mount", "block"}
    MaxCreates = 2
    None = None
    MaxClaims = 3
CONSTRAINT FewClaims
CHECK_DEADLOCK FALSE
INVARIANTS
    TypeOK
    OwnDirectory
    OneIDEach
    MountsTheClaim
