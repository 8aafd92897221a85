SPECIFICATION AreaSpec
CONSTANTS
    Unreadable = Unreadable
    Accounts = {"a1"}
    Tcs <- MCTcs
    Workers = {0, 1}
    LiqEnabled = TRUE
    TcsEnabled = TRUE
    RebalanceEnabled = TRUE
    Checks = {"true", "err"}
    Outcomes = {"true"}
    MaxBatch = 1
    LiqThreshold = 1
    TcsThreshold = 1
    MaxSignals = 0
    SkipDuration = 0
    KeepDuration = 0
    LogInterval = 0
INVARIANTS
    ContentPreserved
    InUseExact
    NoRevokedFillHeld
    LevelFollowersAgree
PROPERTIES
    ConsentHolds
    
    KeepsSignals
CHECK_DEADLOCK FALSE
