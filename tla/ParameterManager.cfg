SPECIFICATION Spec
CONSTANTS
    Count <- TwoAndOthers
    Firmwares = {"px4", "apm", "other"}
    MaxListRetry = 1
    MaxIndexRetry = 1
    BatchMax = 1
    MinOutstanding = 1
    SilentCycles = 1
    Fitted <- TwoOrThree
    MaxRefreshes <- RefreshApm
CHECK_DEADLOCK FALSE
INVARIANTS
    TypeOK
    NothingMissingUntold
    LoadIsDriven
