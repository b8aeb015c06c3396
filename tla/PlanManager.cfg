SPECIFICATION FairSpec
CONSTANTS
    a = a
    b = b
    Plans <- SomePlans
    Apm = TRUE
    MaxRetryCount = 1
    MaxTransactions = 2
    ChannelSize = 2
CHECK_DEADLOCK FALSE
INVARIANTS
    TypeOK
    NeverLocked
    ReportedAsAsked
PROPERTIES
    SuccessMeansSamePlan
    TransfersEnd
