SPECIFICATION FairSpec
CONSTANTS
    NumComp = 2
    gimbal = gimbal
    camera = camera
    m1 = m1
    m2 = m2
    Msg <- Msgs
    Asks <- SomeAsks
    OtherMsg = telemetry
    Owner <- Owners
    MaxRequests = 3
CHECK_DEADLOCK FALSE
INVARIANTS
    TypeOK
    PendingCommandOwnerAlive
    NoRequestStranded
    HandlerCalledOnce
PROPERTIES
    IsRequestLifecycle
    EveryRequestEnds
