SPECIFICATION FairSpec
CONSTANTS
    Comp = {c1}
    AllComp = all
    Cmd = {request, motor, autotune}
    Retryable = {request}
    Duplicable = {motor}
    ProgressOnly = {autotune}
    MaxTries = 3
    MaxRequests = 2
    MaxDepth = 2
PROPERTIES
    EveryRequestEnds
