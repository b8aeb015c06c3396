SPECIFICATION Spec
CONSTANTS
    Comp = {c1}
    AllComp = all
    Cmd = {request, arm, motor}
    Retryable = {request}
    Duplicable = {motor}
    ProgressOnly = {}
    MaxTries = 2
    MaxRequests = 3
    MaxDepth = 2
INVARIANTS
    TypeOK
    ExactlyOneOutcome
    AcksUnambiguous
    TransmissionsBounded
PROPERTIES
    QuietWhenTold
    WalkMissesNothing
    IsRequestLifecycle
