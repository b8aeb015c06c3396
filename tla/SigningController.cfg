SPECIFICATION Spec
CONSTANTS
    Vehicles = {v1, v2}
    Links = {l1, l2}
    Keys = {k1, k2, kx}
    StoredKeys = {k1, k2}
    NoVehicle = NoVehicle
    NoLink = NoLink
    NoKey = NoKey
    MaxOps = 2
CHECK_DEADLOCK FALSE
SYMMETRY SigningSymmetry
INVARIANTS
    TypeOK
    ChannelFollowsOperation
    RetryIsForPendingOperation
PROPERTIES
    SignsWithProvenKey
