SPECIFICATION FairSpec
CONSTANTS
    MaxIndex = 1
    Others = TRUE
    MaxInFlight = 2
    MaxWrites = 1
INVARIANTS
    TypeOK
    LandingJumpNotAdopted
PROPERTIES
    IndexConverges
