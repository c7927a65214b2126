SPECIFICATION FairSpec
CONSTANTS
    NShards = 3
    Gid = {g1, g2, g3, g4}
    NoGroup = NoGroup
    MaxConfigs = 3
CHECK_DEADLOCK FALSE
INVARIANTS
    TypeOK
    NoIndexPanic
    Consistent
    GainsOrLoses
    AssignedToMembers
PROPERTIES
    Balanced
    ActsAsHistory
    AssignEnds
