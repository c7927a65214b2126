SPECIFICATION ElectedSpec
CONSTANTS
    Server = {s1, s2, s3}
    Timers = {s1, s2}
    Value = {v1, v2}
    Nil = Nil
    MaxTerm = 1
    MaxLog = 2
    MaxCampaigns = 1
    MaxRounds = 1
    MaxSnapIndex = 0
    MaxFaults = 0
SYMMETRY Symmetry
CONSTRAINT NothingErased
CHECK_DEADLOCK FALSE
INVARIANTS
    LogMatching
    StateMachineSafety
    LeaderCompleteness
    AppendsEndInOwnTerm
    CommittedOnMajority
PROPERTIES
    LeaderAppendOnly
