SPECIFICATION ElectedSpec
CONSTANTS
    Server = {s1, s2, s3, s4, s5}
    Timers = {s1}
    Value = {v1, v2}
    Nil = Nil
    MaxTerm = 0
    MaxLog = 2
    MaxCampaigns = 1
    MaxRounds = 1
    MaxSnapIndex = 0
    MaxFaults = 0
SYMMETRY Symmetry
CHECK_DEADLOCK FALSE
INVARIANTS
    CommittedOnMajority
