SPECIFICATION ElectedSpec
CONSTANTS
    Server = {s1, s2, s3}
    Timers = {s1, s2, s3}
    Value = {v1}
    Nil = Nil
    MaxTerm = 1
    MaxLog = 0
    MaxCampaigns = 1
    MaxRounds = 1
    MaxSnapIndex = 0
    MaxFaults = 0
SYMMETRY Symmetry
CHECK_DEADLOCK FALSE
INVARIANTS
    OneLeaderPerTerm
