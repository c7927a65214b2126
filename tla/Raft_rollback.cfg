SPECIFICATION ElectedSpec
CONSTANTS
    Server = {s1, s2, s3}
    Timers = {s1}
    Value = {v1}
    Nil = Nil
    MaxTerm = 0
    MaxLog = 2
    MaxCampaigns = 1
    MaxRounds = 2
    MaxSnapIndex = 1
    MaxFaults = 0
SYMMETRY Symmetry
CHECK_DEADLOCK FALSE
INVARIANTS
    ServiceInSync
