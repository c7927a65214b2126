SPECIFICATION FairRepairSpec
CONSTANTS
    Server = {s1, s2, s3}
    Timers = {s1, s2}
    Value = {v1}
    Nil = Nil
    MaxTerm = 2
    MaxLog = 2
    MaxCampaigns = 1
    MaxRounds = 2
    MaxSnapIndex = 0
    MaxFaults = 0
CHECK_DEADLOCK FALSE
INVARIANTS
    LogMatching
    NoIndexPanic
PROPERTIES
    TakenIsCommitted
