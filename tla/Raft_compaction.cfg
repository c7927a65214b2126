SPECIFICATION ElectedSpec
CONSTANTS
    Server = {s1, s2, s3}
    Timers = {s1}
    Value = {v1, v2}
    Nil = Nil
    MaxTerm = 0
    MaxLog = 2
    MaxCampaigns = 1
    MaxRounds = 2
    MaxSnapIndex = 2
    MaxFaults = 0
CONSTRAINT FreshCommands
SYMMETRY Symmetry
CHECK_DEADLOCK FALSE
INVARIANTS
    TypeOK
    LogMatching
    StateMachineSafety
    NoIndexPanic
    AckedKept
PROPERTIES
    CommitNeverRetreats
