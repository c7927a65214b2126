SPECIFICATION FairStaleSpec
CONSTANTS
    NServers = 2
    MaxTerm = 2
    c1 = c1
    c2 = c2
    k1 = k1
    Clerk = {c1, c2}
    Key = {k1}
    None = None
    Program <- OneWritesOneReads
    MaxCalls <- OneIsPatient
    MaxSnapIndex = 0
    MaxRestarts = 1
CHECK_DEADLOCK FALSE
INVARIANTS
    TypeOK
    ExecutedOnce
    ClosePanicOnlyIfReused
    StuckOnlyByTimeout
PROPERTIES
    HandlersEnd
