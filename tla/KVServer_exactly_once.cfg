SPECIFICATION ElectedSpec
CONSTANTS
    NServers = 2
    MaxTerm = 1
    c1 = c1
    c2 = c2
    k1 = k1
    Clerk = {c1, c2}
    Key = {k1}
    None = None
    Program <- OneWritesAndReads
    MaxCalls <- OneCallsThrice
    MaxSnapIndex = 1
    MaxRestarts = 0
CHECK_DEADLOCK FALSE
INVARIANTS
    ExecutedOnce
    NoJump
    AckedUnlessReused
    ReadsFresh
