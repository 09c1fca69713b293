CONSTANTS
    MaxSessions = 1
    MaxStarts = 2
    Callers = {c1, c2}
    BusyLimit = 1
    BackoffSteps = 0
    DialAttempts = 1
    Sessions <- MCSessions
SPECIFICATION FairSpec
INVARIANTS ClosedByOneTask
PROPERTIES RunsSessions StopReturns StallEnds
CHECK_DEADLOCK FALSE
