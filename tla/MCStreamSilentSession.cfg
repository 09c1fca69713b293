CONSTANTS
    MaxSessions = 1
    MaxStarts = 1
    Callers = {c1}
    BusyLimit = 1
    BackoffSteps = 0
    DialAttempts = 1
    Sessions <- MCSessions
SPECIFICATION FairSpec
PROPERTIES SilentSessionEnds
CHECK_DEADLOCK FALSE
