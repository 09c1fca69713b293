CONSTANTS
    MaxSessions = 2
    MaxStarts = 2
    Callers = {c1}
    BusyLimit = 2
    BackoffSteps = 0
    DialAttempts = 1
    Sessions <- MCSessions
SPECIFICATION Spec
INVARIANTS TypeOK OneSessionAtATime CurrentIsRunning StopLeavesNoTask BusyRunIsReported
CHECK_DEADLOCK FALSE
