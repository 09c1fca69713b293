CONSTANTS
    Sessions = {s1}
    DialAttempts = 2
SPECIFICATION FairSessionSpec
PROPERTIES DialRetries
CHECK_DEADLOCK FALSE
