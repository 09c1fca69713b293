CONSTANTS
    Sessions = {s1}
    DialAttempts = 2
SPECIFICATION FairSessionSpec
INVARIANTS SessionTypeOK TornDownHoldsNothing NoCandidateOnceClosing
PROPERTIES ResolvedOnce EndedIsTornDown StartReturns
CHECK_DEADLOCK FALSE
