CONSTANTS
    Consumers = {c1}
    Waiters = {w1}
    QueueSize = 2
    MaxFrames = 4
    MaxFrameSize = 3
    MaxPacketLength = 8
    WarmupFrames = 1
    ConfirmingFrames = 2
    HoldTime = 2
    ImageSizes = {3, 4}
    Leads = FALSE
    StallTimeout = 1
SPECIFICATION PathSpec
PROPERTIES WholeFrames
