CONSTANTS
    ReceiveWindow = 2
    MaxRetransmits = 2
    DeviceWindow = 2
    DeviceTotal = 3
    ClientTotal = 2
    ChannelBound = 2
    Frg <- MCFrg
SPECIFICATION FairSpec
INVARIANTS TypeOK AckedIsKept RetiredIsHeld HandedOnceAndWhole
PROPERTIES ImplementsChannel SilentOnceClosed PendingDrains DeviceIsServed
