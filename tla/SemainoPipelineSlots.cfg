SPECIFICATION Spec
CONSTANTS
    rf1 = rf1
    rf2 = rf2
    mesh = mesh
    net = net
    here = here
    Signal <- Four
    Kind <- Domains
    Cell <- MCCell
    KindOf <- MCKindOf
    LocationOf <- MCLocationOf
    TimeOf <- MCTimeOf
    MinDomains = 2
    Window = 1
    SuppressionWindow = 2
    MinPruneThreshold = 1
    BroadcastCapacity = 1
    ChannelCapacity = 1
    MaxNow = 2
INVARIANT SameDetection
CHECK_DEADLOCK FALSE
