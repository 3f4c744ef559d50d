SPECIFICATION FairSpec

CONSTANTS
    a = a
    b = b
    c = c
    n1 = n1
    n2 = n2
    Packet <- Two
    Node <- One
    Dest <- MCDest
    OptionPriority <- MCOptionPriority
    PacketPriority <- MCPacketPriority
    MaxInflight = 1
    MaxPending = 1
    MaxRetries = 1
    MaxQueuePerDest = 1
    MaxDestinations = 1
    MaxReplies = 2

INVARIANTS
    TypeOK
    OneCopy
    RetryBound
    StatsAddUp
    QueueBounds

PROPERTIES
    EverythingReleased
    NoSilentLoss
