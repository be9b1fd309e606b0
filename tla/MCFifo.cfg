SPECIFICATION FairSpec
CONSTANTS
    scan = scan
    imu = imu
    c1 = c1
    c2 = c2
    Payload <- MCPayload
    Threads <- MCThreads
    Length <- MCLength
    MaxPushed = 5
INVARIANTS
    TypeOK
    QueueIsNewest
    NoLostWakeup
PROPERTIES
    ImplementsChannel
    EveryElementLeaves
