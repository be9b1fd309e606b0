SPECIFICATION SendingSpec
CONSTANTS
    Imu = TRUE
    UdpLength = 1
    OutLength = 1
    FewMessages = 1
    MaxDatagrams = 2
    MaxEpochs = 1
INVARIANTS
    TypeOK
    NoUseAfterDelete
    ExportedInOrder
