SPECIFICATION SendingSpec
CONSTANTS
    Imu = FALSE
    UdpLength = 1
    OutLength = 1
    FewMessages = 1
    MaxDatagrams = 3
    MaxEpochs = 2
PROPERTIES
    PipelineDrains
    TeardownEnds
