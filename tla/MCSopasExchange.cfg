SPECIFICATION FairSpec
CONSTANTS
    Locked = {"service1", "service2"}
    Unlocked = {"api"}
    Keys = {"DeviceState", "LIDoutputstate"}
    ScanKeys = {"LMDscandata", "LIDoutputstate"}
    Modes <- SeveralModes
    MaxRequests = 2
    MaxData = 2
    MaxQueued = 2
    MaxRetries = 1
CHECK_DEADLOCK FALSE
INVARIANTS
    TypeOK
    ScanDataComplete
    ReplyToTheCommand
    NoLostWakeup
PROPERTIES
    CommandReturns
    ScanDataTaken
