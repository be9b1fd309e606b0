SPECIFICATION FairSpec
CONSTANTS
    Locked = {"service1"}
    Unlocked = {"api"}
    Keys = {"DeviceState"}
    ScanKeys = {"LMDscandata"}
    Modes <- ApiOnly
    MaxRequests = 2
    MaxData = 1
    MaxQueued = 2
    MaxRetries = 1
INVARIANT
    RepliesMatch
