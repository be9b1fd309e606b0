SPECIFICATION SessionSpec
CONSTANTS
    Stops = {"close", "service"}
    MaxSessions = 3
CHECK_DEADLOCK FALSE
INVARIANTS
    SessionTypeOK
    StoppedMeansEnded
PROPERTY CloseReturns
