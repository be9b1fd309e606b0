SPECIFICATION Spec
CONSTANTS
    Settings <- Launches
    MaxFaults = 2
    MaxPolls = 2
INVARIANTS
    TypeOK
    NothingRefused
    RunningMeansConfigured
PROPERTIES
    DataOnlyWhenConfigured
    DriverRuns
CHECK_DEADLOCK FALSE
