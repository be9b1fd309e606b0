SPECIFICATION Spec
CONSTANTS
    N = 5
    Ranges <- SomeRanges
    Layers = {1, 2}
    Spans = {0, 1}
    CounterLimit = 14
    MaxGap = 2
    MaxDelay = 1
    MaxTelegrams = 40
CHECK_DEADLOCK FALSE
INVARIANTS
    TypeOK
    OneRevolution
    UndisturbedPublished
PROPERTY FramesAscend
